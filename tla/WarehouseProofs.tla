--------------------------- MODULE WarehouseProofs ---------------------------
(***************************************************************************)
(* What is promised of the warehouse, for every set of loads, bindings,    *)
(* periods and blocks, every directory of definitions and all rows.        *)
(*                                                                         *)
(* Of run_binding, with any number of faults: types, an accountable lock,  *)
(* an honest audit trail, and what a reader of the live tables can rely on *)
(* where locks hold.  Of provisioning, refresh and reading: a catalogue    *)
(* that is served computes, the preflight tells what is there, settled     *)
(* mappings are those of the rows, a report keeps the filters that concern *)
(* it, and a search offers what a filter can use.                          *)
(***************************************************************************)
EXTENDS LoadPipeline, Deployment, FiniteSetTheorems, SequenceTheorems, TLAPS

-----------------------------------------------------------------------------
(* Type correctness *)

\* Next, action by action: the shape in which every invariance proof below
\* splits it.
LEMMA NextSplit ==
    ASSUME Next
    PROVE  \E l \in Loads :
              \/ RunBinding(l) \/ AcquireLock(l) \/ LockBusy(l)
              \/ FinaliseConflict(l) \/ RaiseUnlocked(l) \/ ClearStaging(l)
              \/ QuerySource(l) \/ InsertReturns(l) \/ ReadSourceTotals(l)
              \/ ExtractFails(l) \/ RecordExtract(l) \/ ShapePasses(l)
              \/ ShapeFails(l) \/ RunChecks(l) \/ ChecksRaise(l)
              \/ RecordChecks(l) \/ Promote(l) \/ DropStaging(l)
              \/ RecordSwap(l) \/ RefreshHierarchies(l) \/ SwapFails(l)
              \/ Finalise(l) \/ RaiseLocked(l) \/ Release(l)
              \/ LandBlock(l) \/ Crash(l) \/ ReapSession(l) \/ LoseLock(l)
  BY DEF Next, Step

\* The slice a started load writes is one of the slices of the tables.
LEMMA SliceType ==
    ASSUME NEW l \in Loads, job[l] \in Jobs
    PROVE  /\ Slice(l) \in Slices
           /\ Binding(l) \in Bindings
           /\ job[l].stop \in {"none", "extract", "validate"}
  BY TargetAssumption DEF Slice, Slices, Binding, Jobs

\* Every variable keeps its type, faults or no faults.
THEOREM TypeCorrect == Spec => []TypeOK
<1>1. Init => TypeOK
  BY BoundsAssumption
  DEF Init, TypeOK, Stages, Terminal, HistoryRow, NoRow, Slices, Rows
<1>2. TypeOK /\ [Next]_vars => TypeOK'
  <2> SUFFICES ASSUME TypeOK, [Next]_vars
               PROVE  TypeOK'
    OBVIOUS
  <2>0. CASE UNCHANGED vars
    BY <2>0 DEF TypeOK, vars, task, tables, faults
  <2>2. ASSUME NEW l \in Loads, RunBinding(l)
        PROVE  TypeOK'
    BY <2>2 DEF RunBinding, HistoryRow, Goto, TypeOK, Stages, Critical, Extracting, Validating, Swapping, Ended,
       task, tables, faults
  <2>3. ASSUME NEW l \in Loads, AcquireLock(l)
        PROVE  TypeOK'
    BY <2>3 DEF AcquireLock, Goto, TypeOK, Stages, Critical, Extracting, Validating, Swapping, Ended,
       task, tables, faults
  <2>4. ASSUME NEW l \in Loads, LockBusy(l)
        PROVE  TypeOK'
    BY <2>4 DEF LockBusy, Goto, TypeOK, Stages, Critical, Extracting, Validating, Swapping, Ended,
       task, tables, faults
  <2>5. ASSUME NEW l \in Loads, FinaliseConflict(l)
        PROVE  TypeOK'
    BY <2>5 DEF FinaliseConflict, HistoryRow, Terminal, Failures, Goto, TypeOK, Stages, Critical, Extracting, Validating, Swapping, Ended,
       task, tables, faults
  <2>6. ASSUME NEW l \in Loads, RaiseUnlocked(l)
        PROVE  TypeOK'
    BY <2>6 DEF RaiseUnlocked, Goto, TypeOK, Stages, Critical, Extracting, Validating, Swapping, Ended,
       task, tables, faults
  <2>7. ASSUME NEW l \in Loads, ClearStaging(l)
        PROVE  TypeOK'
    BY <2>7 DEF ClearStaging, Goto, TypeOK, Stages, Critical, Extracting, Validating, Swapping, Ended,
       task, tables, faults
  <2>8. ASSUME NEW l \in Loads, QuerySource(l)
        PROVE  TypeOK'
    BY <2>8 DEF QuerySource, Goto, TypeOK, Stages, Critical, Extracting, Validating, Swapping, Ended,
       task, tables, faults
  <2>9. ASSUME NEW l \in Loads, InsertReturns(l)
        PROVE  TypeOK'
    BY <2>9 DEF InsertReturns, Goto, TypeOK, Stages, Critical, Extracting, Validating, Swapping, Ended,
       task, tables, faults
  <2>10. ASSUME NEW l \in Loads, ReadSourceTotals(l)
        PROVE  TypeOK'
    BY <2>10 DEF ReadSourceTotals, Goto, TypeOK, Stages, Critical, Extracting, Validating, Swapping, Ended,
       task, tables, faults
  <2>11. ASSUME NEW l \in Loads, ExtractFails(l)
        PROVE  TypeOK'
    <3>1. unsent' \in [Loads -> SUBSET Parts] /\ lateInserts' \in 0 .. MaxLateInserts
      BY <2>11, BoundsAssumption DEF ExtractFails, AbandonInsert, TypeOK
    <3>2. pc' \in [Loads -> Stages] /\ outcome' \in [Loads -> Terminal \union {"running"}]
      BY <2>11 DEF ExtractFails, FinishAs, Goto, TypeOK, Terminal, Failures,
         Stages, Critical, Extracting, Validating, Swapping, Ended
    <3>3. QED
      BY <2>11, <3>1, <3>2 DEF ExtractFails, TypeOK, tables
  <2>12. ASSUME NEW l \in Loads, RecordExtract(l)
        PROVE  TypeOK'
    <3>1. history'[l] \in HistoryRow /\ history' = [history EXCEPT ![l] = history'[l]]
      BY <2>12 DEF RecordExtract, TypeOK, HistoryRow
    <3>2. history' \in [Loads -> HistoryRow]
      BY <3>1 DEF TypeOK
    <3>3. pc' \in [Loads -> Stages] /\ outcome' \in [Loads -> Terminal \union {"running"}]
      BY <2>12 DEF RecordExtract, FinishAs, Goto, TypeOK, Terminal, Failures,
         Stages, Critical, Extracting, Validating, Swapping, Ended
    <3>4. QED
      BY <2>12, <3>2, <3>3 DEF RecordExtract, TypeOK, tables, faults
  <2>13. ASSUME NEW l \in Loads, ShapePasses(l)
        PROVE  TypeOK'
    BY <2>13 DEF ShapePasses, AfterValidation, FinishAs, Terminal, Failures, Goto, TypeOK, Stages, Critical, Extracting, Validating, Swapping, Ended,
       task, tables, faults
  <2>14. ASSUME NEW l \in Loads, ShapeFails(l)
        PROVE  TypeOK'
    BY <2>14 DEF ShapeFails, FinishAs, Terminal, Failures, Goto, TypeOK, Stages, Critical, Extracting, Validating, Swapping, Ended,
       task, tables, faults
  <2>15. ASSUME NEW l \in Loads, RunChecks(l)
        PROVE  TypeOK'
    BY <2>15 DEF RunChecks, Goto, TypeOK, Stages, Critical, Extracting, Validating, Swapping, Ended,
       task, tables, faults
  <2>16. ASSUME NEW l \in Loads, ChecksRaise(l)
        PROVE  TypeOK'
    BY <2>16 DEF ChecksRaise, FinishAs, Terminal, Failures, Goto, TypeOK, Stages, Critical, Extracting, Validating, Swapping, Ended,
       task, tables, faults
  <2>17. ASSUME NEW l \in Loads, RecordChecks(l)
        PROVE  TypeOK'
    <3>1. history'[l] \in HistoryRow /\ history' = [history EXCEPT ![l] = history'[l]]
      BY <2>17 DEF RecordChecks, TypeOK, HistoryRow
    <3>2. history' \in [Loads -> HistoryRow]
      BY <3>1 DEF TypeOK
    <3>3. pc' \in [Loads -> Stages] /\ outcome' \in [Loads -> Terminal \union {"running"}]
      BY <2>17 DEF RecordChecks, AfterValidation, FinishAs, Goto, TypeOK, Terminal, Failures,
         Stages, Critical, Extracting, Validating, Swapping, Ended
    <3>4. QED
      BY <2>17, <3>2, <3>3 DEF RecordChecks, TypeOK, tables, faults
  <2>18. ASSUME NEW l \in Loads, Promote(l)
        PROVE  TypeOK'
    BY <2>18 DEF Promote, Goto, TypeOK, Stages, Critical, Extracting, Validating, Swapping, Ended,
       task, tables, faults
  <2>19. ASSUME NEW l \in Loads, DropStaging(l)
        PROVE  TypeOK'
    BY <2>19 DEF DropStaging, Goto, TypeOK, Stages, Critical, Extracting, Validating, Swapping, Ended,
       task, tables, faults
  <2>20. ASSUME NEW l \in Loads, RecordSwap(l)
        PROVE  TypeOK'
    <3>1. history'[l] \in HistoryRow /\ history' = [history EXCEPT ![l] = history'[l]]
      BY <2>20 DEF RecordSwap, TypeOK, HistoryRow
    <3>2. history' \in [Loads -> HistoryRow]
      BY <3>1 DEF TypeOK
    <3>3. pc' \in [Loads -> Stages] /\ outcome' \in [Loads -> Terminal \union {"running"}]
      BY <2>20 DEF RecordSwap, FinishAs, Goto, TypeOK, Terminal, Failures,
         Stages, Critical, Extracting, Validating, Swapping, Ended
    <3>4. QED
      BY <2>20, <3>2, <3>3 DEF RecordSwap, TypeOK, tables, faults
  <2>21. ASSUME NEW l \in Loads, RefreshHierarchies(l)
        PROVE  TypeOK'
    BY <2>21 DEF RefreshHierarchies, FinishAs, Terminal, Failures, Goto, TypeOK, Stages, Critical, Extracting, Validating, Swapping, Ended,
       task, tables, faults
  <2>22. ASSUME NEW l \in Loads, SwapFails(l)
        PROVE  TypeOK'
    BY <2>22 DEF SwapFails, FinishAs, Terminal, Failures, Goto, TypeOK, Stages, Critical, Extracting, Validating, Swapping, Ended,
       task, tables, faults
  <2>23. ASSUME NEW l \in Loads, Finalise(l)
        PROVE  TypeOK'
    BY <2>23 DEF Finalise, HistoryRow, Terminal, Goto, TypeOK, Stages, Critical, Extracting, Validating, Swapping, Ended,
       task, tables, faults
  <2>24. ASSUME NEW l \in Loads, RaiseLocked(l)
        PROVE  TypeOK'
    BY <2>24 DEF RaiseLocked, Goto, TypeOK, Stages, Critical, Extracting, Validating, Swapping, Ended,
       task, tables, faults
  <2>25. ASSUME NEW l \in Loads, Release(l)
        PROVE  TypeOK'
    BY <2>25 DEF Release, Goto, TypeOK, Stages, Critical, Extracting, Validating, Swapping, Ended,
       task, tables, faults
  <2>26. ASSUME NEW l \in Loads, LandBlock(l)
        PROVE  TypeOK'
    <3>1. PICK p \in unsent[l] :
             /\ staging' = [staging EXCEPT ![Slice(l)] = @ \union {<<l, p>>}]
             /\ unsent' = [unsent EXCEPT ![l] = @ \ {p}]
      BY <2>26 DEF LandBlock
    <3>2. <<l, p>> \in Rows
      BY DEF Rows, TypeOK
    <3>3. staging' \in [Slices -> SUBSET Rows] /\ unsent' \in [Loads -> SUBSET Parts]
      BY <3>1, <3>2 DEF TypeOK
    <3>4. QED
      BY <2>26, <3>3 DEF LandBlock, TypeOK, task, faults
  <2>27. ASSUME NEW l \in Loads, Crash(l)
        PROVE  TypeOK'
    <3>1. unsent' \in [Loads -> SUBSET Parts] /\ lateInserts' \in 0 .. MaxLateInserts
      BY <2>27, BoundsAssumption DEF Crash, AbandonInsert, TypeOK
    <3>2. pc' \in [Loads -> Stages]
      BY <2>27 DEF Crash, Goto, TypeOK, Stages, Ended
    <3>3. QED
      BY <2>27, <3>1, <3>2 DEF Crash, TypeOK, task, tables
  <2>28. ASSUME NEW l \in Loads, ReapSession(l)
        PROVE  TypeOK'
    BY <2>28 DEF ReapSession, Goto, TypeOK, Stages, Critical, Extracting, Validating, Swapping, Ended,
       task, tables, faults
  <2>29. ASSUME NEW l \in Loads, LoseLock(l)
        PROVE  TypeOK'
    <3>1. lockLosses' \in 0 .. MaxLockLosses
      BY <2>29, BoundsAssumption DEF LoseLock, TypeOK
    <3>2. lock' \in [Bindings -> Loads \union {NoLoad}]
      BY <2>29 DEF LoseLock, TypeOK
    <3>3. QED
      BY <2>29, <3>1, <3>2 DEF LoseLock, TypeOK, task, tables
  <2>30. QED
    BY NextSplit, <2>0, <2>2, <2>3, <2>4, <2>5, <2>6, <2>7, <2>8, <2>9, <2>10, <2>11, <2>12, <2>13, <2>14, <2>15, <2>16, <2>17, <2>18, <2>19, <2>20, <2>21, <2>22, <2>23, <2>24, <2>25, <2>26, <2>27, <2>28, <2>29
<1>3. QED
  BY <1>1, <1>2, PTL DEF Spec

-----------------------------------------------------------------------------
(* Locks *)

\* A step of one load leaves every other load's own state alone: what loads
\* share is the lock, the tables and the fault counts.
LEMMA OthersUntouched ==
    ASSUME TypeOK, NEW l \in Loads, NEW m \in Loads, m # l,
           RunBinding(l) \/ Step(l) \/ LandBlock(l) \/ Crash(l)
              \/ ReapSession(l) \/ LoseLock(l)
    PROVE  /\ pc'[m] = pc[m] /\ job'[m] = job[m]
           /\ outcome'[m] = outcome[m] /\ verdict'[m] = verdict[m]
           /\ extracted'[m] = extracted[m] /\ unsent'[m] = unsent[m]
           /\ history'[m] = history[m]
           /\ m \in published' <=> m \in published
  BY DEF TypeOK, RunBinding, Step, LandBlock, Crash, ReapSession, LoseLock,
     AcquireLock, LockBusy, FinaliseConflict, RaiseUnlocked, ClearStaging,
     QuerySource, InsertReturns, ReadSourceTotals, ExtractFails, RecordExtract,
     ShapePasses, ShapeFails, RunChecks, ChecksRaise, RecordChecks, Promote,
     DropStaging, RecordSwap, RefreshHierarchies, SwapFails, Finalise,
     RaiseLocked, Release, AfterValidation, AbandonInsert, FinishAs, Goto,
     task, tables, faults

\* No lock outlives its load, except for the time Postgres takes to notice
\* that a process is gone; and a load holds no lock but its binding's.
THEOREM LockIsAccountable == Spec => []LockAccountable
<1>1. Init => LockAccountable
  BY DEF Init, LockAccountable
<1>2. TypeOK /\ LockAccountable /\ [Next]_vars => LockAccountable'
  <2> SUFFICES ASSUME TypeOK, LockAccountable, [Next]_vars
               PROVE  LockAccountable'
    OBVIOUS
  <2>1. CASE UNCHANGED vars
    BY <2>1 DEF LockAccountable, Binding, vars, task, tables, faults
  <2>2. CASE Next
    <3>1. PICK l \in Loads : RunBinding(l) \/ Step(l) \/ LandBlock(l) \/ Crash(l)
                                \/ ReapSession(l) \/ LoseLock(l)
      BY <2>2 DEF Next
    <3>2. ASSUME NEW b \in Bindings, lock'[b] = lock[b], lock[b] # NoLoad,
                 job' = job,
                 pc[l] \in Critical \union {"crashed"} =>
                     pc'[l] \in Critical \union {"crashed"}
          PROVE  /\ pc'[lock'[b]] \in Critical \union {"crashed"}
                 /\ Binding(lock[b])' = b
      <4>1. lock[b] \in Loads /\ pc[lock[b]] \in Critical \union {"crashed"}
              /\ Binding(lock[b]) = b
        BY <3>2 DEF LockAccountable, TypeOK
      <4>2. CASE lock[b] = l
        BY <3>2, <4>1, <4>2 DEF Binding
      <4>3. CASE lock[b] # l
        BY <3>1, <3>2, <4>1, <4>3, OthersUntouched DEF Binding
      <4>4. QED
        BY <4>2, <4>3
    <3>3. CASE AcquireLock(l)
      <4>1. /\ lock' = [lock EXCEPT ![Binding(l)] = l] /\ job' = job
            /\ pc[l] = "lock" /\ pc'[l] = "clear"
        BY <3>3 DEF AcquireLock, Goto, TypeOK, task
      <4>2. ASSUME NEW b \in Bindings, lock'[b] # NoLoad
            PROVE  /\ pc'[lock'[b]] \in Critical \union {"crashed"}
                   /\ Binding(lock[b])' = b
        <5>1. CASE b = Binding(l)
          BY <4>1, <5>1 DEF Binding, TypeOK, Critical, Extracting
        <5>2. CASE b # Binding(l)
          <6>1. lock'[b] = lock[b]
            BY <4>1, <5>2 DEF TypeOK
          <6>2. QED
            BY <3>2, <4>1, <4>2, <6>1
               DEF Critical, Extracting, Validating, Swapping
        <5>3. QED
          BY <5>1, <5>2
      <4>3. QED
        BY <4>2 DEF LockAccountable
    <3>4. ASSUME Release(l) \/ ReapSession(l)
          PROVE  LockAccountable'
      <4>1. /\ lock' = [b \in Bindings |-> IF lock[b] = l THEN NoLoad ELSE lock[b]]
            /\ job' = job
        BY <3>4 DEF Release, ReapSession, task
      <4>2. ASSUME NEW b \in Bindings, lock'[b] # NoLoad
            PROVE  /\ pc'[lock'[b]] \in Critical \union {"crashed"}
                   /\ Binding(lock[b])' = b
        <5>1. lock'[b] = lock[b] /\ lock[b] # l /\ lock[b] # NoLoad
          BY <4>1, <4>2
        <5>2. lock[b] \in Loads /\ pc[lock[b]] \in Critical \union {"crashed"}
                /\ Binding(lock[b]) = b
          BY <5>1 DEF LockAccountable, TypeOK
        <5>3. QED
          BY <3>1, <4>1, <5>1, <5>2, OthersUntouched DEF Binding
      <4>3. QED
        BY <4>2 DEF LockAccountable
    <3>5. CASE LoseLock(l)
      <4>1. ASSUME NEW b \in Bindings, lock'[b] # NoLoad
            PROVE  lock'[b] = lock[b]
        BY <3>5, <4>1 DEF LoseLock, TypeOK
      <4>2. job' = job /\ pc' = pc
        BY <3>5 DEF LoseLock, task
      <4>3. QED
        BY <3>2, <4>1, <4>2 DEF LockAccountable
    <3>6. CASE RunBinding(l)
      <4>1. pc[l] = "new" /\ lock' = lock
        BY <3>6 DEF RunBinding
      <4>2. ASSUME NEW b \in Bindings, lock'[b] # NoLoad
            PROVE  /\ pc'[lock'[b]] \in Critical \union {"crashed"}
                   /\ Binding(lock[b])' = b
        <5>1. lock[b] \in Loads /\ pc[lock[b]] \in Critical \union {"crashed"}
                /\ Binding(lock[b]) = b
          BY <4>1, <4>2 DEF LockAccountable, TypeOK
        <5>2. lock[b] # l
          BY <4>1, <5>1 DEF Critical, Extracting, Validating, Swapping
        <5>3. QED
          BY <3>1, <4>1, <5>1, <5>2, OthersUntouched DEF Binding
      <4>3. QED
        BY <4>2 DEF LockAccountable
    <3>7. ASSUME ~AcquireLock(l), ~Release(l), ~ReapSession(l), ~LoseLock(l),
                 ~RunBinding(l)
          PROVE  LockAccountable'
      <4> DEFINE Kept == /\ lock' = lock /\ job' = job
                         /\ pc[l] \in Critical \union {"crashed"} =>
                                pc'[l] \in Critical \union {"crashed"}
      <4>1. ASSUME LandBlock(l) \/ Crash(l) \/ LockBusy(l) \/ FinaliseConflict(l)
                      \/ RaiseUnlocked(l)
            PROVE  Kept
        BY <4>1 DEF TypeOK, LandBlock, Crash, LockBusy, FinaliseConflict,
           RaiseUnlocked, Goto, task, Ended, Critical, Extracting, Validating, Swapping
      <4>2. ASSUME ClearStaging(l) \/ QuerySource(l) \/ InsertReturns(l)
                      \/ ReadSourceTotals(l) \/ ExtractFails(l)
            PROVE  Kept
        BY <4>2 DEF TypeOK, ClearStaging, QuerySource, InsertReturns,
           ReadSourceTotals, ExtractFails, FinishAs, Goto, task, Critical,
           Extracting, Validating, Swapping
      <4>3. ASSUME RecordExtract(l) \/ ShapePasses(l) \/ ShapeFails(l)
                      \/ RunChecks(l) \/ ChecksRaise(l) \/ RecordChecks(l)
            PROVE  Kept
        BY <4>3 DEF TypeOK, RecordExtract, ShapePasses, ShapeFails, RunChecks,
           ChecksRaise, RecordChecks, AfterValidation, FinishAs, Goto, Critical,
           Extracting, Validating, Swapping
      <4>4. ASSUME Promote(l) \/ DropStaging(l) \/ RecordSwap(l)
                      \/ RefreshHierarchies(l) \/ SwapFails(l) \/ Finalise(l)
                      \/ RaiseLocked(l)
            PROVE  Kept
        BY <4>4 DEF TypeOK, Promote, DropStaging, RecordSwap, RefreshHierarchies,
           SwapFails, Finalise, RaiseLocked, FinishAs, Goto, task, Critical,
           Extracting, Validating, Swapping
      <4>5. Kept
        BY <3>1, <3>7, <4>1, <4>2, <4>3, <4>4 DEF Step
      <4>6. QED
        BY <3>2, <4>5 DEF LockAccountable
    <3>8. QED
      BY <3>3, <3>4, <3>5, <3>6, <3>7
  <2>3. QED
    BY <2>1, <2>2
<1>3. QED
  BY <1>1, <1>2, TypeCorrect, PTL DEF Spec

-----------------------------------------------------------------------------
(* The audit trail *)

\* Load l has everything a full success is written down for.
FullyRecorded(l) ==
    /\ l \in published
    /\ history[l].swapped
    /\ history[l].landed = "some"
    /\ Binding(l) \in Checked => history[l].verdict = "passed"

\* What the audit row of a load says at each stage of it; AuditTrailHonest is
\* what is left of this for a reader who sees the row only.
AuditOf(l) ==
    /\ pc[l] = "new" => history[l] = NoRow
    /\ pc[l] \in {"lock", "conflict", "unwind"}
                   \union (Critical \ {"release"}) => history[l].status = "running"
    /\ l \in published => pc[l] \in {"drop", "record_swap", "refresh", "finalise",
                                     "release", "unwind"} \union Ended
    /\ pc[l] \in {"drop", "record_swap", "refresh"} => l \in published
    /\ pc[l] \in {"validate", "checks", "record_checks"} \union Swapping =>
           history[l].landed = "some"
    /\ pc[l] \in Swapping /\ Binding(l) \in Checked => history[l].verdict = "passed"
    /\ l \in published /\ Binding(l) \in Checked => history[l].verdict = "passed"
    /\ pc[l] = "refresh" => history[l].swapped
    /\ history[l].swapped => l \in published
    /\ pc[l] = "record_checks" => verdict[l] \in {"passed", "blocked"}
    /\ pc[l] = "finalise" =>
           /\ outcome[l] \in Terminal
           /\ outcome[l] = "success" /\ job[l].stop = "none" => FullyRecorded(l)
           /\ outcome[l] \in Failures \ {"failed_swap"} => l \notin published
    /\ pc[l] \in {"release", "done"} => history[l].status \in Terminal
    /\ history[l].status = "success" /\ job[l].stop = "none" => FullyRecorded(l)
    /\ history[l].status \in Failures \ {"failed_swap"} => l \notin published

Audit == \A l \in Loads : AuditOf(l)

\* A step of load l keeps what its own audit row says true, whatever happens
\* to the lock, to its inserts or to its process.
LEMMA AuditStep ==
    ASSUME TypeOK, NEW l \in Loads, AuditOf(l),
           RunBinding(l) \/ Step(l) \/ LandBlock(l) \/ Crash(l)
              \/ ReapSession(l) \/ LoseLock(l)
    PROVE  AuditOf(l)'
<1>1. CASE RunBinding(l)
  BY <1>1 DEF RunBinding, Goto, AuditOf, FullyRecorded, TypeOK,
     HistoryRow, NoRow, Jobs, Binding, Terminal, Failures, Ended, Critical,
     Extracting, Validating, Swapping, task, tables, faults
<1>2. CASE AcquireLock(l)
  BY <1>2 DEF AcquireLock, Goto, AuditOf, FullyRecorded, TypeOK,
     HistoryRow, NoRow, Jobs, Binding, Terminal, Failures, Ended, Critical,
     Extracting, Validating, Swapping, task, tables, faults
<1>3. CASE LockBusy(l)
  BY <1>3 DEF LockBusy, Goto, AuditOf, FullyRecorded, TypeOK,
     HistoryRow, NoRow, Jobs, Binding, Terminal, Failures, Ended, Critical,
     Extracting, Validating, Swapping, task, tables, faults
<1>4. CASE FinaliseConflict(l)
  BY <1>4 DEF FinaliseConflict, Goto, AuditOf, FullyRecorded, TypeOK,
     HistoryRow, NoRow, Jobs, Binding, Terminal, Failures, Ended, Critical,
     Extracting, Validating, Swapping, task, tables, faults
<1>5. CASE RaiseUnlocked(l)
  BY <1>5 DEF RaiseUnlocked, Goto, AuditOf, FullyRecorded, TypeOK,
     HistoryRow, NoRow, Jobs, Binding, Terminal, Failures, Ended, Critical,
     Extracting, Validating, Swapping, task, tables, faults
<1>6. CASE ClearStaging(l)
  BY <1>6 DEF ClearStaging, Goto, AuditOf, FullyRecorded, TypeOK,
     HistoryRow, NoRow, Jobs, Binding, Terminal, Failures, Ended, Critical,
     Extracting, Validating, Swapping, task, tables, faults
<1>7. CASE QuerySource(l)
  BY <1>7 DEF QuerySource, Goto, AuditOf, FullyRecorded, TypeOK,
     HistoryRow, NoRow, Jobs, Binding, Terminal, Failures, Ended, Critical,
     Extracting, Validating, Swapping, task, tables, faults
<1>8. CASE InsertReturns(l)
  BY <1>8 DEF InsertReturns, Goto, AuditOf, FullyRecorded, TypeOK,
     HistoryRow, NoRow, Jobs, Binding, Terminal, Failures, Ended, Critical,
     Extracting, Validating, Swapping, task, tables, faults
<1>9. CASE ReadSourceTotals(l)
  BY <1>9 DEF ReadSourceTotals, Goto, AuditOf, FullyRecorded, TypeOK,
     HistoryRow, NoRow, Jobs, Binding, Terminal, Failures, Ended, Critical,
     Extracting, Validating, Swapping, task, tables, faults
<1>10. CASE ExtractFails(l)
  BY <1>10 DEF ExtractFails, FinishAs, Goto, AuditOf, FullyRecorded, TypeOK,
     HistoryRow, NoRow, Jobs, Binding, Terminal, Failures, Ended, Critical,
     Extracting, Validating, Swapping, task, tables, faults
<1>11. CASE RecordExtract(l)
  BY <1>11 DEF RecordExtract, FinishAs, Goto, AuditOf, FullyRecorded, TypeOK,
     HistoryRow, NoRow, Jobs, Binding, Terminal, Failures, Ended, Critical,
     Extracting, Validating, Swapping, task, tables, faults
<1>12. CASE ShapePasses(l)
  BY <1>12 DEF ShapePasses, AfterValidation, FinishAs, Goto, AuditOf, FullyRecorded, TypeOK,
     HistoryRow, NoRow, Jobs, Binding, Terminal, Failures, Ended, Critical,
     Extracting, Validating, Swapping, task, tables, faults
<1>13. CASE ShapeFails(l)
  BY <1>13 DEF ShapeFails, FinishAs, Goto, AuditOf, FullyRecorded, TypeOK,
     HistoryRow, NoRow, Jobs, Binding, Terminal, Failures, Ended, Critical,
     Extracting, Validating, Swapping, task, tables, faults
<1>14. CASE RunChecks(l)
  BY <1>14 DEF RunChecks, Goto, AuditOf, FullyRecorded, TypeOK,
     HistoryRow, NoRow, Jobs, Binding, Terminal, Failures, Ended, Critical,
     Extracting, Validating, Swapping, task, tables, faults
<1>15. CASE ChecksRaise(l)
  BY <1>15 DEF ChecksRaise, FinishAs, Goto, AuditOf, FullyRecorded, TypeOK,
     HistoryRow, NoRow, Jobs, Binding, Terminal, Failures, Ended, Critical,
     Extracting, Validating, Swapping, task, tables, faults
<1>16. CASE RecordChecks(l)
  BY <1>16 DEF RecordChecks, AfterValidation, FinishAs, Goto, AuditOf, FullyRecorded, TypeOK,
     HistoryRow, NoRow, Jobs, Binding, Terminal, Failures, Ended, Critical,
     Extracting, Validating, Swapping, task, tables, faults
<1>17. CASE Promote(l)
  BY <1>17 DEF Promote, Goto, AuditOf, FullyRecorded, TypeOK,
     HistoryRow, NoRow, Jobs, Binding, Terminal, Failures, Ended, Critical,
     Extracting, Validating, Swapping, task, tables, faults
<1>18. CASE DropStaging(l)
  BY <1>18 DEF DropStaging, Goto, AuditOf, FullyRecorded, TypeOK,
     HistoryRow, NoRow, Jobs, Binding, Terminal, Failures, Ended, Critical,
     Extracting, Validating, Swapping, task, tables, faults
<1>19. CASE RecordSwap(l)
  BY <1>19 DEF RecordSwap, FinishAs, Goto, AuditOf, FullyRecorded, TypeOK,
     HistoryRow, NoRow, Jobs, Binding, Terminal, Failures, Ended, Critical,
     Extracting, Validating, Swapping, task, tables, faults
<1>20. CASE RefreshHierarchies(l)
  BY <1>20 DEF RefreshHierarchies, FinishAs, Goto, AuditOf, FullyRecorded, TypeOK,
     HistoryRow, NoRow, Jobs, Binding, Terminal, Failures, Ended, Critical,
     Extracting, Validating, Swapping, task, tables, faults
<1>21. CASE SwapFails(l)
  BY <1>21 DEF SwapFails, FinishAs, Goto, AuditOf, FullyRecorded, TypeOK,
     HistoryRow, NoRow, Jobs, Binding, Terminal, Failures, Ended, Critical,
     Extracting, Validating, Swapping, task, tables, faults
<1>22. CASE Finalise(l)
  BY <1>22 DEF Finalise, Goto, AuditOf, FullyRecorded, TypeOK,
     HistoryRow, NoRow, Jobs, Binding, Terminal, Failures, Ended, Critical,
     Extracting, Validating, Swapping, task, tables, faults
<1>23. CASE RaiseLocked(l)
  BY <1>23 DEF RaiseLocked, Goto, AuditOf, FullyRecorded, TypeOK,
     HistoryRow, NoRow, Jobs, Binding, Terminal, Failures, Ended, Critical,
     Extracting, Validating, Swapping, task, tables, faults
<1>24. CASE Release(l)
  BY <1>24 DEF Release, Goto, AuditOf, FullyRecorded, TypeOK,
     HistoryRow, NoRow, Jobs, Binding, Terminal, Failures, Ended, Critical,
     Extracting, Validating, Swapping, task, tables, faults
<1>25. CASE LandBlock(l)
  BY <1>25 DEF LandBlock, Goto, AuditOf, FullyRecorded, TypeOK,
     HistoryRow, NoRow, Jobs, Binding, Terminal, Failures, Ended, Critical,
     Extracting, Validating, Swapping, task, tables, faults
<1>26. CASE Crash(l)
  BY <1>26 DEF Crash, Goto, AuditOf, FullyRecorded, TypeOK,
     HistoryRow, NoRow, Jobs, Binding, Terminal, Failures, Ended, Critical,
     Extracting, Validating, Swapping, task, tables, faults
<1>27. CASE ReapSession(l)
  BY <1>27 DEF ReapSession, Goto, AuditOf, FullyRecorded, TypeOK,
     HistoryRow, NoRow, Jobs, Binding, Terminal, Failures, Ended, Critical,
     Extracting, Validating, Swapping, task, tables, faults
<1>28. CASE LoseLock(l)
  BY <1>28 DEF LoseLock, Goto, AuditOf, FullyRecorded, TypeOK,
     HistoryRow, NoRow, Jobs, Binding, Terminal, Failures, Ended, Critical,
     Extracting, Validating, Swapping, task, tables, faults
<1>29. QED
  BY <1>1, <1>2, <1>3, <1>4, <1>5, <1>6, <1>7, <1>8, <1>9, <1>10, <1>11, <1>12, <1>13, <1>14, <1>15, <1>16, <1>17, <1>18, <1>19, <1>20, <1>21, <1>22, <1>23, <1>24, <1>25, <1>26, <1>27, <1>28 DEF Step

\* What the audit row says holds at every stage of every load.
THEOREM AuditInvariant == Spec => []Audit
<1>1. Init => Audit
  <2> SUFFICES ASSUME Init, NEW l \in Loads
               PROVE  AuditOf(l)
    BY DEF Audit
  <2>1. /\ pc[l] = "new" /\ history[l] = NoRow /\ l \notin published
        /\ history[l].status = "absent" /\ ~history[l].swapped
    BY DEF Init, NoRow
  <2>2. QED
    BY <2>1 DEF AuditOf, Terminal, Failures, Ended, Critical, Extracting,
       Validating, Swapping
<1>2. TypeOK /\ Audit /\ [Next]_vars => Audit'
  <2> SUFFICES ASSUME TypeOK, Audit, [Next]_vars, NEW m \in Loads
               PROVE  AuditOf(m)'
    BY DEF Audit
  <2>1. CASE UNCHANGED vars
    BY <2>1 DEF Audit, AuditOf, FullyRecorded, Binding, vars, task, tables, faults
  <2>2. CASE Next
    <3>1. PICK l \in Loads : RunBinding(l) \/ Step(l) \/ LandBlock(l) \/ Crash(l)
                                \/ ReapSession(l) \/ LoseLock(l)
      BY <2>2 DEF Next
    <3>2. CASE m = l
      BY <3>1, <3>2, AuditStep DEF Audit
    <3>3. CASE m # l
      BY <3>1, <3>3, OthersUntouched DEF Audit, AuditOf, FullyRecorded, Binding
    <3>4. QED
      BY <3>2, <3>3
  <2>3. QED
    BY <2>1, <2>2
<1>3. QED
  BY <1>1, <1>2, TypeCorrect, PTL DEF Spec

\* An audit row never claims more, or less, than what became of the load.
THEOREM AuditTrailIsHonest == Spec => []AuditTrailHonest
<1>1. Audit => AuditTrailHonest
  BY DEF Audit, AuditOf, FullyRecorded, AuditTrailHonest
<1>2. QED
  BY <1>1, AuditInvariant, PTL

-----------------------------------------------------------------------------
(* What a reader of the live tables can rely on: one load at a time per    *)
(* table, whole slices, vetted rows, and the refinement of LiveTables.  It *)
(* is proved for runs in which the lock behaves as pg_lock promises, no    *)
(* insert outlives its client, and no two bindings share a target          *)
(* (Faultless): TLC shows each of these to be needed.                      *)
Faultless == MaxLockLosses = 0 /\ MaxLateInserts = 0 /\ TargetsUnique

-----------------------------------------------------------------------------
(* The inductive invariant, part by part, for one load *)

\* A load in its critical section holds its binding's lock, which keeps every
\* other load of the binding, and so of the target, out of it.
HoldsLock(l) == pc[l] \in Critical => lock[Binding(l)] = l

\* Only the insert a load is waiting for has blocks left to land.
InsertAwaited(l) == unsent[l] # {} => pc[l] = "insert"

\* A load that has started has its arguments.
JobGiven(l) == pc[l] # "new" => job[l] \in Jobs

\* Nothing is extracted before the source query has answered.
ExtractedByQuery(l) ==
    pc[l] \in {"new", "lock", "conflict", "clear", "query"} => extracted[l] = {}

\* From its clear to its swap, the staging slice holds what the load has
\* landed so far and nothing else.
StagingOwned(l) ==
    /\ pc[l] = "query" => staging[Slice(l)] = {}
    /\ pc[l] = "insert" =>
           /\ extracted[l] = Parts
           /\ staging[Slice(l)] = {l} \X (Parts \ unsent[l])
    /\ pc[l] \in {"reconcile", "record_extract"} =>
           staging[Slice(l)] = {l} \X extracted[l]
    /\ pc[l] \in {"validate", "checks", "record_checks", "swap"} =>
           staging[Slice(l)] = Whole(l)

\* A load is published by its swap and at no earlier stage.
PublishedBySwap(l) ==
    l \in published =>
        pc[l] \in {"drop", "record_swap", "refresh", "finalise", "release", "unwind"}
                      \union Ended

\* Between its swap and its last status, a successful load is what readers see.
StillLive(l) ==
    \/ pc[l] \in {"drop", "record_swap", "refresh"}
    \/ pc[l] = "finalise" /\ outcome[l] = "success" /\ job[l].stop = "none"
    => live[Slice(l)] = Whole(l)

LoadInv(l) ==
    /\ HoldsLock(l)
    /\ InsertAwaited(l)
    /\ JobGiven(l)
    /\ ExtractedByQuery(l)
    /\ StagingOwned(l)
    /\ PublishedBySwap(l)
    /\ StillLive(l)

IInv ==
    /\ TypeOK
    /\ \A l \in Loads : LoadInv(l)
    /\ LiveIsWhole

\* A step of load l, as Next has it.
StepOf(l) == RunBinding(l) \/ Step(l) \/ LandBlock(l) \/ Crash(l)
                \/ ReapSession(l) \/ LoseLock(l)

-----------------------------------------------------------------------------
(* Two loads in their critical sections work on different tables. *)

LEMMA DistinctTargets ==
    ASSUME Faultless, NEW l \in Loads, NEW m \in Loads, l # m,
           pc[l] \in Critical, pc[m] \in Critical,
           HoldsLock(l), HoldsLock(m), JobGiven(l), JobGiven(m)
    PROVE  Target[Binding(l)] # Target[Binding(m)]
<1>1. job[l] \in Jobs /\ job[m] \in Jobs
  BY DEF JobGiven, Critical, Extracting, Validating, Swapping
<1>2. Binding(l) \in Bindings /\ Binding(m) \in Bindings
  BY <1>1, SliceType
<1>3. Binding(l) # Binding(m)
  BY DEF HoldsLock
<1>4. QED
  BY <1>2, <1>3 DEF Faultless, TargetsUnique

\* Without late inserts, a load issues commands in its critical section only,
\* and against its own slice.
LEMMA TablesTouched ==
    ASSUME TypeOK, NEW l \in Loads, InsertAwaited(l), StepOf(l)
    PROVE  \/ staging' = staging /\ live' = live
           \/ /\ pc[l] \in Critical
              /\ \A s \in Slices \ {Slice(l)} :
                     staging'[s] = staging[s] /\ live'[s] = live[s]
<1>1. CASE ClearStaging(l)
  BY <1>1 DEF ClearStaging, TypeOK, Critical, Extracting
<1>2. CASE Promote(l)
  BY <1>2 DEF Promote, TypeOK, Critical, Swapping
<1>3. CASE DropStaging(l)
  BY <1>3 DEF DropStaging, TypeOK, Critical, Swapping
<1>4. CASE LandBlock(l)
  BY <1>4 DEF LandBlock, InsertAwaited, TypeOK, Critical, Extracting
<1>5. ASSUME ~ClearStaging(l), ~Promote(l), ~DropStaging(l), ~LandBlock(l)
      PROVE  staging' = staging /\ live' = live
  BY <1>5 DEF StepOf, RunBinding, Step, Crash, ReapSession, LoseLock,
     AcquireLock, LockBusy, FinaliseConflict, RaiseUnlocked, QuerySource,
     InsertReturns, ReadSourceTotals, ExtractFails, RecordExtract, ShapePasses,
     ShapeFails, RunChecks, ChecksRaise, RecordChecks, RecordSwap,
     RefreshHierarchies, SwapFails, Finalise, RaiseLocked, Release, tables
<1>6. QED
  BY <1>1, <1>2, <1>3, <1>4, <1>5

\* A load's lock is never taken from it by another load.
LEMMA LockKept ==
    ASSUME Faultless, TypeOK, NEW l \in Loads, NEW m \in Loads, l # m,
           StepOf(l), JobGiven(m), HoldsLock(m), pc[m] \in Critical
    PROVE  lock'[Binding(m)] = m
<1>1. Binding(m) \in Bindings /\ lock[Binding(m)] = m
  BY SliceType DEF JobGiven, HoldsLock, Critical, Extracting, Validating, Swapping
<1>2. CASE AcquireLock(l)
  BY <1>1, <1>2, LoadsAssumption DEF AcquireLock, TypeOK
<1>3. CASE Release(l) \/ ReapSession(l)
  BY <1>1, <1>3 DEF Release, ReapSession
<1>4. CASE LoseLock(l)
  BY <1>4 DEF LoseLock, Faultless, TypeOK
<1>5. ASSUME ~AcquireLock(l), ~Release(l), ~ReapSession(l), ~LoseLock(l)
      PROVE  lock' = lock
  BY <1>5 DEF StepOf, RunBinding, Step, LandBlock, Crash, LockBusy,
     FinaliseConflict, RaiseUnlocked, ClearStaging, QuerySource, InsertReturns,
     ReadSourceTotals, ExtractFails, RecordExtract, ShapePasses, ShapeFails,
     RunChecks, ChecksRaise, RecordChecks, Promote, DropStaging, RecordSwap,
     RefreshHierarchies, SwapFails, Finalise, RaiseLocked
<1>6. QED
  BY <1>1, <1>2, <1>3, <1>4, <1>5

-----------------------------------------------------------------------------
(* Preservation *)

\* A step of load l keeps what the invariant says of l.
LEMMA OwnStep ==
    ASSUME Faultless, TypeOK, NEW l \in Loads, LoadInv(l), StepOf(l)
    PROVE  LoadInv(l)'
<1> USE SliceType DEF LoadInv, HoldsLock, InsertAwaited, JobGiven,
       ExtractedByQuery, StagingOwned, PublishedBySwap, StillLive
<1>1. CASE RunBinding(l)
  BY <1>1 DEF RunBinding, Goto, TypeOK, Faultless,
     Slice, Binding, Whole, Ended, Critical, Extracting, Validating, Swapping,
     task, tables, faults
<1>2. CASE AcquireLock(l)
  BY <1>2 DEF AcquireLock, Goto, TypeOK, Faultless,
     Slice, Binding, Whole, Ended, Critical, Extracting, Validating, Swapping,
     task, tables, faults
<1>3. CASE LockBusy(l)
  BY <1>3 DEF LockBusy, Goto, TypeOK, Faultless,
     Slice, Binding, Whole, Ended, Critical, Extracting, Validating, Swapping,
     task, tables, faults
<1>4. CASE FinaliseConflict(l)
  BY <1>4 DEF FinaliseConflict, Goto, TypeOK, Faultless,
     Slice, Binding, Whole, Ended, Critical, Extracting, Validating, Swapping,
     task, tables, faults
<1>5. CASE RaiseUnlocked(l)
  BY <1>5 DEF RaiseUnlocked, Goto, TypeOK, Faultless,
     Slice, Binding, Whole, Ended, Critical, Extracting, Validating, Swapping,
     task, tables, faults
<1>6. CASE ClearStaging(l)
  BY <1>6 DEF ClearStaging, Goto, TypeOK, Faultless,
     Slice, Binding, Whole, Ended, Critical, Extracting, Validating, Swapping,
     task, tables, faults
<1>7. CASE QuerySource(l)
  BY <1>7 DEF QuerySource, Goto, TypeOK, Faultless,
     Slice, Binding, Whole, Ended, Critical, Extracting, Validating, Swapping,
     task, tables, faults
<1>8. CASE InsertReturns(l)
  BY <1>8 DEF InsertReturns, Goto, TypeOK, Faultless,
     Slice, Binding, Whole, Ended, Critical, Extracting, Validating, Swapping,
     task, tables, faults
<1>9. CASE ReadSourceTotals(l)
  BY <1>9 DEF ReadSourceTotals, Goto, TypeOK, Faultless,
     Slice, Binding, Whole, Ended, Critical, Extracting, Validating, Swapping,
     task, tables, faults
<1>10. CASE ExtractFails(l)
  BY <1>10 DEF ExtractFails, AbandonInsert, FinishAs, Goto, TypeOK, Faultless,
     Slice, Binding, Whole, Ended, Critical, Extracting, Validating, Swapping,
     task, tables, faults
<1>11. CASE RecordExtract(l)
  BY <1>11 DEF RecordExtract, FinishAs, Goto, TypeOK, Faultless,
     Slice, Binding, Whole, Ended, Critical, Extracting, Validating, Swapping,
     task, tables, faults
<1>12. CASE ShapePasses(l)
  BY <1>12 DEF ShapePasses, AfterValidation, FinishAs, Goto, TypeOK, Faultless,
     Slice, Binding, Whole, Ended, Critical, Extracting, Validating, Swapping,
     task, tables, faults
<1>13. CASE ShapeFails(l)
  BY <1>13 DEF ShapeFails, FinishAs, Goto, TypeOK, Faultless,
     Slice, Binding, Whole, Ended, Critical, Extracting, Validating, Swapping,
     task, tables, faults
<1>14. CASE RunChecks(l)
  BY <1>14 DEF RunChecks, Goto, TypeOK, Faultless,
     Slice, Binding, Whole, Ended, Critical, Extracting, Validating, Swapping,
     task, tables, faults
<1>15. CASE ChecksRaise(l)
  BY <1>15 DEF ChecksRaise, FinishAs, Goto, TypeOK, Faultless,
     Slice, Binding, Whole, Ended, Critical, Extracting, Validating, Swapping,
     task, tables, faults
<1>16. CASE RecordChecks(l)
  BY <1>16 DEF RecordChecks, AfterValidation, FinishAs, Goto, TypeOK, Faultless,
     Slice, Binding, Whole, Ended, Critical, Extracting, Validating, Swapping,
     task, tables, faults
<1>17. CASE Promote(l)
  BY <1>17 DEF Promote, Goto, TypeOK, Faultless,
     Slice, Binding, Whole, Ended, Critical, Extracting, Validating, Swapping,
     task, tables, faults
<1>18. CASE DropStaging(l)
  BY <1>18 DEF DropStaging, Goto, TypeOK, Faultless,
     Slice, Binding, Whole, Ended, Critical, Extracting, Validating, Swapping,
     task, tables, faults
<1>19. CASE RecordSwap(l)
  BY <1>19 DEF RecordSwap, FinishAs, Goto, TypeOK, Faultless,
     Slice, Binding, Whole, Ended, Critical, Extracting, Validating, Swapping,
     task, tables, faults
<1>20. CASE RefreshHierarchies(l)
  BY <1>20 DEF RefreshHierarchies, FinishAs, Goto, TypeOK, Faultless,
     Slice, Binding, Whole, Ended, Critical, Extracting, Validating, Swapping,
     task, tables, faults
<1>21. CASE SwapFails(l)
  BY <1>21 DEF SwapFails, FinishAs, Goto, TypeOK, Faultless,
     Slice, Binding, Whole, Ended, Critical, Extracting, Validating, Swapping,
     task, tables, faults
<1>22. CASE Finalise(l)
  BY <1>22 DEF Finalise, Goto, TypeOK, Faultless,
     Slice, Binding, Whole, Ended, Critical, Extracting, Validating, Swapping,
     task, tables, faults
<1>23. CASE RaiseLocked(l)
  BY <1>23 DEF RaiseLocked, Goto, TypeOK, Faultless,
     Slice, Binding, Whole, Ended, Critical, Extracting, Validating, Swapping,
     task, tables, faults
<1>24. CASE Release(l)
  BY <1>24 DEF Release, Goto, TypeOK, Faultless,
     Slice, Binding, Whole, Ended, Critical, Extracting, Validating, Swapping,
     task, tables, faults
<1>25. CASE LandBlock(l)
  BY <1>25 DEF LandBlock, Goto, TypeOK, Faultless,
     Slice, Binding, Whole, Ended, Critical, Extracting, Validating, Swapping,
     task, tables, faults
<1>26. CASE Crash(l)
  BY <1>26 DEF Crash, AbandonInsert, Goto, TypeOK, Faultless,
     Slice, Binding, Whole, Ended, Critical, Extracting, Validating, Swapping,
     task, tables, faults
<1>27. CASE ReapSession(l)
  BY <1>27 DEF ReapSession, Goto, TypeOK, Faultless,
     Slice, Binding, Whole, Ended, Critical, Extracting, Validating, Swapping,
     task, tables, faults
<1>28. CASE LoseLock(l)
  BY <1>28 DEF LoseLock, Goto, TypeOK, Faultless,
     Slice, Binding, Whole, Ended, Critical, Extracting, Validating, Swapping,
     task, tables, faults
<1>29. QED
  BY <1>1, <1>2, <1>3, <1>4, <1>5, <1>6, <1>7, <1>8, <1>9, <1>10, <1>11, <1>12, <1>13, <1>14, <1>15, <1>16, <1>17, <1>18, <1>19, <1>20, <1>21, <1>22, <1>23, <1>24, <1>25, <1>26, <1>27, <1>28 DEF Step, StepOf

\* A step of load l keeps what the invariant says of another load.
LEMMA OtherStep ==
    ASSUME Faultless, TypeOK, NEW l \in Loads, NEW m \in Loads, l # m,
           LoadInv(l), LoadInv(m), StepOf(l)
    PROVE  LoadInv(m)'
<1>1. /\ pc'[m] = pc[m] /\ job'[m] = job[m] /\ outcome'[m] = outcome[m]
      /\ extracted'[m] = extracted[m] /\ unsent'[m] = unsent[m]
      /\ m \in published' <=> m \in published
  BY OthersUntouched DEF StepOf
<1>2. ASSUME pc[m] \in Critical
      PROVE  /\ lock'[Binding(m)] = m
             /\ staging'[Slice(m)] = staging[Slice(m)]
             /\ live'[Slice(m)] = live[Slice(m)]
  <2>1. lock'[Binding(m)] = m
    BY <1>2, LockKept DEF LoadInv
  <2>2. Slice(m) \in Slices
    BY <1>2, SliceType DEF LoadInv, JobGiven, Critical, Extracting, Validating, Swapping
  <2>3. pc[l] \in Critical => Slice(m) # Slice(l)
    BY <1>2, DistinctTargets DEF LoadInv, Slice, Binding
  <2>4. QED
    BY <2>1, <2>2, <2>3, TablesTouched DEF LoadInv
<1>3. Slice(m)' = Slice(m) /\ Binding(m)' = Binding(m)
  BY <1>1 DEF Slice, Binding
<1>4. HoldsLock(m)' /\ InsertAwaited(m)' /\ JobGiven(m)' /\ ExtractedByQuery(m)'
        /\ PublishedBySwap(m)'
  BY <1>1, <1>2, <1>3 DEF LoadInv, HoldsLock, InsertAwaited, JobGiven,
     ExtractedByQuery, PublishedBySwap
<1>5. StagingOwned(m)'
  BY <1>1, <1>2, <1>3 DEF LoadInv, StagingOwned, Whole, Critical, Extracting,
     Validating, Swapping
<1>6. StillLive(m)'
  BY <1>1, <1>2, <1>3 DEF LoadInv, StillLive, Whole, Critical, Swapping
<1>7. QED
  BY <1>4, <1>5, <1>6 DEF LoadInv

\* What a step makes of the live tables: nothing, or one load published whole.
LEMMA LiveStep ==
    ASSUME TypeOK, NEW l \in Loads, LoadInv(l), StepOf(l)
    PROVE  \/ UNCHANGED <<live, published>>
           \/ /\ l \notin published
              /\ Slice(l) \in Slices
              /\ live' = [live EXCEPT ![Slice(l)] = Whole(l)]
              /\ published' = published \union {l}
              /\ job' = job
<1>1. CASE Promote(l)
  <2>1. pc[l] = "swap" /\ staging[Slice(l)] = Whole(l) /\ l \notin published
    BY <1>1 DEF Promote, LoadInv, StagingOwned, PublishedBySwap, Ended
  <2>2. Slice(l) \in Slices
    BY <2>1, SliceType DEF LoadInv, JobGiven
  <2>3. QED
    BY <1>1, <2>1, <2>2 DEF Promote, task
<1>2. CASE ~Promote(l)
  BY <1>2 DEF StepOf, RunBinding, Step, LandBlock, Crash, ReapSession, LoseLock,
     AcquireLock, LockBusy, FinaliseConflict, RaiseUnlocked, ClearStaging,
     QuerySource, InsertReturns, ReadSourceTotals, ExtractFails, RecordExtract,
     ShapePasses, ShapeFails, RunChecks, ChecksRaise, RecordChecks, DropStaging,
     RecordSwap, RefreshHierarchies, SwapFails, Finalise, RaiseLocked, Release,
     tables
<1>3. QED
  BY <1>1, <1>2

\* A published load keeps its arguments.
LEMMA PublishedKeepsJob ==
    ASSUME TypeOK, NEW l \in Loads, NEW m \in published,
           \A k \in Loads : LoadInv(k), StepOf(l)
    PROVE  Slice(m)' = Slice(m)
<1>1. m \in Loads /\ pc[m] # "new"
  BY DEF TypeOK, LoadInv, PublishedBySwap, Ended
<1>2. CASE RunBinding(l)
  BY <1>1, <1>2 DEF RunBinding, TypeOK, Slice
<1>3. CASE ~RunBinding(l)
  BY <1>3 DEF StepOf, Step, LandBlock, Crash, ReapSession, LoseLock,
     AcquireLock, LockBusy, FinaliseConflict, RaiseUnlocked, ClearStaging,
     QuerySource, InsertReturns, ReadSourceTotals, ExtractFails, RecordExtract,
     ShapePasses, ShapeFails, RunChecks, ChecksRaise, RecordChecks, Promote,
     DropStaging, RecordSwap, RefreshHierarchies, SwapFails, Finalise,
     RaiseLocked, Release, FinishAs, task, Slice
<1>4. QED
  BY <1>2, <1>3

LEMMA WholenessKept ==
    ASSUME IInv, NEW l \in Loads, StepOf(l)
    PROVE  LiveIsWhole'
<1>1. TypeOK /\ LiveIsWhole /\ LoadInv(l)
  BY DEF IInv
<1>2. CASE UNCHANGED <<live, published>>
  <2> SUFFICES ASSUME NEW s \in Slices, live[s] # {}
               PROVE  \E k \in published' : live'[s] = Whole(k) /\ Slice(k)' = s
    BY <1>2 DEF LiveIsWhole, Whole
  <2>1. PICK k \in published : live[s] = Whole(k) /\ Slice(k) = s
    BY <1>1 DEF LiveIsWhole
  <2>2. Slice(k)' = Slice(k)
    BY PublishedKeepsJob DEF IInv
  <2>3. QED
    BY <1>2, <2>1, <2>2
<1>3. ASSUME /\ Slice(l) \in Slices
             /\ live' = [live EXCEPT ![Slice(l)] = Whole(l)]
             /\ published' = published \union {l}
             /\ job' = job
      PROVE  LiveIsWhole'
  <2> SUFFICES ASSUME NEW s \in Slices
               PROVE  \/ live'[s] = {}
                      \/ \E k \in published' : live'[s] = Whole(k) /\ Slice(k)' = s
    BY DEF LiveIsWhole, Whole
  <2>1. CASE s = Slice(l)
    BY <1>1, <1>3, <2>1 DEF TypeOK, Slice
  <2>2. CASE s # Slice(l)
    BY <1>1, <1>3, <2>2 DEF TypeOK, LiveIsWhole, Slice
  <2>3. QED
    BY <2>1, <2>2
<1>4. QED
  BY <1>1, <1>2, <1>3, LiveStep

-----------------------------------------------------------------------------
(* Theorems *)

\* The inductive invariant holds of every run without faults.
THEOREM Invariance ==
    ASSUME Faultless
    PROVE  Spec => []IInv
<1>1. Init => IInv
  <2> SUFFICES ASSUME Init
               PROVE  IInv
    OBVIOUS
  <2>1. TypeOK
    BY BoundsAssumption
    DEF Init, TypeOK, Stages, Terminal, HistoryRow, NoRow, Slices, Rows
  <2>2. ASSUME NEW l \in Loads
        PROVE  LoadInv(l)
    BY DEF Init, LoadInv, HoldsLock, InsertAwaited, JobGiven, ExtractedByQuery,
       StagingOwned, PublishedBySwap, StillLive, Critical, Extracting,
       Validating, Swapping
  <2>3. LiveIsWhole
    BY DEF Init, LiveIsWhole
  <2>4. QED
    BY <2>1, <2>2, <2>3 DEF IInv
<1>2. TypeOK' /\ IInv /\ [Next]_vars => IInv'
  <2> SUFFICES ASSUME TypeOK', IInv, [Next]_vars
               PROVE  IInv'
    OBVIOUS
  <2>1. CASE UNCHANGED vars
    BY <2>1 DEF IInv, LoadInv, HoldsLock, InsertAwaited, JobGiven,
       ExtractedByQuery, StagingOwned, PublishedBySwap, StillLive, LiveIsWhole,
       Slice, Binding, Whole, vars, task, tables, faults
  <2>2. CASE Next
    <3>1. PICK l \in Loads : StepOf(l)
      BY <2>2 DEF Next, StepOf
    <3>2. ASSUME NEW m \in Loads
          PROVE  LoadInv(m)'
      BY <3>1, OwnStep, OtherStep DEF IInv
    <3>3. LiveIsWhole'
      BY <3>1, WholenessKept
    <3>4. QED
      BY <3>2, <3>3 DEF IInv
  <2>3. QED
    BY <2>1, <2>2
<1>3. QED
  BY <1>1, <1>2, TypeCorrect, PTL DEF Spec

\* Two loads never issue commands against one table at the same time: the
\* per-binding lock is enough while the registry keeps targets unique.
THEOREM OneLoadPerTargetHolds ==
    ASSUME Faultless
    PROVE  Spec => []OneLoadPerTarget
<1>1. IInv => OneLoadPerTarget
  <2> SUFFICES ASSUME IInv, NEW l \in Loads, NEW m \in Loads, l # m,
                      pc[l] \in AtTables, pc[m] \in AtTables
               PROVE  Target[Binding(l)] # Target[Binding(m)]
    BY DEF OneLoadPerTarget
  <2>1. pc[l] \in Critical /\ pc[m] \in Critical
    BY DEF AtTables, Critical, Swapping
  <2>2. QED
    BY <2>1, DistinctTargets DEF IInv, LoadInv
<1>2. QED
  BY <1>1, Invariance, PTL

\* A reader of a slice sees nothing or one load's complete extract.
THEOREM LiveIsWholeHolds ==
    ASSUME Faultless
    PROVE  Spec => []LiveIsWhole
<1>1. IInv => LiveIsWhole
  BY DEF IInv
<1>2. QED
  BY <1>1, Invariance, PTL

\* No row is visible before its binding's checks have passed on record.
THEOREM OnlyVettedRowsLiveHolds ==
    ASSUME Faultless
    PROVE  Spec => []OnlyVettedRowsLive
<1>1. IInv /\ Audit => OnlyVettedRowsLive
  <2> SUFFICES ASSUME IInv, Audit, NEW s \in Slices, NEW r \in live[s],
                      Binding(r[1]) \in Checked
               PROVE  history[r[1]].verdict = "passed"
    BY DEF OnlyVettedRowsLive
  <2>1. PICK l \in published : live[s] = Whole(l)
    BY DEF IInv, LiveIsWhole
  <2>2. r[1] = l /\ l \in Loads
    BY <2>1 DEF Whole, IInv, TypeOK
  <2>3. QED
    BY <2>1, <2>2 DEF Audit, AuditOf
<1>2. QED
  BY <1>1, Invariance, AuditInvariant, PTL

\* At the moment a load is written down as a success, its slice shows it.
THEOREM SuccessIsLiveHolds ==
    ASSUME Faultless
    PROVE  Spec => SuccessIsLive
<1> DEFINE Shown(l) ==
        (history[l].status = "running" /\ history'[l].status = "success"
            /\ job[l].stop = "none")
        => live'[Slice(l)] = Whole(l)
<1>1. IInv /\ [Next]_vars => [\A l \in Loads : Shown(l)]_vars
  <2> SUFFICES ASSUME IInv, Next, NEW m \in Loads
               PROVE  Shown(m)
    OBVIOUS
  <2>1. PICK l \in Loads : StepOf(l)
    BY DEF Next, StepOf
  <2>2. TypeOK /\ LoadInv(m)
    BY DEF IInv
  <2>3. CASE m # l
    BY <2>1, <2>2, <2>3, OthersUntouched DEF StepOf
  <2>4. CASE m = l /\ Finalise(l)
    BY <2>2, <2>4 DEF Finalise, LoadInv, StillLive, TypeOK, tables
  <2>5. CASE m = l /\ ~Finalise(l)
    <3>1. history'[l].status \in {history[l].status, "running", "failed_other"}
      BY <2>1, <2>2, <2>5 DEF StepOf, RunBinding, Step, LandBlock, Crash,
         ReapSession, LoseLock, AcquireLock, LockBusy, FinaliseConflict,
         RaiseUnlocked, ClearStaging, QuerySource, InsertReturns,
         ReadSourceTotals, ExtractFails, RecordExtract, ShapePasses, ShapeFails,
         RunChecks, ChecksRaise, RecordChecks, Promote, DropStaging, RecordSwap,
         RefreshHierarchies, SwapFails, RaiseLocked, Release, TypeOK, HistoryRow
    <3>2. QED
      BY <2>5, <3>1
  <2>6. QED
    BY <2>3, <2>4, <2>5
<1>2. QED
  BY <1>1, Invariance, PTL DEF Spec, SuccessIsLive

\* Pipelines implement LiveTables: the live tables change by one load being
\* published whole, once, and by nothing else.
THEOREM Refinement ==
    ASSUME Faultless
    PROVE  Spec => RefinesLiveTables
<1>1. Init => Promise!Init
  BY DEF Init, Promise!Init
<1>2. IInv /\ [Next]_vars => [Promise!Next]_(Promise!vars)
  <2> SUFFICES ASSUME IInv, [Next]_vars
               PROVE  [Promise!Next]_(Promise!vars)
    OBVIOUS
  <2>1. CASE UNCHANGED vars
    BY <2>1 DEF vars, tables, Promise!vars
  <2>2. CASE Next
    <3>1. PICK l \in Loads : StepOf(l)
      BY <2>2 DEF Next, StepOf
    <3>2. TypeOK /\ LoadInv(l)
      BY DEF IInv
    <3>3. QED
      BY <3>1, <3>2, LiveStep
         DEF Promise!Next, Promise!Publish, Promise!Whole, Promise!vars, Whole
  <2>3. QED
    BY <2>1, <2>2
<1>3. QED
  BY <1>1, <1>2, Invariance, PTL DEF Spec, RefinesLiveTables, Promise!Spec

-----------------------------------------------------------------------------
(* Induction, as the smallest counterexample.                              *)

\* Induction, as the smallest counterexample: a set of numbers that is not empty
\* has a least one.
LEMMA SmallestOf ==
    ASSUME NEW S \in SUBSET Nat, S # {}
    PROVE  \E n \in S : \A m \in S : n <= m
<1> DEFINE T == {0 .. m : m \in S}
<1>1. T \subseteq FiniteSubsetsOf(Nat) /\ T # {}
  <2>1. \A m \in S : IsFiniteSet(0 .. m) /\ (0 .. m) \subseteq Nat
    BY FS_Interval
  <2>2. QED
    BY <2>1 DEF FiniteSubsetsOf
<1>2. \E x \in T : \A y \in T : ~(<<y, x>> \in StrictSubsetOrdering(Nat))
  BY <1>1, FS_StrictSubsetOrderingWellFounded, WFMin
<1>3. PICK n \in S : \A m \in S : ~(<<0 .. m, 0 .. n>> \in StrictSubsetOrdering(Nat))
  BY <1>2
<1>4. ASSUME NEW m \in S PROVE n <= m
  <2>1. SUFFICES ASSUME m < n PROVE FALSE
    OBVIOUS
  <2>2. (0 .. m) \subseteq (0 .. n) /\ n \in 0 .. n /\ n \notin 0 .. m
    BY <2>1
  <2>3. <<0 .. m, 0 .. n>> \in StrictSubsetOrdering(Nat)
    BY <2>2 DEF StrictSubsetOrdering
  <2>4. QED
    BY <2>3, <1>3
<1>5. QED
  BY <1>4

\* A set of numbers that has n + 1 with n has all from its first.
LEMMA Inductive ==
    ASSUME NEW a \in Nat, NEW b \in Nat, NEW S,
           a \in S, \A n \in a .. b : n < b /\ n \in S => n + 1 \in S
    PROVE  a .. b \subseteq S
<1>1. SUFFICES ASSUME (a .. b) \ S # {} PROVE FALSE
  OBVIOUS
<1>2. PICK n \in (a .. b) \ S : \A m \in (a .. b) \ S : n <= m
  <2>1. (a .. b) \ S \in SUBSET Nat
    OBVIOUS
  <2>2. QED
    BY <1>1, <2>1, SmallestOf
<1>3. n # a /\ n - 1 \in a .. b /\ n - 1 \in S /\ n - 1 < b
  BY <1>2
<1>4. (n - 1) + 1 \in S
  BY <1>3
<1>5. QED
  BY <1>4, <1>2

-----------------------------------------------------------------------------
(* Sequences.                                                              *)

\* A finite set as a sequence has each of its elements, and nothing else.
LEMMA EnumeratesSet ==
    ASSUME NEW S, IsFiniteSet(S)
    PROVE  /\ Cardinality(S) \in Nat
           /\ SetToSeq(S) \in [1 .. Cardinality(S) -> S]
           /\ \A x \in S : \E n \in 1 .. Cardinality(S) : SetToSeq(S)[n] = x
<1> DEFINE N == Cardinality(S)
           f == SetToSeq(S)
<1>1. N \in Nat /\ \E g : g \in Bijection(1 .. N, S)
  BY FS_CardinalityType DEF ExistsBijection
<1>2. f \in [1 .. N -> S] /\ IsInjective(f)
  <2>1. PICK g : g \in Bijection(1 .. N, S)
    BY <1>1
  <2>2. g \in [1 .. N -> S] /\ IsInjective(g)
    BY <2>1 DEF Bijection, Injection, IsInjective
  <2>3. QED
    BY <2>2 DEF SetToSeq
<1>3. IsFiniteSet(1 .. N) /\ Cardinality(1 .. N) = N
  BY <1>1, FS_Interval
<1>4. f \in Injection(1 .. N, S)
  BY <1>2 DEF Injection
<1>5. f \in Surjection(1 .. N, S)
  BY <1>3, <1>4, FS_Injection
<1>6. QED
  BY <1>1, <1>2, <1>5 DEF Surjection

\* A function defined from its previous value is one.
Steps(G, U) == G \in [U \X Nat -> U]

\* The values of a function that goes on from a to b by G.
Iterates(f, a, b, U, c, G) ==
    f \in [a .. b -> U] /\ f[a] = c /\ \A i \in (a + 1) .. b : f[i] = G[<<f[i - 1], i>>]

\* A function that is defined from its previous value exists.
LEMMA Recursion ==
    ASSUME NEW a \in Nat, NEW b \in Nat, a <= b, NEW U, NEW c \in U, NEW G, Steps(G, U)
    PROVE  \E f : Iterates(f, a, b, U, c, G)
<1> USE DEF Steps
<1> DEFINE Turn(f, i) == IF i = a THEN c ELSE G[<<f[i - 1], i>>]
           Defined == {n \in a .. b : \E f \in [a .. n -> U] : \A i \in a .. n : f[i] = Turn(f, i)}
<1>1. a \in Defined
  <2> DEFINE f == [i \in a .. a |-> c]
  <2>1. f \in [a .. a -> U] /\ \A i \in a .. a : f[i] = Turn(f, i)
    OBVIOUS
  <2> HIDE DEF f, Turn
  <2>2. a \in a .. b
    OBVIOUS
  <2>3. QED
    BY <2>1, <2>2
<1>2. ASSUME NEW n \in a .. b, n < b, n \in Defined PROVE n + 1 \in Defined
  <2>1. PICK g \in [a .. n -> U] : \A i \in a .. n : g[i] = Turn(g, i)
    BY <1>2
  <2> DEFINE v == G[<<g[n], n + 1>>]
             f == [i \in a .. (n + 1) |-> IF i = n + 1 THEN v ELSE g[i]]
  <2>2. v \in U
    <3>1. g[n] \in U /\ n + 1 \in Nat
      BY <1>2
    <3>2. <<g[n], n + 1>> \in U \X Nat
      BY <3>1
    <3>3. QED
      BY <3>2
  <2>3. f \in [a .. (n + 1) -> U]
    BY <2>2
  <2>4. ASSUME NEW i \in a .. (n + 1) PROVE f[i] = Turn(f, i)
    <3>1. CASE i = n + 1
      <4>1. f[i - 1] = g[n] /\ f[i] = v /\ i # a
        BY <3>1
      <4>2. QED
        BY <4>1, <3>1
    <3>2. CASE i # n + 1 /\ i # a
      <4>1. i \in a .. n /\ i - 1 \in a .. n
        BY <3>2
      <4>2. f[i - 1] = g[i - 1] /\ f[i] = g[i]
        BY <4>1
      <4>3. QED
        BY <4>1, <4>2, <2>1, <3>2
    <3>3. CASE i = a
      <4>1. a \in a .. n /\ a \in a .. (n + 1) /\ a # n + 1
        BY <1>2
      <4>2. g[a] = c
        BY <4>1, <2>1
      <4>3. f[a] = g[a]
        BY <4>1
      <4>4. QED
        BY <4>2, <4>3, <3>3
    <3>4. QED
      BY <3>1, <3>2, <3>3
  <2> HIDE DEF f, Turn
  <2>5. QED
    BY <1>2, <2>3, <2>4
<1>3. b \in Defined
  <2> HIDE DEF Defined
  <2>1. a .. b \subseteq Defined
    BY <1>1, <1>2, Inductive
  <2>2. QED
    BY <2>1
<1>4. PICK f \in [a .. b -> U] : \A i \in a .. b : f[i] = Turn(f, i)
  BY <1>3
<1>5. f[a] = c /\ \A i \in (a + 1) .. b : f[i] = G[<<f[i - 1], i>>]
  <2>1. a \in a .. b /\ \A i \in (a + 1) .. b : i \in a .. b /\ i # a
    OBVIOUS
  <2>2. QED
    BY <1>4, <2>1
<1>6. QED
  BY <1>5 DEF Iterates

\* Where the elements of a joined sequence come from and where they go.
BlockAt(s, j, o, F) == \A q \in DOMAIN s[j] : o + q \in DOMAIN F /\ F[o + q] = s[j][q]

\* F is made of the first m of the sequences of s, each whole.
Joins(s, m, F) ==
    /\ \A j \in 1 .. m : \E o \in Nat : BlockAt(s, j, o, F)
    /\ \A n \in DOMAIN F : \E j \in 1 .. m : \E o \in Nat : n - o \in DOMAIN s[j] /\ BlockAt(s, j, o, F)

\* The first sequence is made of itself.
LEMMA JoinOne ==
    ASSUME NEW S, NEW s \in Seq(Seq(S)), Len(s) # 0
    PROVE  s[1] \in Seq(S) /\ Joins(s, 1, s[1])
<1>1. s[1] \in Seq(S)
  BY ElementOfSeq
<1>2. BlockAt(s, 1, 0, s[1])
  BY <1>1 DEF BlockAt
<1>3. \A n \in DOMAIN s[1] : n - 0 \in DOMAIN s[1]
  BY <1>1
<1>4. QED
  BY <1>1, <1>2, <1>3 DEF Joins

\* Another sequence after the ones before.
LEMMA JoinMore ==
    ASSUME NEW S, NEW s \in Seq(Seq(S)), NEW m \in 1 .. Len(s), m < Len(s),
           NEW F \in Seq(S), Joins(s, m, F)
    PROVE  F \o s[m + 1] \in Seq(S) /\ Joins(s, m + 1, F \o s[m + 1])
<1> DEFINE t == s[m + 1]
           N == F \o t
<1>0. Len(s) \in Nat /\ m + 1 \in 1 .. Len(s)
  OBVIOUS
<1>1. t \in Seq(S)
  BY <1>0, ElementOfSeq
<1>2. /\ N \in Seq(S) /\ Len(F) \in Nat /\ Len(t) \in Nat
      /\ DOMAIN F = 1 .. Len(F) /\ DOMAIN t = 1 .. Len(t) /\ DOMAIN N = 1 .. (Len(F) + Len(t))
      /\ \A n \in 1 .. Len(F) : N[n] = F[n]
      /\ \A q \in 1 .. Len(t) : N[Len(F) + q] = t[q]
  BY <1>1
<1> HIDE DEF N
<1>3. ASSUME NEW j \in 1 .. m, NEW o \in Nat, BlockAt(s, j, o, F) PROVE BlockAt(s, j, o, N)
  <2>1. ASSUME NEW q \in DOMAIN s[j] PROVE o + q \in DOMAIN N /\ N[o + q] = s[j][q]
    <3>1. o + q \in DOMAIN F /\ F[o + q] = s[j][q]
      BY <1>3 DEF BlockAt
    <3>2. \A x \in DOMAIN F : x \in DOMAIN N /\ N[x] = F[x]
      BY <1>2
    <3>3. QED
      BY <3>1, <3>2
  <2>2. QED
    BY <2>1 DEF BlockAt
<1>4. BlockAt(s, m + 1, Len(F), N)
  BY <1>2 DEF BlockAt
<1>5. \A j \in 1 .. (m + 1) : \E o \in Nat : BlockAt(s, j, o, N)
  <2>1. \A j \in 1 .. (m + 1) : j \in 1 .. m \/ j = m + 1
    OBVIOUS
  <2>2. QED
    BY <2>1, <1>2, <1>3, <1>4 DEF Joins
<1>6. ASSUME NEW n \in DOMAIN N
      PROVE  \E j \in 1 .. (m + 1) : \E o \in Nat : n - o \in DOMAIN s[j] /\ BlockAt(s, j, o, N)
  <2>1. CASE n \in DOMAIN F
    <3>1. PICK j \in 1 .. m, o \in Nat : n - o \in DOMAIN s[j] /\ BlockAt(s, j, o, F)
      BY <2>1 DEF Joins
    <3>2. j \in 1 .. (m + 1)
      OBVIOUS
    <3>3. QED
      BY <3>1, <3>2, <1>3
  <2>2. CASE n \notin DOMAIN F
    <3>1. n - Len(F) \in DOMAIN t /\ m + 1 \in 1 .. (m + 1)
      BY <2>2, <1>2
    <3>2. QED
      BY <3>1, <1>2, <1>4
  <2>3. QED
    BY <2>1, <2>2
<1>7. QED
  BY <1>2, <1>5, <1>6 DEF Joins, N

\* FlattenSeq puts one sequence after the other.
LEMMA FlattenSteps ==
    ASSUME NEW S, NEW s \in Seq(Seq(S)), Len(s) # 0
    PROVE  \E T \in [1 .. Len(s) -> Seq(S)] :
              /\ T[1] = s[1] /\ T[Len(s)] = FlattenSeq(s)
              /\ \A i \in 1 .. Len(s) : i # 1 => T[i] = T[i - 1] \o s[i]
<1> DEFINE n == Len(s)
           U == Seq(S)
           Turn(f, i) == IF i = 1 THEN s[i] ELSE f[i - 1] \o s[i]
           flat == CHOOSE f : f = [i \in 1 .. n |-> Turn(f, i)]
           G == [x \in U \X Nat |-> IF x[2] \in 1 .. n THEN x[1] \o s[x[2]] ELSE x[1]]
<1>1. n \in Nat /\ 1 <= n /\ \A i \in 1 .. n : s[i] \in U
  BY ElementOfSeq
<1>2. G \in [U \X Nat -> U]
  <2>1. \A x \in U \X Nat : x[1] \in U /\ (x[2] \in 1 .. n => s[x[2]] \in U)
    BY <1>1
  <2>2. \A x \in U \X Nat : (IF x[2] \in 1 .. n THEN x[1] \o s[x[2]] ELSE x[1]) \in U
    BY <2>1
  <2>3. QED
    BY <2>2
<1>3. PICK f : Iterates(f, 1, n, U, s[1], G)
  <2>1. 1 \in Nat /\ s[1] \in U /\ Steps(G, U)
    BY <1>1, <1>2 DEF Steps
  <2> HIDE DEF G, U, n
  <2>2. QED
    BY <1>1, <2>1, Recursion
<1>4. f \in [1 .. n -> U] /\ f[1] = s[1] /\ \A i \in (1 + 1) .. n : f[i] = G[<<f[i - 1], i>>]
  <2> HIDE DEF G, U, n
  <2>1. QED
    BY <1>3 DEF Iterates
<1>5. ASSUME NEW i \in 1 .. n, i # 1 PROVE G[<<f[i - 1], i>>] = f[i - 1] \o s[i]
  <2>1. i - 1 \in 1 .. n /\ i \in (1 + 1) .. n
    BY <1>5, <1>1
  <2>2. f[i - 1] \in U
    <3> HIDE DEF G, U, n
    <3>1. QED
      BY <2>1, <1>4
  <2>3. <<f[i - 1], i>> \in U \X Nat
    BY <2>1, <2>2
  <2>4. QED
    BY <2>3
<1>6. f = [i \in 1 .. n |-> Turn(f, i)]
  <2>1. ASSUME NEW i \in 1 .. n PROVE f[i] = Turn(f, i)
    <3>1. i = 1 \/ i \in (1 + 1) .. n
      BY <1>1
    <3>2. QED
      BY <3>1, <1>4, <1>5
  <2> HIDE DEF Turn, U, G
  <2>2. QED
    BY <2>1, <1>4
<1>7. flat = [i \in 1 .. n |-> Turn(flat, i)]
  BY <1>6
<1>8. FlattenSeq(s) = flat[n]
  BY DEF FlattenSeq
<1> HIDE DEF flat, G
<1>9. flat[1] = s[1] /\ \A i \in 1 .. n : i # 1 => flat[i] = flat[i - 1] \o s[i]
  <2>1. ASSUME NEW i \in 1 .. n PROVE flat[i] = Turn(flat, i)
    <3> HIDE DEF Turn
    <3>1. QED
      BY <1>7
  <2>2. 1 \in 1 .. n
    BY <1>1
  <2>3. QED
    BY <2>1, <2>2
<1> DEFINE Good == {m \in 1 .. n : flat[m] \in U}
<1>10. ASSUME NEW m \in 1 .. n, m < n, m \in Good PROVE m + 1 \in Good
  <2>1. m + 1 \in 1 .. n /\ m + 1 # 1 /\ (m + 1) - 1 = m
    BY <1>1, <1>10
  <2>2. flat[m + 1] = flat[m] \o s[m + 1] /\ s[m + 1] \in U /\ flat[m] \in U
    BY <1>1, <1>9, <1>10, <2>1
  <2>3. flat[m + 1] \in U
    BY <2>2
  <2>4. QED
    BY <2>1, <2>3
<1>11. 1 .. n \subseteq Good
  <2>1. 1 \in Good
    BY <1>1, <1>9
  <2> HIDE DEF Good
  <2>2. QED
    BY <1>1, <1>10, <2>1, Inductive
<1>12. flat \in [1 .. n -> U]
  <2>1. DOMAIN flat = 1 .. n /\ \A i \in 1 .. n : flat[i] \in U
    <3>1. DOMAIN flat = 1 .. n
      <4> HIDE DEF Turn
      <4>1. QED
        BY <1>7
    <3>2. QED
      BY <3>1, <1>11
  <2>2. flat = [i \in 1 .. n |-> flat[i]]
    <3> HIDE DEF Turn
    <3>1. QED
      BY <1>7
  <2> HIDE DEF U, n
  <2>3. QED
    BY <2>1, <2>2
<1>13. QED
  BY <1>1, <1>8, <1>9, <1>12

\* What FlattenSeq gives is made of all the sequences, and ends in the last one.
LEMMA Flattened ==
    ASSUME NEW S, NEW s \in Seq(Seq(S))
    PROVE  /\ FlattenSeq(s) \in Seq(S) /\ Joins(s, Len(s), FlattenSeq(s))
           /\ Len(s) # 0 => \E F \in Seq(S) : FlattenSeq(s) = F \o s[Len(s)]
<1>1. CASE Len(s) = 0
  <2>1. s = <<>> /\ FlattenSeq(s) = <<>>
    BY <1>1 DEF FlattenSeq
  <2>2. QED
    <3>1. 1 .. Len(s) = {} /\ DOMAIN <<>> = {} /\ <<>> \in Seq(S)
      BY <1>1
    <3>2. QED
      BY <1>1, <2>1, <3>1 DEF Joins
<1>2. CASE Len(s) # 0
  <2> DEFINE n == Len(s)
  <2>1. PICK T \in [1 .. n -> Seq(S)] :
          /\ T[1] = s[1] /\ T[n] = FlattenSeq(s)
          /\ \A i \in 1 .. n : i # 1 => T[i] = T[i - 1] \o s[i]
    BY <1>2, FlattenSteps
  <2>2. n \in Nat /\ 1 <= n
    BY <1>2
  <2> DEFINE Good == {m \in 1 .. n : T[m] \in Seq(S) /\ Joins(s, m, T[m])}
  <2>3. 1 \in Good
    <3>1. 1 \in 1 .. n
      BY <2>2
    <3>2. QED
      BY <1>2, <2>1, <3>1, JoinOne
  <2>4. ASSUME NEW m \in 1 .. n, m < n, m \in Good PROVE m + 1 \in Good
    <3>1. m + 1 \in 1 .. n /\ m + 1 # 1 /\ (m + 1) - 1 = m
      BY <2>2, <2>4
    <3>2. T[m + 1] = T[m] \o s[m + 1]
      BY <2>1, <3>1
    <3>3. QED
      BY <3>1, <3>2, <2>4, JoinMore
  <2>5. n \in Good
    <3> HIDE DEF Good
    <3>1. 1 .. n \subseteq Good
      BY <2>2, <2>3, <2>4, Inductive
    <3>2. QED
      BY <2>2, <3>1
  <2>6. \E F \in Seq(S) : FlattenSeq(s) = F \o s[n]
    <3>1. CASE n = 1
      <4>1. FlattenSeq(s) = s[1] /\ s[1] \in Seq(S)
        BY <2>1, <2>2, <3>1
      <4>2. <<>> \in Seq(S) /\ s[1] = <<>> \o s[1]
        BY <4>1
      <4>3. QED
        BY <3>1, <4>1, <4>2
    <3>2. CASE n # 1
      <4>1. n \in 1 .. n /\ n - 1 \in 1 .. n
        <5> HIDE DEF n
        <5>1. QED
          BY <2>2, <3>2
      <4>2. FlattenSeq(s) = T[n - 1] \o s[n] /\ T[n - 1] \in Seq(S)
        BY <2>1, <3>2, <4>1
      <4>3. QED
        BY <4>2
    <3>3. QED
      BY <3>1, <3>2
  <2>7. QED
    BY <2>1, <2>5, <2>6
<1>3. QED
  BY <1>1, <1>2

-----------------------------------------------------------------------------
(* The statements of the jobs.                                             *)

\* The statements that make a hierarchy's edges, and its mapping.
EdgesOf(c, k) == Hierarchy(c, k).edges
ClosureOf(c, k) == Hierarchy(c, k).closure

\* A hierarchy's statements make views and one mapping, which needs the edges.
LEMMA HierarchyParts ==
    ASSUME NEW c, NEW k
    PROVE  /\ EdgesOf(c, k).act = "view" /\ Hierarchy(c, k).nodes.act = "view"
           /\ Hierarchy(c, k).rollup.act = "view"
           /\ ClosureOf(c, k).act = "closure" /\ EdgesOf(c, k).makes \in ClosureOf(c, k).needs
           /\ EdgesOf(c, k).makes[1] = "semantic" /\ ClosureOf(c, k).makes[1] = "semantic"
           /\ ClosureOf(c, k).makes = <<"semantic", ClosureOf(c, k).makes[2]>>
BY DEF EdgesOf, ClosureOf, Hierarchy, Makes

\* A sequence of elements of some set is one of its own elements.
LEMMA SeqIs ==
    ASSUME NEW S, NEW s \in Seq(S)
    PROVE  IsSeq(s)
<1>1. Len(s) \in Nat /\ s = [n \in 1 .. Len(s) |-> s[n]] /\ DOMAIN s = 1 .. Len(s)
  BY LenProperties
<1> DEFINE T == {s[n] : n \in DOMAIN s}
<1>2. s \in [1 .. Len(s) -> T]
  BY <1>1
<1>3. s \in Seq(T)
  BY <1>1, <1>2
<1>4. QED
  BY <1>3 DEF IsSeq

\* The positions of a sequence.
LEMMA SeqBounds ==
    ASSUME NEW s, IsSeq(s)
    PROVE  /\ Len(s) \in Nat /\ DOMAIN s = 1 .. Len(s)
<1> DEFINE T == {s[n] : n \in DOMAIN s}
<1>1. s \in Seq(T)
  BY DEF IsSeq
<1>2. Len(s) \in Nat /\ DOMAIN s = 1 .. Len(s)
  <2> HIDE DEF T
  <2>1. QED
    BY <1>1, LenProperties
<1>3. QED
  BY <1>2

\* Where the elements of two sequences are when they are joined.
LEMMA JoinIsSeq ==
    ASSUME NEW s, NEW t, IsSeq(s), IsSeq(t)
    PROVE  /\ IsSeq(s \o t)
           /\ DOMAIN s = 1 .. Len(s) /\ DOMAIN t = 1 .. Len(t) /\ Len(s) \in Nat /\ Len(t) \in Nat
           /\ DOMAIN (s \o t) = 1 .. (Len(s) + Len(t))
           /\ \A n \in DOMAIN s : n \in DOMAIN (s \o t) /\ (s \o t)[n] = s[n]
           /\ \A n \in DOMAIN t : Len(s) + n \in DOMAIN (s \o t) /\ (s \o t)[Len(s) + n] = t[n]
           /\ \A n \in DOMAIN (s \o t) :
                \/ n \in DOMAIN s /\ (s \o t)[n] = s[n]
                \/ (n - Len(s)) \in DOMAIN t /\ n > Len(s) /\ (s \o t)[n] = t[n - Len(s)]
<1> DEFINE U == {s[n] : n \in DOMAIN s} \cup {t[n] : n \in DOMAIN t}
<1>1. s \in Seq(U) /\ t \in Seq(U)
  <2>1. {s[n] : n \in DOMAIN s} \subseteq U /\ {t[n] : n \in DOMAIN t} \subseteq U
    OBVIOUS
  <2>2. QED
    BY <2>1, SeqMonotonic DEF IsSeq
<1> HIDE DEF U
<1>2. s \o t \in Seq(U)
  BY <1>1
<1>3. IsSeq(s \o t)
  BY <1>2, SeqIs
<1>4. QED
  BY <1>1, <1>3

\* Where the elements of a sequence are without the first.
LEMMA TailIsSeq ==
    ASSUME NEW s, IsSeq(s), s # <<>>
    PROVE  /\ IsSeq(Tail(s)) /\ Head(s) = s[1] /\ 1 \in DOMAIN s
           /\ \A n \in DOMAIN Tail(s) : n \in Nat \ {0} /\ n + 1 \in DOMAIN s /\ Tail(s)[n] = s[n + 1]
           /\ \A n \in DOMAIN s : n \in Nat \ {0} /\ (n = 1 \/ (n - 1 \in DOMAIN Tail(s) /\ Tail(s)[n - 1] = s[n]))
<1> DEFINE U == {s[n] : n \in DOMAIN s}
<1>1. s \in Seq(U)
  BY DEF IsSeq
<1> HIDE DEF U
<1>2. Tail(s) \in Seq(U)
  BY <1>1
<1>3. IsSeq(Tail(s))
  BY <1>2, SeqIs
<1>4. Len(Tail(s)) = Len(s) - 1 /\ Len(s) \in Nat \ {0} /\ DOMAIN s = 1 .. Len(s)
      /\ DOMAIN Tail(s) = 1 .. (Len(s) - 1)
  BY <1>1, <1>2
<1>5. \A n \in DOMAIN Tail(s) : Tail(s)[n] = s[n + 1]
  BY <1>1
<1>6. Head(s) = s[1]
  BY <1>1
<1>7. ASSUME NEW n \in DOMAIN s PROVE n \in Nat \ {0} /\ (n = 1 \/ (n - 1 \in DOMAIN Tail(s) /\ Tail(s)[n - 1] = s[n]))
  <2>1. n \in Nat \ {0} /\ (n # 1 => n - 1 \in DOMAIN Tail(s))
    BY <1>4
  <2> DEFINE p == n - 1
  <2>2. n # 1 => p \in DOMAIN Tail(s) /\ p + 1 = n
    BY <2>1
  <2> HIDE DEF p
  <2>3. n # 1 => Tail(s)[p] = s[n]
    BY <2>2, <1>5
  <2>4. n # 1 => n - 1 \in DOMAIN Tail(s) /\ Tail(s)[n - 1] = s[n]
    BY <2>2, <2>3, Zenon DEF p
  <2>5. QED
    BY <2>1, <2>4, Zenon
<1>8. \A n \in DOMAIN Tail(s) : n \in Nat \ {0} /\ n + 1 \in DOMAIN s
  BY <1>4
<1>9. 1 \in DOMAIN s
  BY <1>4
<1>10. QED
  BY <1>3, <1>5, <1>6, <1>7, <1>8, <1>9

\* Statements that rebuild every mapping of a catalogue, each, where all of the
\* hierarchy is made, after its edges.
After(s, n, statement) == \E m \in DOMAIN s : m < n /\ s[m] = statement
Rebuilds(s, c, whole) ==
    /\ IsSeq(s)
    /\ \A n \in DOMAIN s :
         \/ s[n].act = "view"
         \/ \E k \in RaggedDims(c) :
              s[n] = ClosureOf(c, k) /\ (whole => After(s, n, EdgesOf(c, k)))
    /\ \A k \in RaggedDims(c) : \E n \in DOMAIN s : s[n] = ClosureOf(c, k)

\* Statements that make views and nothing else.
OnlyViews(s) == IsSeq(s) /\ \A n \in DOMAIN s : s[n].act = "view"

\* The statements that rebuild the hierarchies, and provision them: a mapping's
\* after its edges'.
LEMMA HierarchySteps ==
    ASSUME NEW c, IsFiniteSet(DOMAIN c.dims), NEW refreshOnly \in BOOLEAN
    PROVE  Rebuilds(HierarchyStatements(c, refreshOnly), c, ~refreshOnly)
<1> DEFINE h(k) == Hierarchy(c, k)
           D == RaggedDims(c)
           S == UNION {{h(k).edges, h(k).nodes, h(k).closure, h(k).rollup} : k \in D}
           of(k) == IF refreshOnly THEN <<h(k).closure>> ELSE <<h(k).edges, h(k).nodes, h(k).closure, h(k).rollup>>
           order == SetToSeq(D)
           N == Cardinality(D)
           s == [n \in DOMAIN order |-> of(order[n])]
           F == FlattenSeq(s)
<1>1. HierarchyStatements(c, refreshOnly) = F
  BY DEF HierarchyStatements
<1>2. IsFiniteSet(D)
  BY FS_Subset DEF RaggedDims
<1>3. N \in Nat /\ order \in [1 .. N -> D] /\ \A k \in D : \E n \in 1 .. N : order[n] = k
  BY <1>2, EnumeratesSet
<1>4. \A k \in D : of(k) \in Seq(S)
  <2>1. SUFFICES ASSUME NEW k \in D PROVE of(k) \in Seq(S)
    OBVIOUS
  <2>2. {h(k).edges, h(k).nodes, h(k).closure, h(k).rollup} \subseteq S
    OBVIOUS
  <2> HIDE DEF S, h
  <2>3. <<h(k).closure>> \in Seq(S) /\ <<h(k).edges, h(k).nodes, h(k).closure, h(k).rollup>> \in Seq(S)
    BY <2>2
  <2>4. QED
    BY <2>3
<1> HIDE DEF order, N, D, S
<1>5. s \in Seq(Seq(S)) /\ Len(s) = N
  <2> HIDE DEF of
  <2>1. s \in [1 .. N -> Seq(S)]
    BY <1>3, <1>4
  <2>2. QED
    BY <2>1, <1>3
<1>6. F \in Seq(S) /\ Joins(s, N, F)
  BY <1>5, Flattened
<1>7. DOMAIN F = 1 .. Len(F) /\ Len(F) \in Nat
  BY <1>6
<1>8. \A j \in 1 .. N : order[j] \in D /\ s[j] = of(order[j])
  BY <1>3
<1> HIDE DEF F, s, h
<1>9. \A k : DOMAIN of(k) = IF refreshOnly THEN {1} ELSE {1, 2, 3, 4}
  OBVIOUS
<1>10. ASSUME NEW n \in DOMAIN F
       PROVE  \/ F[n].act = "view"
              \/ \E k \in D : F[n] = ClosureOf(c, k)
                               /\ (~refreshOnly => \E m \in DOMAIN F : m < n /\ F[m] = EdgesOf(c, k))
  <2>1. PICK j \in 1 .. N, o \in Nat : n - o \in DOMAIN s[j] /\ BlockAt(s, j, o, F)
    BY <1>6 DEF Joins
  <2>2. PICK k \in D : k = order[j] /\ s[j] = of(k)
    BY <1>8
  <2>3. /\ n \in Nat
        /\ \A q \in DOMAIN of(k) : o + q \in DOMAIN F /\ F[o + q] = of(k)[q]
        /\ n - o \in DOMAIN of(k) /\ n = o + (n - o)
    <3> HIDE DEF of
    <3>1. n \in Nat /\ n = o + (n - o)
      BY <1>7
    <3>2. QED
      BY <2>1, <2>2, <3>1 DEF BlockAt
  <2>4. CASE refreshOnly
    <3>1. n - o = 1 /\ F[n] = h(k).closure
      BY <2>3, <2>4, <1>9
    <3>2. QED
      BY <3>1, <2>4 DEF ClosureOf, h
  <2>5. CASE ~refreshOnly
    <3>1. /\ n - o \in {1, 2, 3, 4} /\ F[n] = of(k)[n - o]
          /\ o + 1 \in DOMAIN F /\ F[o + 1] = h(k).edges
      BY <2>3, <2>5, <1>9
    <3>2. CASE n - o = 3
      <4>1. F[n] = h(k).closure /\ o + 1 < n
        BY <3>1, <3>2, <2>3, <2>5
      <4>2. QED
        BY <4>1, <3>1, <2>5 DEF ClosureOf, EdgesOf, h
    <3>3. CASE n - o # 3
      <4>1. F[n] \in {h(k).edges, h(k).nodes, h(k).rollup}
        BY <3>1, <3>3, <2>5
      <4>2. QED
        BY <4>1, HierarchyParts DEF EdgesOf, h
    <3>4. QED
      BY <3>2, <3>3
  <2>6. QED
    BY <2>4, <2>5
<1>11. ASSUME NEW k \in D PROVE \E n \in DOMAIN F : F[n] = ClosureOf(c, k)
  <2>1. PICK j \in 1 .. N : order[j] = k
    BY <1>3
  <2>2. PICK o \in Nat : BlockAt(s, j, o, F)
    BY <1>6 DEF Joins
  <2>3. \A q \in DOMAIN of(k) : o + q \in DOMAIN F /\ F[o + q] = of(k)[q]
    BY <2>1, <2>2, <1>8 DEF BlockAt
  <2>4. \E q \in DOMAIN of(k) : of(k)[q] = h(k).closure
    <3>1. CASE refreshOnly
      <4>1. 1 \in DOMAIN of(k) /\ of(k)[1] = h(k).closure
        BY <3>1
      <4>2. QED
        BY <4>1
    <3>2. CASE ~refreshOnly
      <4>1. 3 \in DOMAIN of(k) /\ of(k)[3] = h(k).closure
        BY <3>2
      <4>2. QED
        BY <4>1
    <3>3. QED
      BY <3>1, <3>2
  <2> HIDE DEF of
  <2>5. QED
    BY <2>3, <2>4 DEF ClosureOf, h
<1>12. IsSeq(F)
  BY <1>6, SeqIs
<1>13. QED
  BY <1>1, <1>10, <1>11, <1>12 DEF D, Rebuilds, After

\* What is where in two sequences joined.
Joined(s, t, j) ==
    /\ IsSeq(j) /\ Len(s) \in Nat
    /\ \A n \in DOMAIN j : n \in Nat
    /\ \A n \in DOMAIN s : n \in DOMAIN j /\ j[n] = s[n]
    /\ \A n \in DOMAIN t : n \in Nat /\ Len(s) + n \in DOMAIN j /\ j[Len(s) + n] = t[n]
    /\ \A n \in DOMAIN j :
          \/ n \in DOMAIN s /\ j[n] = s[n]
          \/ (n - Len(s)) \in DOMAIN t /\ n > Len(s) /\ j[n] = t[n - Len(s)]

\* Two sequences joined are joined.
LEMMA JoinedIs ==
    ASSUME NEW s, NEW t, IsSeq(s), IsSeq(t)
    PROVE  Joined(s, t, s \o t)
<1> DEFINE j == s \o t
<1>1. /\ IsSeq(j)
      /\ DOMAIN s = 1 .. Len(s) /\ DOMAIN t = 1 .. Len(t) /\ Len(s) \in Nat /\ Len(t) \in Nat
      /\ DOMAIN j = 1 .. (Len(s) + Len(t))
  BY JoinIsSeq
<1>2. \A n \in DOMAIN s : n \in DOMAIN j /\ j[n] = s[n]
  BY JoinIsSeq
<1>3. \A n \in DOMAIN t : Len(s) + n \in DOMAIN j /\ j[Len(s) + n] = t[n]
  BY JoinIsSeq
<1> HIDE DEF j
<1>4. (\A n \in DOMAIN j : n \in Nat) /\ (\A n \in DOMAIN t : n \in Nat)
  BY <1>1
<1>5. ASSUME NEW n \in DOMAIN j
      PROVE  \/ n \in DOMAIN s /\ j[n] = s[n]
             \/ (n - Len(s)) \in DOMAIN t /\ n > Len(s) /\ j[n] = t[n - Len(s)]
  <2>1. CASE n \in DOMAIN s
    BY <2>1, <1>2
  <2>2. CASE n \notin DOMAIN s
    <3> DEFINE m == n - Len(s)
    <3>1. m \in DOMAIN t /\ n > Len(s) /\ n = Len(s) + m
      BY <1>1, <2>2
    <3> HIDE DEF m
    <3>2. j[n] = t[m]
      BY <1>3, <3>1
    <3>3. QED
      BY <3>1, <3>2 DEF m
  <2>3. QED
    BY <2>1, <2>2
<1>6. QED
  BY <1>1, <1>2, <1>3, <1>4, <1>5 DEF Joined, j

\* Views and views are views.
LEMMA ViewsJoined ==
    ASSUME NEW s, NEW t, OnlyViews(s), OnlyViews(t)
    PROVE  OnlyViews(s \o t)
<1>1. Joined(s, t, s \o t)
  BY JoinedIs DEF OnlyViews
<1>2. QED
  BY <1>1 DEF OnlyViews, Joined

\* Views before a rebuild leave it one.
LEMMA ViewsBefore ==
    ASSUME NEW s, NEW t, NEW c, OnlyViews(s), Rebuilds(t, c, TRUE)
    PROVE  Rebuilds(s \o t, c, TRUE)
<1> DEFINE j == s \o t
<1>1. Joined(s, t, j)
  BY JoinedIs DEF OnlyViews, Rebuilds
<1> HIDE DEF j
<1> USE DEF Joined
<1>2. ASSUME NEW n \in DOMAIN j
      PROVE  \/ j[n].act = "view"
             \/ \E k \in RaggedDims(c) : j[n] = ClosureOf(c, k) /\ After(j, n, EdgesOf(c, k))
  <2>1. CASE n \in DOMAIN s /\ j[n] = s[n]
    BY <2>1 DEF OnlyViews
  <2>2. CASE (n - Len(s)) \in DOMAIN t /\ j[n] = t[n - Len(s)] /\ t[n - Len(s)].act = "view"
    BY <2>2
  <2>3. CASE (n - Len(s)) \in DOMAIN t /\ j[n] = t[n - Len(s)] /\ t[n - Len(s)].act # "view"
    <3>1. PICK k \in RaggedDims(c), m \in DOMAIN t :
            t[n - Len(s)] = ClosureOf(c, k) /\ m < n - Len(s) /\ t[m] = EdgesOf(c, k)
      BY <2>3 DEF Rebuilds, After
    <3>2. Len(s) + m \in DOMAIN j /\ Len(s) + m < n /\ j[Len(s) + m] = EdgesOf(c, k)
      <4>1. m \in Nat /\ n \in Nat /\ Len(s) \in Nat
        BY <1>1
      <4>2. Len(s) + m < n
        BY <4>1, <3>1
      <4>3. QED
        BY <4>2, <1>1, <3>1
    <3>3. QED
      BY <3>1, <3>2, <2>3 DEF After
  <2>4. QED
    BY <1>1, <2>1, <2>2, <2>3
<1>3. ASSUME NEW k \in RaggedDims(c) PROVE \E n \in DOMAIN j : j[n] = ClosureOf(c, k)
  <2>1. PICK n \in DOMAIN t : t[n] = ClosureOf(c, k)
    BY DEF Rebuilds
  <2>2. QED
    BY <2>1, <1>1
<1>4. Rebuilds(j, c, TRUE)
  BY <1>1, <1>2, <1>3 DEF Rebuilds
<1>5. QED
  BY <1>4 DEF j

\* Views after a rebuild leave it one.
LEMMA ViewsAfter ==
    ASSUME NEW s, NEW t, NEW c, OnlyViews(t), Rebuilds(s, c, TRUE)
    PROVE  Rebuilds(s \o t, c, TRUE)
<1> DEFINE j == s \o t
<1>1. Joined(s, t, j)
  BY JoinedIs DEF OnlyViews, Rebuilds
<1> HIDE DEF j
<1> USE DEF Joined
<1>2. ASSUME NEW n \in DOMAIN j
      PROVE  \/ j[n].act = "view"
             \/ \E k \in RaggedDims(c) : j[n] = ClosureOf(c, k) /\ After(j, n, EdgesOf(c, k))
  <2>1. CASE (n - Len(s)) \in DOMAIN t /\ j[n] = t[n - Len(s)]
    BY <2>1 DEF OnlyViews
  <2>2. CASE n \in DOMAIN s /\ j[n] = s[n]
    <3>1. \A m \in DOMAIN s : m \in DOMAIN j /\ j[m] = s[m]
      BY <1>1
    <3>2. \A k : After(s, n, EdgesOf(c, k)) => After(j, n, EdgesOf(c, k))
      BY <3>1 DEF After
    <3>3. QED
      BY <2>2, <3>2 DEF Rebuilds
  <2>3. QED
    BY <1>1, <2>1, <2>2
<1>3. ASSUME NEW k \in RaggedDims(c) PROVE \E n \in DOMAIN j : j[n] = ClosureOf(c, k)
  <2>1. PICK n \in DOMAIN s : s[n] = ClosureOf(c, k)
    BY DEF Rebuilds
  <2>2. QED
    BY <2>1, <1>1
<1>4. Rebuilds(j, c, TRUE)
  BY <1>1, <1>2, <1>3 DEF Rebuilds
<1>5. QED
  BY <1>4 DEF j

\* The image of a finite set under a function.
LEMMA FiniteImage ==
    ASSUME NEW S, IsFiniteSet(S), NEW f, DOMAIN f = S
    PROVE  IsFiniteSet({f[x] : x \in S})
<1> DEFINE T == {f[x] : x \in S}
           g == [x \in S |-> f[x]]
<1>1. g \in [S -> T] /\ \A t \in T : \E x \in S : g[x] = t
  OBVIOUS
<1>2. g \in Surjection(S, T)
  BY <1>1 DEF Surjection
<1>3. QED
  BY <1>2, FS_Surjection

\* A semantic file makes views.
LEMMA FileViewsAre ==
    ASSUME NEW views, IsSeq(views)
    PROVE  OnlyViews(FileViews(views))
<1> DEFINE F == FileViews(views)
           S == {Makes("view", <<"semantic", views[n].name>>, views[n].needs) : n \in DOMAIN views}
<1>1. Len(views) \in Nat /\ DOMAIN views = 1 .. Len(views)
  BY LenProperties DEF IsSeq
<1>2. DOMAIN F = 1 .. Len(views) /\ \A n \in DOMAIN F : F[n] \in S /\ F[n].act = "view"
  BY <1>1 DEF FileViews, Makes
<1>3. F \in [1 .. Len(views) -> S]
  BY <1>1 DEF FileViews
<1> HIDE DEF F, S
<1>4. F \in Seq(S)
  BY <1>1, <1>3
<1>5. QED
  BY <1>2, <1>4, SeqIs DEF F, OnlyViews

\* The dimensions nobody authored a view for get views.
LEMMA PassthroughsAre ==
    ASSUME NEW c, NEW i \in Accepting, c = Catalogue(i)
    PROVE  OnlyViews(PassthroughStatements(c, i))
<1> DEFINE P == Passthroughs(c, {v.name : v \in Range(Instances[i].dims)})
           D == {j \in DOMAIN c.dims : IsLeaf(c.dims[j])}
           f == [j \in D |-> c.dims[j].source.table[2]]
           names == SetToSeq(P)
           F == PassthroughStatements(c, i)
           S == {Makes("view", <<"semantic", x>>, {<<"live", x>>}) : x \in P}
<1>1. IsFiniteSet(D)
  BY InstancesAssumption, FS_Subset
<1>2. IsFiniteSet({f[x] : x \in D})
  <2>1. DOMAIN f = D
    OBVIOUS
  <2> HIDE DEF f, D
  <2>2. QED
    BY <1>1, <2>1, FiniteImage
<1>3. P \subseteq {f[x] : x \in D}
  BY DEF Passthroughs
<1>4. IsFiniteSet(P)
  <2> HIDE DEF P, f, D
  <2>1. QED
    BY <1>2, <1>3, FS_Subset
<1>5. Cardinality(P) \in Nat /\ names \in [1 .. Cardinality(P) -> P]
  <2> HIDE DEF P
  <2>1. QED
    BY <1>4, EnumeratesSet
<1>6. F = [n \in DOMAIN names |-> Makes("view", <<"semantic", names[n]>>, {<<"live", names[n]>>})]
  BY DEF PassthroughStatements
<1> HIDE DEF F, names, P
<1>7. F \in [1 .. Cardinality(P) -> S] /\ \A n \in DOMAIN F : F[n].act = "view"
  BY <1>5, <1>6 DEF Makes
<1> HIDE DEF S
<1>8. F \in Seq(S)
  BY <1>5, <1>7
<1>9. QED
  BY <1>7, <1>8, SeqIs DEF F, OnlyViews

\* The statements of the semantic layer rebuild every mapping, each after its
\* edges: run_semantic's order.
LEMMA SemanticSteps ==
    ASSUME NEW i \in Accepting
    PROVE  Rebuilds(SemanticStatements(i), Catalogue(i), TRUE)
<1> DEFINE c == Catalogue(i)
           a == FileViews(Instances[i].dims)
           b == PassthroughStatements(c, i)
           h == HierarchyStatements(c, FALSE)
           v == FileViews(Instances[i].views)
<1>1. i \in DOMAIN Instances /\ IsFiniteSet(DOMAIN c.dims)
  BY InstancesAssumption DEF Accepting
<1>2. OnlyViews(a) /\ OnlyViews(v)
  BY <1>1, InstancesAssumption, FileViewsAre
<1>3. OnlyViews(b)
  BY PassthroughsAre
<1>4. Rebuilds(h, c, TRUE)
  <2> HIDE DEF c
  <2>1. FALSE \in BOOLEAN /\ ~FALSE = TRUE
    OBVIOUS
  <2>2. QED
    BY <1>1, <2>1, HierarchySteps
<1>5. SemanticStatements(i) = ((a \o b) \o h) \o v
  BY DEF SemanticStatements
<1> HIDE DEF a, b, h, v, c
<1>6. Rebuilds((a \o b) \o h, c, TRUE)
  BY <1>2, <1>3, <1>4, ViewsJoined, ViewsBefore
<1>7. Rebuilds(((a \o b) \o h) \o v, c, TRUE)
  BY <1>2, <1>6, ViewsAfter
<1>8. QED
  BY <1>5, <1>7 DEF c

\* The first part of a provisioning: tables of the live and staging layers, the
\* scenarios, and the catalogue read.
OnlyTables(s) ==
    /\ IsSeq(s)
    /\ \A n \in DOMAIN s :
         /\ s[n].act \in {"table", "seed", "catalogue"}
         /\ s[n].act = "table" => s[n].makes[1] \in {"live", "staging"} \/ s[n].makes = <<"semantic", "scenarios">>

\* Two parts of the first part of a provisioning.
LEMMA TablesJoined ==
    ASSUME NEW s, NEW t, OnlyTables(s), OnlyTables(t)
    PROVE  OnlyTables(s \o t)
<1>1. Joined(s, t, s \o t)
  BY JoinedIs DEF OnlyTables
<1> DEFINE j == s \o t
<1> HIDE DEF j
<1>2. Joined(s, t, j)
  BY <1>1 DEF j
<1>3. ASSUME NEW n \in DOMAIN j
      PROVE  (\E m \in DOMAIN s : j[n] = s[m]) \/ (\E m \in DOMAIN t : j[n] = t[m])
  BY <1>2 DEF Joined
<1>4. OnlyTables(j)
  BY <1>2, <1>3 DEF OnlyTables, Joined
<1>5. QED
  BY <1>4 DEF j

\* The statements of the live files make tables of the live and staging layers.
LEMMA LiveAre ==
    ASSUME NEW i \in DOMAIN Instances
    PROVE  /\ IsSeq(LiveStatements(i))
           /\ \A n \in DOMAIN LiveStatements(i) :
                LiveStatements(i)[n].act = "table" /\ LiveStatements(i)[n].makes[1] \in {"live", "staging"}
<1> DEFINE liveFiles == Instances[i].live
           T(n) == <<Makes("table", <<"live", liveFiles[n]>>, {}), Makes("table", <<"staging", liveFiles[n]>>, {})>>
           s == [n \in DOMAIN liveFiles |-> T(n)]
           S == {Makes("table", <<"live", liveFiles[n]>>, {}) : n \in DOMAIN liveFiles}
                  \cup {Makes("table", <<"staging", liveFiles[n]>>, {}) : n \in DOMAIN liveFiles}
<1>1. Len(liveFiles) \in Nat /\ DOMAIN liveFiles = 1 .. Len(liveFiles)
  BY InstancesAssumption, LenProperties DEF IsSeq
<1>2. \A n \in DOMAIN liveFiles : T(n) \in Seq(S)
  <2>1. ASSUME NEW n \in DOMAIN liveFiles PROVE T(n) \in Seq(S)
    <3>1. Makes("table", <<"live", liveFiles[n]>>, {}) \in S /\ Makes("table", <<"staging", liveFiles[n]>>, {}) \in S
      OBVIOUS
    <3> HIDE DEF S
    <3>2. QED
      BY <3>1
  <2>2. QED
    BY <2>1
<1>3. \A x \in S : x.act = "table" /\ x.makes[1] \in {"live", "staging"}
  BY DEF Makes
<1>4. s \in [1 .. Len(liveFiles) -> Seq(S)]
  <2> HIDE DEF T, S
  <2>1. QED
    BY <1>1, <1>2
<1>5. s \in Seq(Seq(S))
  <2> HIDE DEF s, S
  <2>1. QED
    BY <1>1, <1>4
<1>6. LiveStatements(i) = FlattenSeq(s)
  BY DEF LiveStatements
<1> HIDE DEF s, S
<1>7. FlattenSeq(s) \in Seq(S)
  BY <1>5, Flattened
<1>8. IsSeq(FlattenSeq(s)) /\ \A n \in DOMAIN FlattenSeq(s) : FlattenSeq(s)[n] \in S
  BY <1>7, SeqIs
<1>9. QED
  BY <1>3, <1>6, <1>8

\* A provisioning starts with tables, the scenarios and the catalogue: it makes
\* no view of the semantic layer before it has read the directory.
LEMMA TableSteps ==
    ASSUME NEW i \in DOMAIN Instances
    PROVE  OnlyTables(LiveStatements(i) \o ScenarioStatements \o <<Makes("catalogue", <<>>, {})>>)
<1>8. OnlyTables(LiveStatements(i))
  BY LiveAre DEF OnlyTables
<1>9. OnlyTables(ScenarioStatements)
  <2> DEFINE p == Makes("table", <<"semantic", "scenarios">>, {})
             q == Makes("seed", <<"semantic", "scenarios">>, {<<"semantic", "scenarios">>})
  <2>1. ScenarioStatements = <<p, q>>
    BY DEF ScenarioStatements
  <2>2. p.act = "table" /\ p.makes = <<"semantic", "scenarios">> /\ q.act = "seed"
    BY DEF Makes
  <2> HIDE DEF p, q
  <2>3. <<p, q>> \in Seq({p, q})
    OBVIOUS
  <2>4. IsSeq(<<p, q>>)
    BY <2>3, SeqIs
  <2>5. \A n \in DOMAIN <<p, q>> : <<p, q>>[n] \in {p, q}
    OBVIOUS
  <2>6. QED
    BY <2>1, <2>2, <2>4, <2>5 DEF OnlyTables
<1>10. OnlyTables(<<Makes("catalogue", <<>>, {})>>)
  <2> DEFINE p == Makes("catalogue", <<>>, {})
  <2>1. p.act = "catalogue"
    BY DEF Makes
  <2> HIDE DEF p
  <2>2. IsSeq(<<p>>) /\ \A n \in DOMAIN <<p>> : <<p>>[n] = p
    <3>1. <<p>> \in Seq({p}) /\ \A n \in DOMAIN <<p>> : <<p>>[n] = p
      OBVIOUS
    <3>2. QED
      BY <3>1, SeqIs, Zenon
  <2>3. OnlyTables(<<p>>)
    BY <2>1, <2>2 DEF OnlyTables
  <2>4. QED
    BY <2>3 DEF p
<1>11. QED
  BY <1>8, <1>9, <1>10, TablesJoined

-----------------------------------------------------------------------------
(* The books: what is owed, what a job covers, and what the warehouse has.  *)

\* The catalogue of the directory there is, and the mapping a hierarchy of it
\* should have.
Now == Catalogue(disk)
Value(k) == Rollup(EdgesNow(Now, k), LeavesNow(Now, k))

\* The edges' view is the present catalogue's, and the mapping the present rows'.
EdgesCurrent(k) == EdgesOf(Now, k).makes \in DOMAIN store => store[EdgesOf(Now, k).makes] = disk
ClosureCurrent(k) ==
    ClosureOf(Now, k).makes[2] \in DOMAIN closures => closures[ClosureOf(Now, k).makes[2]] = Value(k)

\* The views owed a definition are covered.
Covered(covers) == \A o \in owed : o[1] = "definitions" => o \in covers

\* A statement that makes the view of a hierarchy's edges.
Redefines(statement, k) == statement.act = "view" /\ statement.makes = EdgesOf(Now, k).makes

\* A provisioning before it reads the catalogue.
Preparing(work) == OnlyTables(work.todo) /\ work.covers = {} /\ work.rows = <<>>

\* What a job that rebuilds has done and has still to do for one hierarchy.
Tracked(work, k) ==
    /\ EdgesCurrent(k) \/ \E n \in DOMAIN work.todo : Redefines(work.todo[n], k)
    /\ \A n \in DOMAIN work.todo :
         work.todo[n] = ClosureOf(Now, k) =>
           EdgesCurrent(k) \/ \E m \in DOMAIN work.todo : m < n /\ Redefines(work.todo[m], k)
    /\ owed \subseteq work.covers =>
         ClosureCurrent(k) \/ \E n \in DOMAIN work.todo : work.todo[n] = ClosureOf(Now, k)

\* What is left of a rebuild.
RebuildsOnly(s, c) ==
    /\ IsSeq(s)
    /\ \A n \in DOMAIN s : s[n].act = "view" \/ \E k \in RaggedDims(c) : s[n] = ClosureOf(c, k)

\* A job that rebuilds: with the definitions covered it does so from the present
\* catalogue, and what it has read for a mapping is of the present rows.
Rebuilding(work) ==
    /\ work.read \in Accepting /\ RebuildsOnly(work.todo, Catalogue(work.read))
    /\ Covered(work.covers) => work.read = disk /\ \A k \in RaggedDims(Now) : Tracked(work, k)
    /\ work.rows # <<>> =>
         /\ work.todo # <<>>
         /\ \E k \in RaggedDims(Catalogue(work.read)) :
              /\ work.todo[1] = ClosureOf(Catalogue(work.read), k)
              /\ Covered(work.covers) => work.rows[1] = Value(k)

\* A busy worker's job, as a record.
IsJob(work) ==
    /\ work = [kind |-> work.kind, of |-> work.of, read |-> work.read, todo |-> work.todo,
              covers |-> work.covers, rows |-> work.rows]
    /\ work.kind # "idle"

\* A job prepares or rebuilds, and no two overlap.
JobsInv ==
    /\ DOMAIN jobs = Workers
    /\ \A w \in Workers : Busy(w) => IsJob(jobs[w]) /\ (Preparing(jobs[w]) \/ Rebuilding(jobs[w]))
    /\ \A v, w \in Workers : Busy(v) /\ Busy(w) => v = w

\* The definitions owed are numbered by the replacements of the directory.
Numbered(due) == \A o \in due : o[1] = "definitions" => o[2] \in Nat /\ o[2] <= edits

\* What is owed and what is covered is of replacements there have been.
Numbers ==
    /\ edits \in Nat /\ Numbered(owed)
    /\ \A w \in Workers : Busy(w) => Numbered(jobs[w].covers)

\* The directory and the tables are some the deployment has.
Directory ==
    /\ disk \in DOMAIN Instances
    /\ DOMAIN contents = DOMAIN Data /\ \A t \in DOMAIN Data : contents[t] \in DOMAIN Data[t]

\* With every definition covered the views of the edges are the present ones,
\* and with nothing owed the mappings are of the rows of now.
Books ==
    Fits(disk) =>
      /\ Covered({}) => \A k \in RaggedDims(Now) : EdgesCurrent(k)
      /\ owed = {} => \A k \in RaggedDims(Now) : ClosureCurrent(k)

\* The inductive invariant behind SettledClosuresAreCurrent.
DeploymentInv == JobsInv /\ Numbers /\ Directory /\ Books

-----------------------------------------------------------------------------
(* How the books carry over a step.                                        *)

\* A job with its first statement done.
Moved(work) == [kind |-> work.kind, of |-> work.of, read |-> work.read, todo |-> Tail(work.todo),
               covers |-> work.covers, rows |-> <<>>]

\* A job's fields after the assignments the steps make to it.
LEMMA JobFields ==
    ASSUME NEW work, IsJob(work)
    PROVE  /\ work # Idle /\ IsJob(Moved(work)) /\ Moved(work) # Idle
           /\ [work EXCEPT !.todo = Tail(@), !.rows = <<>>] = Moved(work)
           /\ [work EXCEPT !.of = 0] = [kind |-> work.kind, of |-> 0, read |-> work.read, todo |-> work.todo,
                                       covers |-> work.covers, rows |-> work.rows]
           /\ \A r : [work EXCEPT !.rows = r] = [kind |-> work.kind, of |-> work.of, read |-> work.read,
                                                todo |-> work.todo, covers |-> work.covers, rows |-> r]
           /\ \A s, i, c : [work EXCEPT !.todo = s, !.read = i, !.covers = c] =
                  [kind |-> work.kind, of |-> work.of, read |-> i, todo |-> s, covers |-> c, rows |-> work.rows]
<1> DEFINE R(o, i, s, c, r) == [kind |-> work.kind, of |-> o, read |-> i, todo |-> s, covers |-> c, rows |-> r]
<1>1. work = R(work.of, work.read, work.todo, work.covers, work.rows)
  BY DEF IsJob
<1>2. DOMAIN work = {"kind", "of", "read", "todo", "covers", "rows"} /\ work.kind # "idle"
  BY <1>1 DEF IsJob
<1>3. [work EXCEPT !.todo = Tail(@), !.rows = <<>>] = Moved(work)
  <2> DEFINE first == [work EXCEPT !.todo = Tail(@)]
  <2>0. PICK t : t = Tail(work.todo)
    OBVIOUS
  <2>1. DOMAIN first = DOMAIN work /\ first.todo = t /\ \A f \in DOMAIN work : f # "todo" => first[f] = work[f]
    BY <1>2, <2>0
  <2>2. [work EXCEPT !.todo = Tail(@), !.rows = <<>>] = [first EXCEPT !.rows = <<>>]
    OBVIOUS
  <2> HIDE DEF first
  <2>3. [first EXCEPT !.rows = <<>>] = R(work.of, work.read, t, work.covers, <<>>)
    BY <1>2, <2>1
  <2>4. QED
    BY <2>0, <2>2, <2>3 DEF Moved
<1>4. [work EXCEPT !.of = 0] = R(0, work.read, work.todo, work.covers, work.rows)
  BY <1>2
<1>5. ASSUME NEW r PROVE [work EXCEPT !.rows = r] = R(work.of, work.read, work.todo, work.covers, r)
  BY <1>2
<1>6. ASSUME NEW s, NEW i, NEW c
      PROVE  [work EXCEPT !.todo = s, !.read = i, !.covers = c] = R(work.of, i, s, c, work.rows)
  <2> DEFINE first == [work EXCEPT !.todo = s]
             second == [first EXCEPT !.read = i]
  <2>1. DOMAIN first = DOMAIN work /\ first.todo = s /\ \A f \in DOMAIN work : f # "todo" => first[f] = work[f]
    BY <1>2
  <2>2. [work EXCEPT !.todo = s, !.read = i, !.covers = c] = [second EXCEPT !.covers = c]
    OBVIOUS
  <2> HIDE DEF first
  <2>3. DOMAIN second = DOMAIN work /\ second.read = i /\ \A f \in DOMAIN work : f # "read" => second[f] = first[f]
    BY <1>2, <2>1
  <2> HIDE DEF second
  <2>4. [second EXCEPT !.covers = c] = R(work.of, i, s, c, work.rows)
    BY <1>2, <2>1, <2>3
  <2>5. QED
    BY <2>2, <2>4
<1>7. work # Idle /\ IsJob(Moved(work)) /\ Moved(work) # Idle
  BY <1>2 DEF Idle, Moved, IsJob
<1>8. QED
  BY <1>3, <1>4, <1>5, <1>6, <1>7

\* One worker's job replaced, with the others idle.
LEMMA JobsAre ==
    ASSUME JobsInv, NEW w \in Workers, NEW j, jobs' = [jobs EXCEPT ![w] = j],
           \A v \in Workers : v # w => ~Busy(v)
    PROVE  /\ DOMAIN jobs' = Workers /\ jobs'[w] = j
           /\ \A v \in Workers : v # w => jobs'[v] = Idle
BY DEF JobsInv, Busy

\* A job that starts or goes on, and prepares or rebuilds, is one.
LEMMA JobsKept ==
    ASSUME JobsInv, NEW w \in Workers, NEW j, jobs' = [jobs EXCEPT ![w] = j],
           \A v \in Workers : v # w => ~Busy(v),
           j = Idle \/ (IsJob(j) /\ (Preparing(j) \/ Rebuilding(j)'))
    PROVE  JobsInv'
<1>1. /\ DOMAIN jobs' = Workers /\ jobs'[w] = j
      /\ \A v \in Workers : v # w => jobs'[v] = Idle
  BY JobsAre
<1>2. \A v \in Workers : Busy(v)' => v = w /\ jobs'[v] = j /\ j # Idle
  BY <1>1 DEF Busy
<1>3. ASSUME NEW v \in Workers, Busy(v)' PROVE (IsJob(jobs[v]) /\ (Preparing(jobs[v]) \/ Rebuilding(jobs[v])))'
  <2>1. jobs'[v] = j /\ j # Idle
    BY <1>2, <1>3
  <2>2. IsJob(j)' /\ (Preparing(j)' \/ Rebuilding(j)')
    BY <2>1 DEF IsJob, Preparing, OnlyTables
  <2>3. QED
    BY <2>1, <2>2
<1>4. QED
  BY <1>1, <1>2, <1>3 DEF JobsInv

\* The worker of a step that needs one busy, or none.
LEMMA Alone ==
    ASSUME JobsInv, NEW w \in Workers, Serialised, Busy(w) \/ MayStart(w)
    PROVE  \A v \in Workers : v # w => ~Busy(v)
BY DEF JobsInv, MayStart

\* The mappings that should be are a matter of the directory and the rows.
LEMMA SameValues ==
    ASSUME disk' = disk, contents' = contents
    PROVE  Now' = Now /\ \A k : Value(k)' = Value(k)
BY DEF Now, Value, EdgesNow, LeavesNow, RowsOf

\* The books are a matter of the warehouse, the directory and what is owed.
LEMMA SameBooks ==
    ASSUME UNCHANGED <<disk, store, closures, contents, owed>>
    PROVE  /\ \A k : EdgesCurrent(k)' = EdgesCurrent(k) /\ ClosureCurrent(k)' = ClosureCurrent(k)
           /\ \A covers : Covered(covers)' = Covered(covers)
           /\ \A work, k : Tracked(work, k)' = Tracked(work, k)
           /\ \A work : Rebuilding(work)' = Rebuilding(work)
           /\ Books' = Books /\ (Directory => Directory')
<1>1. Now' = Now /\ \A k : Value(k)' = Value(k)
  BY SameValues
<1>2. \A k : EdgesCurrent(k)' = EdgesCurrent(k)
  BY <1>1 DEF EdgesCurrent
<1>3. \A k : ClosureCurrent(k)' = ClosureCurrent(k)
  BY <1>1 DEF ClosureCurrent
<1>4. \A covers : Covered(covers)' = Covered(covers)
  BY DEF Covered
<1>5. \A work, k : Tracked(work, k)' = Tracked(work, k)
  BY <1>1, <1>2, <1>3 DEF Tracked, Redefines
<1>6. \A work : Rebuilding(work)' = Rebuilding(work)
  BY <1>1, <1>4, <1>5 DEF Rebuilding
<1>7. Books' = Books
  BY <1>1, <1>2, <1>3, <1>4 DEF Books, Fits
<1>8. Directory => Directory'
  BY DEF Directory
<1>9. QED
  BY <1>2, <1>3, <1>4, <1>5, <1>6, <1>7, <1>8

\* Steps that touch none of it.
LEMMA Elsewhere ==
    ASSUME DeploymentInv, UNCHANGED <<disk, store, contents, closures, jobs, owed, edits>>
    PROVE  DeploymentInv'
<1>1. Books' /\ Directory' /\ \A work : Rebuilding(work)' = Rebuilding(work)
  BY SameBooks DEF DeploymentInv
<1>2. Numbers'
  BY DEF DeploymentInv, Numbers, Numbered, Busy
<1>3. JobsInv'
  BY <1>1 DEF DeploymentInv, JobsInv, Busy, IsJob, Preparing, OnlyTables
<1>4. QED
  BY <1>1, <1>2, <1>3 DEF DeploymentInv

\* A job that starts or goes on covers what was numbered.
LEMMA NumbersKept ==
    ASSUME JobsInv, Numbers, NEW w \in Workers, NEW j, jobs' = [jobs EXCEPT ![w] = j],
           \A v \in Workers : v # w => ~Busy(v), UNCHANGED <<owed, edits>>,
           j = Idle \/ Numbered(j.covers)
    PROVE  Numbers'
<1>1. /\ DOMAIN jobs' = Workers /\ jobs'[w] = j
      /\ \A v \in Workers : v # w => jobs'[v] = Idle
  BY JobsAre
<1>2. \A v \in Workers : Busy(v)' => jobs'[v] = j /\ j # Idle
  BY <1>1 DEF Busy
<1>3. \A due : Numbered(due)' = Numbered(due)
  BY DEF Numbered
<1>4. \A v \in Workers : Busy(v)' => Numbered(jobs[v].covers)'
  <2>1. SUFFICES ASSUME NEW v \in Workers, Busy(v)' PROVE Numbered(jobs[v].covers)'
    OBVIOUS
  <2>2. jobs'[v] = j /\ Numbered(j.covers)
    BY <1>2, <2>1
  <2>3. QED
    BY <2>2 DEF Numbered
<1>5. QED
  BY <1>3, <1>4 DEF Numbers, Numbered

\* What hierarchies make is apart, by NamesApart.
LEMMA OneHierarchy ==
    ASSUME NEW i \in Accepting, NEW c, c = Catalogue(i)
    PROVE  \A k, l \in RaggedDims(c) :
             /\ ClosureOf(c, k).makes[2] = ClosureOf(c, l).makes[2] => k = l
             /\ ClosureOf(c, k) = ClosureOf(c, l) => k = l
             /\ ClosureOf(c, k).makes # EdgesOf(c, l).makes
             /\ EdgesOf(c, k).makes # <<"semantic", "scenarios">>
<1>1. NamesApart(c)
  BY InstancesAssumption
<1>2. \A k : ClosureOf(c, k).makes = <<"semantic", ClosureOf(c, k).makes[2]>>
  BY HierarchyParts
<1>3. \A k, l \in RaggedDims(c) :
        /\ ClosureOf(c, k).makes = ClosureOf(c, l).makes => k = l
        /\ ClosureOf(c, k).makes # EdgesOf(c, l).makes
        /\ EdgesOf(c, k).makes # <<"semantic", "scenarios">>
  BY <1>1 DEF NamesApart, ClosureOf, EdgesOf
<1>4. \A k, l : ClosureOf(c, k).makes[2] = ClosureOf(c, l).makes[2] => ClosureOf(c, k).makes = ClosureOf(c, l).makes
  BY <1>2
<1>5. QED
  BY <1>3, <1>4

\* A rebuild that starts: what it covers it does, and the rest is not owed.
LEMMA Started ==
    ASSUME Books, Fits(disk), UNCHANGED <<disk, store>>, \A x : Covered(x)' = Covered(x),
           NEW work, work.read = disk, work.rows = <<>>,
           NEW whole \in BOOLEAN, Rebuilds(work.todo, Now, whole),
           ~whole /\ Covered(work.covers) => Covered({})
    PROVE  Rebuilding(work)'
<1> DEFINE s == work.todo
<1>0. disk \in Accepting /\ Now = Catalogue(disk) /\ Now' = Now
  BY DEF Fits, Now
<1>1. IsSeq(s) /\ RebuildsOnly(s, Now)
  BY DEF Rebuilds, RebuildsOnly
<1>2. \A k, l \in RaggedDims(Now) : ClosureOf(Now, k) = ClosureOf(Now, l) => k = l
  BY <1>0, OneHierarchy
<1>3. \A k : (EdgesCurrent(k))' = EdgesCurrent(k)
  BY <1>0 DEF EdgesCurrent
<1>4. ASSUME Covered(work.covers)', NEW k \in RaggedDims(Now) PROVE Tracked(work, k)'
  <2>1. PICK n \in DOMAIN s : s[n] = ClosureOf(Now, k)
    BY DEF Rebuilds
  <2>2. ASSUME NEW m \in DOMAIN s, s[m] = ClosureOf(Now, k)
        PROVE  EdgesCurrent(k) \/ \E p \in DOMAIN s : p < m /\ Redefines(s[p], k)
    <3>1. CASE ~whole
      <4>1. Covered({})
        BY <3>1, <1>4
      <4>2. QED
        BY <4>1 DEF Books
    <3>2. CASE whole
      <4>1. s[m].act # "view"
        BY <2>2, HierarchyParts
      <4>2. PICK l \in RaggedDims(Now) : s[m] = ClosureOf(Now, l) /\ After(s, m, EdgesOf(Now, l))
        BY <4>1, <3>2 DEF Rebuilds
      <4>3. l = k
        BY <4>2, <2>2, <1>2
      <4>4. QED
        BY <4>2, <4>3, HierarchyParts DEF After, Redefines
    <3>3. QED
      BY <3>1, <3>2
  <2>3. EdgesCurrent(k) \/ \E p \in DOMAIN s : Redefines(s[p], k)
    BY <2>1, <2>2
  <2>4. \A p : Redefines(p, k)' = Redefines(p, k)
    BY <1>0 DEF Redefines
  <2> HIDE DEF s
  <2>5. QED
    BY <1>0, <1>3, <2>1, <2>2, <2>3, <2>4 DEF Tracked, s
<1>5. QED
  BY <1>0, <1>1, <1>4 DEF Rebuilding

\* A provisioning that starts.
LEMMA ProvisionKeeps ==
    ASSUME DeploymentInv, Serialised, Provision
    PROVE  DeploymentInv'
<1>1. PICK j : j = Job("provision", 0,
             LiveStatements(disk) \o ScenarioStatements \o <<Makes("catalogue", <<>>, {})>>, {})
  OBVIOUS
<1>2. "provisioner" \in Workers /\ JobsInv /\ jobs' = [jobs EXCEPT !["provisioner"] = j]
  BY <1>1 DEF Workers, Provision, DeploymentInv
<1>3. \A v \in Workers : v # "provisioner" => ~Busy(v)
  BY <1>2, Alone DEF Provision
<1>4. IsJob(j) /\ Preparing(j)
  <2>1. OnlyTables(j.todo)
    BY <1>1, TableSteps DEF Job, DeploymentInv, Directory
  <2>2. QED
    BY <1>1, <2>1 DEF IsJob, Preparing, Job
<1>5. JobsInv'
  BY <1>2, <1>3, <1>4, JobsKept
<1>6. Books' /\ Directory'
  BY SameBooks DEF Provision, DeploymentInv
<1>7. Numbers'
  <2>1. Numbered(j.covers)
    BY <1>4 DEF Preparing, Numbered
  <2>2. QED
    BY <1>2, <1>3, <2>1, NumbersKept DEF Provision, DeploymentInv
<1>8. QED
  BY <1>5, <1>6, <1>7 DEF DeploymentInv

\* A refresh that starts: it covers what is owed, or, where it leaves the views
\* alone, the rows.
LEMMA RefreshKeeps ==
    ASSUME DeploymentInv, Serialised, NEW provision \in BOOLEAN, RefreshCommand(provision)
    PROVE  DeploymentInv'
<1> DEFINE due == IF provision THEN owed ELSE RowsOnly(owed)
<1>1. PICK j : j = Job("refresh", disk, HierarchyStatements(Catalogue(disk), ~provision), due)
  OBVIOUS
<1>2. /\ "operator" \in Workers /\ JobsInv /\ jobs' = [jobs EXCEPT !["operator"] = j]
      /\ UNCHANGED <<disk, store, closures, contents, owed, edits>>
  BY <1>1 DEF Workers, RefreshCommand, DeploymentInv
<1>3. \A v \in Workers : v # "operator" => ~Busy(v)
  BY <1>2, Alone DEF RefreshCommand
<1>4. IsJob(j) /\ j.read = disk /\ j.rows = <<>> /\ j.covers = due
      /\ j.todo = HierarchyStatements(Catalogue(disk), ~provision)
  BY <1>1 DEF IsJob, Job
<1>5. Rebuilding(j)'
  <2>1. Fits(disk) /\ IsFiniteSet(DOMAIN Now.dims)
    BY InstancesAssumption DEF RefreshCommand, Fits, Now
  <2>2. Rebuilds(j.todo, Now, provision)
    <3>1. CASE provision = TRUE
      <4>1. Rebuilds(HierarchyStatements(Now, FALSE), Now, ~FALSE)
        BY <2>1, HierarchySteps
      <4>2. QED
        BY <3>1, <4>1, <1>4 DEF Now
    <3>2. CASE provision = FALSE
      <4>1. Rebuilds(HierarchyStatements(Now, TRUE), Now, ~TRUE)
        BY <2>1, HierarchySteps
      <4>2. QED
        BY <3>2, <4>1, <1>4 DEF Now
    <3>3. QED
      BY <3>1, <3>2
  <2>3. ~provision /\ Covered(j.covers) => Covered({})
    BY <1>4 DEF Covered, RowsOnly
  <2>4. \A x : Covered(x)' = Covered(x)
    BY <1>2 DEF Covered
  <2> HIDE DEF due
  <2>5. QED
    BY <1>2, <1>4, <2>1, <2>2, <2>3, <2>4, Started DEF DeploymentInv
<1>6. JobsInv'
  BY <1>2, <1>3, <1>4, <1>5, JobsKept
<1>7. Books' /\ Directory'
  BY <1>2, SameBooks DEF DeploymentInv
<1>8. Numbers'
  <2>1. Numbered(j.covers)
    BY <1>4 DEF DeploymentInv, Numbers, Numbered, RowsOnly
  <2> HIDE DEF due
  <2>2. QED
    BY <1>2, <1>3, <2>1, NumbersKept DEF DeploymentInv
<1>9. QED
  BY <1>6, <1>7, <1>8 DEF DeploymentInv

\* Rows published: every mapping of them is owed to the load's own refresh.
LEMMA PublishKeeps ==
    ASSUME DeploymentInv, Serialised, NEW w \in Loaders, NEW t \in DOMAIN Data, Publish(w, t)
    PROVE  DeploymentInv'
<1> DEFINE item == <<t, contents[t] + 1>>
<1>1. /\ w \in Workers /\ MayStart(w) /\ JobsInv
      /\ contents' = [contents EXCEPT ![t] = @ + 1] /\ owed' = owed \cup {item}
      /\ UNCHANGED <<disk, store, closures, edits>>
  BY DEF Publish, Workers, DeploymentInv
<1>2. item[1] # "definitions"
  BY DataAssumption
<1>3. \A x : Covered(x)' = Covered(x)
  BY <1>1, <1>2 DEF Covered
<1>4. Directory'
  <2>1. /\ DOMAIN contents = DOMAIN Data /\ contents[t] \in DOMAIN Data[t] /\ contents[t] < Len(Data[t])
        /\ IsSeq(Data[t])
    BY DataAssumption DEF Publish, DeploymentInv, Directory
  <2>2. DOMAIN Data[t] = 1 .. Len(Data[t]) /\ Len(Data[t]) \in Nat
    BY <2>1, LenProperties DEF IsSeq
  <2>3. contents[t] + 1 \in DOMAIN Data[t]
    BY <2>1, <2>2
  <2>4. \A u \in DOMAIN Data : contents'[u] \in DOMAIN Data[u]
    BY <1>1, <2>1, <2>3 DEF DeploymentInv, Directory
  <2>5. QED
    BY <1>1, <2>4 DEF DeploymentInv, Directory
<1>5. Books'
  <2>1. Now' = Now /\ \A k : EdgesCurrent(k)' = EdgesCurrent(k)
    BY <1>1 DEF Now, EdgesCurrent
  <2>2. owed' # {}
    BY <1>1
  <2>3. QED
    BY <1>1, <1>3, <2>1, <2>2 DEF DeploymentInv, Books, Fits
<1>6. Numbered(owed)'
  BY <1>1, <1>2 DEF DeploymentInv, Numbers, Numbered
<1>7. \A v \in Workers : ~Busy(v)
  BY <1>1 DEF MayStart
<1>8. CASE ~Fits(disk)
  <2>1. jobs' = jobs
    BY <1>8 DEF Publish
  <2>2. \A v \in Workers : ~Busy(v)'
    BY <2>1, <1>7 DEF Busy
  <2>3. QED
    BY <1>1, <1>4, <1>5, <1>6, <2>1, <2>2 DEF DeploymentInv, JobsInv, Numbers
<1>9. CASE Fits(disk)
  <2>1. PICK j : j = Job("load", disk, HierarchyStatements(Catalogue(disk), TRUE), RowsOnly(owed'))
    OBVIOUS
  <2>2. jobs' = [jobs EXCEPT ![w] = j]
    BY <1>9, <2>1 DEF Publish
  <2>3. /\ IsJob(j) /\ j.read = disk /\ j.rows = <<>> /\ j.covers = RowsOnly(owed')
        /\ j.todo = HierarchyStatements(Catalogue(disk), TRUE)
    BY <2>1 DEF IsJob, Job
  <2>4. Rebuilding(j)'
    <3>1. Rebuilds(j.todo, Now, FALSE)
      <4>1. IsFiniteSet(DOMAIN Now.dims)
        BY <1>9, InstancesAssumption DEF Fits, Now
      <4>2. Rebuilds(HierarchyStatements(Now, TRUE), Now, ~TRUE)
        BY <4>1, HierarchySteps
      <4>3. QED
        BY <2>3, <4>2 DEF Now
    <3>2. Covered(j.covers) => Covered({})
      BY <2>3, <1>1 DEF Covered, RowsOnly
    <3>3. QED
      BY <1>1, <1>3, <1>9, <2>3, <3>1, <3>2, Started DEF DeploymentInv
  <2>5. JobsInv'
    BY <1>1, <1>7, <2>2, <2>3, <2>4, JobsKept
  <2>6. Numbers'
    <3>1. Numbered(j.covers)'
      BY <1>6, <2>3 DEF RowsOnly, Numbered
    <3>2. DOMAIN jobs' = Workers /\ jobs'[w] = j /\ \A v \in Workers : v # w => jobs'[v] = Idle
      BY <1>1, <1>7, <2>2, JobsAre
    <3>3. \A v \in Workers : Busy(v)' => jobs'[v] = j
      BY <3>2 DEF Busy
    <3>4. QED
      BY <1>1, <1>6, <3>1, <3>3 DEF Numbers, Numbered, DeploymentInv
  <2>7. QED
    BY <1>4, <1>5, <2>5, <2>6 DEF DeploymentInv
<1>10. QED
  BY <1>8, <1>9

\* Jobs that end before their work is done.
LEMMA EndKeeps ==
    ASSUME DeploymentInv, Serialised, NEW w \in Workers, Busy(w), jobs' = [jobs EXCEPT ![w] = Idle],
           UNCHANGED <<disk, store, closures, contents, owed, edits>>
    PROVE  DeploymentInv'
<1>1. PICK j : j = Idle
  OBVIOUS
<1>2. JobsInv /\ jobs' = [jobs EXCEPT ![w] = j] /\ \A v \in Workers : v # w => ~Busy(v)
  BY <1>1, Alone DEF DeploymentInv
<1>3. JobsInv'
  BY <1>1, <1>2, JobsKept
<1>4. Books' /\ Directory'
  BY SameBooks DEF DeploymentInv
<1>5. Numbers'
  BY <1>1, <1>2, NumbersKept DEF DeploymentInv
<1>6. QED
  BY <1>3, <1>4, <1>5 DEF DeploymentInv

\* A job that dies.
LEMMA StopKeeps ==
    ASSUME DeploymentInv, Serialised, NEW w \in Workers, Stop(w)
    PROVE  DeploymentInv'
BY EndKeeps DEF Stop

\* The directory read by a provisioning: from here on it rebuilds.
LEMMA ReadKeeps ==
    ASSUME DeploymentInv, Serialised, NEW w \in Workers, ReadCatalogue(w)
    PROVE  DeploymentInv'
<1>1. CASE ~Fits(disk)
  BY <1>1, EndKeeps DEF ReadCatalogue, Runs
<1>2. CASE Fits(disk)
  <2>1. Busy(w) /\ JobsInv /\ IsJob(jobs[w]) /\ DOMAIN jobs = Workers
        /\ jobs[w].todo # <<>> /\ Due(w).act = "catalogue"
    BY DEF ReadCatalogue, Runs, DeploymentInv, JobsInv
  <2>2. PICK old : old = jobs[w]
    OBVIOUS
  <2>3. PICK j : j = [kind |-> old.kind, of |-> old.of, read |-> disk, todo |-> SemanticStatements(disk),
                      covers |-> owed, rows |-> old.rows]
    OBVIOUS
  <2>4. jobs' = [jobs EXCEPT ![w] = j]
    <3>1. jobs' = [jobs EXCEPT ![w] = [jobs[w] EXCEPT !.todo = SemanticStatements(disk), !.read = disk, !.covers = owed]]
      BY <1>2 DEF ReadCatalogue
    <3>2. \A s, i, c : [old EXCEPT !.todo = s, !.read = i, !.covers = c] =
             [kind |-> old.kind, of |-> old.of, read |-> i, todo |-> s, covers |-> c, rows |-> old.rows]
      <4>1. IsJob(old)
        BY <2>1, <2>2
      <4>2. QED
        BY <4>1, JobFields, Zenon
    <3>3. [old EXCEPT !.todo = SemanticStatements(disk), !.read = disk, !.covers = owed] = j
      BY <2>3, <3>2, Zenon
    <3>4. QED
      BY <2>2, <3>1, <3>3, Zenon
  <2>5. old.rows = <<>> /\ old.kind # "idle"
    <3>1. Preparing(old)
      <4>1. Preparing(old) \/ Rebuilding(old)
        BY <2>1, <2>2 DEF JobsInv
      <4>2. Rebuilding(old) => old.todo[1].act \in {"view", "closure"}
        <5>1. IsSeq(old.todo) => 1 \in DOMAIN old.todo
          BY <2>1, <2>2, TailIsSeq
        <5>2. QED
          BY <5>1, HierarchyParts DEF Rebuilding, RebuildsOnly
      <4>3. IsSeq(old.todo) => old.todo[1].act = "catalogue"
        BY <2>1, <2>2, TailIsSeq DEF Due
      <4>4. QED
        BY <4>1, <4>2, <4>3 DEF Rebuilding, RebuildsOnly
    <3>2. QED
      BY <2>1, <2>2, <3>1 DEF Preparing, IsJob
  <2>6. IsJob(j) /\ j.read = disk /\ j.rows = <<>> /\ j.covers = owed /\ j.todo = SemanticStatements(disk)
    BY <2>3, <2>5 DEF IsJob
  <2>7. UNCHANGED <<disk, store, closures, contents, owed, edits>>
    BY DEF ReadCatalogue
  <2>8. Rebuilding(j)'
    <3>1. Rebuilds(j.todo, Now, TRUE)
      BY <1>2, <2>6, SemanticSteps DEF Fits, Now
    <3>2. \A x : Covered(x)' = Covered(x)
      BY <2>7 DEF Covered
    <3>3. QED
      BY <1>2, <2>6, <2>7, <3>1, <3>2, Started DEF DeploymentInv
  <2>9. \A v \in Workers : v # w => ~Busy(v)
    BY <2>1, Alone
  <2>10. JobsInv'
    BY <2>1, <2>4, <2>6, <2>8, <2>9, JobsKept
  <2>11. Numbers'
    <3>1. Numbered(j.covers)
      BY <2>6 DEF DeploymentInv, Numbers
    <3>2. QED
      BY <2>4, <2>7, <2>9, <3>1, NumbersKept DEF DeploymentInv
  <2>12. Books' /\ Directory'
    BY <2>7, SameBooks DEF DeploymentInv
  <2>13. QED
    BY <2>10, <2>11, <2>12 DEF DeploymentInv
<1>3. QED
  BY <1>1, <1>2

\* A job that ends, and what it covered is not owed any more.
LEMMA CompleteKeeps ==
    ASSUME DeploymentInv, Serialised, NEW w \in Workers, Complete(w)
    PROVE  DeploymentInv'
<1>1. PICK j : j = Idle
  OBVIOUS
<1>2. PICK work : work = jobs[w]
  OBVIOUS
<1>3. /\ JobsInv /\ Busy(w) /\ jobs' = [jobs EXCEPT ![w] = j] /\ \A v \in Workers : v # w => ~Busy(v)
      /\ work.todo = <<>> /\ owed' = owed \ work.covers
      /\ UNCHANGED <<disk, store, closures, contents, edits>>
  BY <1>1, <1>2, Alone DEF DeploymentInv, Complete
<1>4. JobsInv'
  BY <1>1, <1>3, JobsKept
<1>5. Now' = Now /\ \A k : EdgesCurrent(k)' = EdgesCurrent(k) /\ ClosureCurrent(k)' = ClosureCurrent(k)
  <2>1. Now' = Now /\ \A k : Value(k)' = Value(k)
    BY <1>3, SameValues
  <2>2. QED
    BY <1>3, <2>1 DEF EdgesCurrent, ClosureCurrent
<1>6. Preparing(work) \/ Rebuilding(work)
  BY <1>2, <1>3 DEF JobsInv
<1>7. Books'
  <2>1. SUFFICES ASSUME Fits(disk)
                 PROVE  /\ Covered({})' => \A k \in RaggedDims(Now) : EdgesCurrent(k)
                        /\ owed' = {} => \A k \in RaggedDims(Now) : ClosureCurrent(k)
    BY <1>3, <1>5 DEF Books, Fits
  <2>2. Covered({})' => Covered(work.covers)
    BY <1>3 DEF Covered
  <2>3. owed' = {} => owed \subseteq work.covers
    BY <1>3
  <2>4. CASE Preparing(work)
    <3>1. owed' = owed
      BY <1>3, <2>4 DEF Preparing
    <3>2. Covered({})' => Covered({})
      BY <3>1 DEF Covered
    <3>3. QED
      BY <2>1, <3>1, <3>2 DEF DeploymentInv, Books
  <2>5. CASE Rebuilding(work)
    <3>1. DOMAIN work.todo = {}
      BY <1>3
    <3>2. ASSUME Covered(work.covers), NEW k \in RaggedDims(Now)
          PROVE  EdgesCurrent(k) /\ (owed \subseteq work.covers => ClosureCurrent(k))
      BY <2>5, <3>1, <3>2 DEF Rebuilding, Tracked
    <3>3. owed \subseteq work.covers => Covered(work.covers)
      BY DEF Covered
    <3>4. QED
      BY <2>2, <2>3, <3>2, <3>3
  <2>6. QED
    BY <1>6, <2>4, <2>5
<1>8. Directory'
  BY <1>3 DEF DeploymentInv, Directory
<1>9. Numbers'
  <2>1. DOMAIN jobs' = Workers /\ jobs'[w] = j /\ \A v \in Workers : v # w => jobs'[v] = Idle
    BY <1>3, JobsAre
  <2>2. \A v \in Workers : ~Busy(v)'
    BY <1>1, <2>1 DEF Busy
  <2>3. Numbered(owed)'
    BY <1>3 DEF DeploymentInv, Numbers, Numbered
  <2>4. QED
    BY <1>3, <2>2, <2>3 DEF Numbers, DeploymentInv
<1>10. QED
  BY <1>4, <1>7, <1>8, <1>9 DEF DeploymentInv

\* The directory replaced: its definitions are owed.
LEMMA EditKeeps ==
    ASSUME DeploymentInv, Serialised, NEW i \in Instances[disk].later, Edit(i)
    PROVE  DeploymentInv'
<1> DEFINE item == <<"definitions", edits + 1>>
<1>1. /\ disk' = i /\ edits' = edits + 1 /\ owed' = owed \cup {item}
      /\ jobs' = [w \in Workers |-> IF Busy(w) THEN [jobs[w] EXCEPT !.of = 0] ELSE jobs[w]]
      /\ UNCHANGED <<store, closures, contents>>
  BY DEF Edit
<1>2. edits \in Nat
  BY DEF DeploymentInv, Numbers
<1>3. ASSUME NEW x, Numbered(x) PROVE ~Covered(x)' /\ Numbered(x)'
  <2>1. item \notin x
    BY <1>2, <1>3 DEF Numbered
  <2>2. Numbered(x)'
    BY <1>1, <1>2, <1>3 DEF Numbered
  <2>3. QED
    BY <1>1, <2>1, <2>2 DEF Covered
<1>4. ~Covered({})' /\ owed' # {}
  BY <1>1, <1>3 DEF Numbered
<1>5. Books'
  BY <1>4 DEF Books
<1>6. Directory'
  BY <1>1, InstancesAssumption DEF DeploymentInv, Directory
<1>7. ASSUME NEW w \in Workers
      PROVE  /\ Busy(w)' = Busy(w)
             /\ Busy(w) => /\ IsJob(jobs[w])' /\ Numbered(jobs[w].covers)'
                           /\ Preparing(jobs[w])' \/ Rebuilding(jobs[w])'
  <2>1. CASE ~Busy(w)
    BY <1>1, <2>1 DEF Busy
  <2>2. CASE Busy(w)
    <3>1. PICK work : work = jobs[w]
      OBVIOUS
    <3>2. IsJob(work) /\ Numbered(work.covers) /\ (Preparing(work) \/ Rebuilding(work))
      BY <2>2, <3>1 DEF DeploymentInv, JobsInv, Numbers
    <3>3. PICK j : j = [kind |-> work.kind, of |-> 0, read |-> work.read, todo |-> work.todo,
                        covers |-> work.covers, rows |-> work.rows]
      OBVIOUS
    <3>4. jobs'[w] = j
      <4>1. jobs'[w] = [work EXCEPT !.of = 0]
        BY <1>1, <2>2, <3>1
      <4>2. [work EXCEPT !.of = 0] = j
        BY <3>2, <3>3, JobFields
      <4>3. QED
        BY <4>1, <4>2
    <3>5. IsJob(j) /\ j # Idle /\ j.covers = work.covers /\ j.todo = work.todo /\ j.rows = work.rows /\ j.read = work.read
      BY <3>2, <3>3 DEF IsJob, Idle
    <3>6. Numbered(j.covers)' /\ ~Covered(j.covers)'
      BY <3>2, <3>5, <1>3
    <3>7. Preparing(work) => Preparing(j)
      BY <3>5 DEF Preparing
    <3>8. Rebuilding(work) => Rebuilding(j)'
      BY <3>5, <3>6 DEF Rebuilding
    <3>9. Preparing(jobs[w])' \/ Rebuilding(jobs[w])'
      <4>1. Preparing(j)' \/ Rebuilding(j)'
        BY <3>2, <3>7, <3>8 DEF Preparing, OnlyTables
      <4>2. QED
        BY <3>4, <4>1
    <3>10. IsJob(jobs[w])' /\ Busy(w)' /\ Numbered(jobs[w].covers)'
      BY <3>4, <3>5, <3>6 DEF IsJob, Busy, Numbered
    <3>11. QED
      BY <2>2, <3>9, <3>10
  <2>3. QED
    BY <2>1, <2>2
<1>8. DOMAIN jobs' = Workers
  BY <1>1
<1>9. JobsInv'
  BY <1>7, <1>8 DEF DeploymentInv, JobsInv
<1>10. Numbers'
  <2>1. Numbered(owed)'
    BY <1>1, <1>2 DEF DeploymentInv, Numbers, Numbered
  <2>2. edits' \in Nat
    BY <1>1, <1>2
  <2>3. QED
    BY <2>1, <2>2, <1>7 DEF Numbers
<1>11. QED
  BY <1>5, <1>6, <1>9, <1>10 DEF DeploymentInv

\* A statement done is one less left to do.
LEMMA TrackedOn ==
    ASSUME NEW work, NEW k, IsSeq(work.todo), work.todo # <<>>, Tracked(work, k), UNCHANGED <<disk, contents, owed>>,
           EdgesCurrent(k) \/ Redefines(work.todo[1], k) => EdgesCurrent(k)',
           ClosureCurrent(k) \/ work.todo[1] = ClosureOf(Now, k) => ClosureCurrent(k)'
    PROVE  Tracked(Moved(work), k)'
<1> DEFINE s == work.todo
           t == Tail(s)
<1>1. /\ \A n \in DOMAIN t : n + 1 \in DOMAIN s /\ t[n] = s[n + 1] /\ n \in Nat
      /\ \A n \in DOMAIN s : n \in Nat /\ (n = 1 \/ (n - 1 \in DOMAIN t /\ t[n - 1] = s[n]))
  BY TailIsSeq
<1>2. Now' = Now /\ (\A x : Redefines(x, k)' = Redefines(x, k)) /\ Moved(work).todo = t /\ Moved(work).covers = work.covers
  BY DEF Now, Redefines, Moved
<1> HIDE DEF t, s
<1>3. EdgesCurrent(k)' \/ \E n \in DOMAIN t : Redefines(t[n], k)
  <2>1. CASE EdgesCurrent(k)
    BY <2>1
  <2>2. CASE ~EdgesCurrent(k)
    <3>1. PICK n \in DOMAIN s : Redefines(s[n], k)
      BY <2>2 DEF Tracked, s
    <3>2. QED
      BY <3>1, <1>1 DEF s
  <2>3. QED
    BY <2>1, <2>2
<1>4. ASSUME NEW n \in DOMAIN t, t[n] = ClosureOf(Now, k)
      PROVE  EdgesCurrent(k)' \/ \E m \in DOMAIN t : m < n /\ Redefines(t[m], k)
  <2>1. n + 1 \in DOMAIN s /\ s[n + 1] = ClosureOf(Now, k)
    BY <1>1, <1>4
  <2>2. CASE EdgesCurrent(k)
    BY <2>2
  <2>3. CASE ~EdgesCurrent(k)
    <3>1. PICK m \in DOMAIN s : m < n + 1 /\ Redefines(s[m], k)
      BY <2>1, <2>3 DEF Tracked, s
    <3>2. CASE m = 1
      BY <3>1, <3>2 DEF s
    <3>3. CASE m # 1
      <4>1. m - 1 \in DOMAIN t /\ t[m - 1] = s[m] /\ m - 1 < n
        BY <1>1, <3>1, <3>3
      <4>2. QED
        BY <4>1, <3>1
    <3>4. QED
      BY <3>2, <3>3
  <2>4. QED
    BY <2>2, <2>3
<1>5. ASSUME owed \subseteq work.covers
      PROVE  ClosureCurrent(k)' \/ \E n \in DOMAIN t : t[n] = ClosureOf(Now, k)
  <2>1. CASE ClosureCurrent(k)
    BY <2>1
  <2>2. CASE ~ClosureCurrent(k)
    <3>1. PICK n \in DOMAIN s : s[n] = ClosureOf(Now, k)
      BY <1>5, <2>2 DEF Tracked, s
    <3>2. QED
      BY <3>1, <1>1 DEF s
  <2>3. QED
    BY <2>1, <2>2
<1>6. QED
  BY <1>2, <1>3, <1>4, <1>5 DEF Tracked

\* A statement done: the rest of the job still does what is left to do.
LEMMA AdvanceKeeps ==
    ASSUME DeploymentInv, Serialised, NEW w \in Workers, Busy(w), NEW work, work = jobs[w], work.todo # <<>>,
           jobs' = Advanced(w), UNCHANGED <<disk, contents, owed, edits>>,
           ASSUME Fits(disk), Covered(work.covers), NEW k \in RaggedDims(Now)
           PROVE  /\ EdgesCurrent(k) \/ Redefines(work.todo[1], k) => EdgesCurrent(k)'
                  /\ ClosureCurrent(k) \/ work.todo[1] = ClosureOf(Now, k) => ClosureCurrent(k)'
    PROVE  DeploymentInv'
<1>1. JobsInv /\ IsJob(work) /\ DOMAIN jobs = Workers /\ \A v \in Workers : v # w => ~Busy(v)
  BY Alone DEF DeploymentInv, JobsInv
<1>2. PICK j : j = Moved(work)
  OBVIOUS
<1>3. jobs' = [jobs EXCEPT ![w] = j]
  <2>1. jobs' = [jobs EXCEPT ![w] = [work EXCEPT !.todo = Tail(@), !.rows = <<>>]]
    BY DEF Advanced
  <2>2. QED
    BY <2>1, <1>1, <1>2, JobFields
<1>4. IsJob(j)
  BY <1>1, <1>2, JobFields
<1>5. \A x : Covered(x)' = Covered(x)
  BY DEF Covered
<1>6. Now' = Now
  BY DEF Now
<1>7. ASSUME Preparing(work) PROVE Preparing(j)
  <2>1. /\ IsSeq(Tail(work.todo))
        /\ \A n \in DOMAIN Tail(work.todo) : n + 1 \in DOMAIN work.todo /\ Tail(work.todo)[n] = work.todo[n + 1]
    BY <1>7, TailIsSeq DEF Preparing, OnlyTables
  <2>2. OnlyTables(Tail(work.todo))
    BY <1>7, <2>1 DEF Preparing, OnlyTables
  <2>3. QED
    BY <1>2, <1>7, <2>2 DEF Preparing, Moved
<1>8. ASSUME Rebuilding(work) PROVE Rebuilding(j)'
  <2>1. j.rows = <<>> /\ j.read = work.read /\ j.covers = work.covers /\ j.todo = Tail(work.todo)
    BY <1>2 DEF Moved
  <2>2. IsSeq(work.todo)
    BY <1>8 DEF Rebuilding, RebuildsOnly
  <2>3. RebuildsOnly(j.todo, Catalogue(j.read))
    <3>1. /\ IsSeq(Tail(work.todo))
          /\ \A n \in DOMAIN Tail(work.todo) : n + 1 \in DOMAIN work.todo /\ Tail(work.todo)[n] = work.todo[n + 1]
      BY <2>2, TailIsSeq
    <3>2. QED
      BY <1>8, <2>1, <3>1 DEF Rebuilding, RebuildsOnly
  <2>4. ASSUME Covered(work.covers), NEW k \in RaggedDims(Now) PROVE Tracked(j, k)'
    <3>1. Fits(disk) /\ Tracked(work, k)
      BY <1>8, <2>4 DEF Rebuilding, Fits
    <3>2. /\ EdgesCurrent(k) \/ Redefines(work.todo[1], k) => EdgesCurrent(k)'
          /\ ClosureCurrent(k) \/ work.todo[1] = ClosureOf(Now, k) => ClosureCurrent(k)'
      BY <2>4, <3>1
    <3>3. Tracked(Moved(work), k)'
      BY <2>2, <3>1, <3>2, TrackedOn
    <3>4. QED
      BY <1>2, <3>3
  <2>5. QED
    BY <1>5, <1>6, <1>8, <2>1, <2>3, <2>4 DEF Rebuilding
<1>9. JobsInv'
  <2>1. CASE Preparing(work)
    BY <1>7, <2>1, <1>1, <1>3, <1>4, JobsKept
  <2>2. CASE Rebuilding(work)
    BY <1>8, <2>2, <1>1, <1>3, <1>4, JobsKept
  <2>3. QED
    BY <1>1, <2>1, <2>2 DEF JobsInv
<1>10. Numbers'
  <2>1. Numbered(j.covers)
    BY <1>2 DEF Moved, DeploymentInv, Numbers
  <2>2. QED
    BY <1>1, <1>3, <2>1, NumbersKept DEF DeploymentInv
<1>11. Directory'
  BY DEF DeploymentInv, Directory
<1>12. Books'
  <2>1. SUFFICES ASSUME Fits(disk)
                 PROVE  /\ Covered({}) => \A k \in RaggedDims(Now) : EdgesCurrent(k)'
                        /\ owed = {} => \A k \in RaggedDims(Now) : ClosureCurrent(k)'
    BY <1>5, <1>6 DEF Books, Fits
  <2>2. (Covered({}) => Covered(work.covers)) /\ (owed = {} => Covered(work.covers))
    BY DEF Covered
  <2>3. ASSUME Covered({}), NEW k \in RaggedDims(Now) PROVE EdgesCurrent(k)'
    BY <2>1, <2>2, <2>3 DEF DeploymentInv, Books
  <2>4. ASSUME owed = {}, NEW k \in RaggedDims(Now) PROVE ClosureCurrent(k)'
    BY <2>1, <2>2, <2>4 DEF DeploymentInv, Books
  <2>5. QED
    BY <2>3, <2>4
<1>13. QED
  BY <1>9, <1>10, <1>11, <1>12 DEF DeploymentInv

\* What a relation made leaves and gives.
LEMMA EdgesEnsured ==
    ASSUME NEW k, NEW x, store' = Ensured(store, x, 0), disk' = disk, Now' = Now,
           EdgesOf(Now, k).makes # x, EdgesCurrent(k)
    PROVE  EdgesCurrent(k)'
<1>1. PICK e : e = EdgesOf(Now, k).makes
  OBVIOUS
<1>2. e \in DOMAIN store => store[e] = disk
  BY <1>1 DEF EdgesCurrent
<1>3. e \in DOMAIN store' => e \in DOMAIN store /\ store'[e] = store[e]
  BY <1>1 DEF Ensured, Replaced
<1>4. QED
  BY <1>1, <1>2, <1>3 DEF EdgesCurrent

\* A view made or made again is the present catalogue's.
LEMMA EdgesReplaced ==
    ASSUME NEW k, NEW x, store' = Replaced(store, x, disk), disk' = disk, Now' = Now
    PROVE  EdgesCurrent(k) \/ EdgesOf(Now, k).makes = x => EdgesCurrent(k)'
<1>1. PICK e : e = EdgesOf(Now, k).makes
  OBVIOUS
<1>2. EdgesCurrent(k) => (e \in DOMAIN store => store[e] = disk)
  BY <1>1 DEF EdgesCurrent
<1>3. DOMAIN store' = DOMAIN store \cup {x} /\ store'[x] = disk
      /\ \A y \in DOMAIN store : y # x => store'[y] = store[y]
  BY DEF Replaced
<1>4. EdgesCurrent(k) \/ e = x => (e \in DOMAIN store' => store'[e] = disk)
  BY <1>2, <1>3
<1>5. QED
  BY <1>1, <1>4 DEF EdgesCurrent

\* What the first statement of a job can be.
LEMMA FirstOf ==
    ASSUME DeploymentInv, NEW w \in Workers, NEW work, work = jobs[w], Busy(w), work.todo # <<>>
    PROVE  /\ IsJob(work) /\ Due(w) = work.todo[1]
           /\ \/ Preparing(work) /\ work.todo[1].act \in {"table", "seed", "catalogue"}
                 /\ (work.todo[1].act = "table" =>
                       work.todo[1].makes[1] \in {"live", "staging"} \/ work.todo[1].makes = <<"semantic", "scenarios">>)
              \/ Rebuilding(work) /\ (work.todo[1].act = "view"
                   \/ \E k \in RaggedDims(Catalogue(work.read)) : work.todo[1] = ClosureOf(Catalogue(work.read), k))
<1>1. IsJob(work) /\ (Preparing(work) \/ Rebuilding(work))
  BY DEF DeploymentInv, JobsInv
<1>2. IsSeq(work.todo)
  BY <1>1 DEF Preparing, OnlyTables, Rebuilding, RebuildsOnly
<1>3. Due(w) = work.todo[1] /\ 1 \in DOMAIN work.todo
  BY <1>2, TailIsSeq DEF Due
<1>4. CASE Preparing(work)
  BY <1>1, <1>3, <1>4 DEF Preparing, OnlyTables
<1>5. CASE Rebuilding(work)
  BY <1>1, <1>3, <1>5 DEF Rebuilding, RebuildsOnly
<1>6. QED
  BY <1>1, <1>4, <1>5

\* CREATE TABLE IF NOT EXISTS.
LEMMA TableKeeps ==
    ASSUME DeploymentInv, Serialised, NEW w \in Workers, CreateTable(w)
    PROVE  DeploymentInv'
<1>1. PICK work : work = jobs[w]
  OBVIOUS
<1>2. /\ Busy(w) /\ work.todo # <<>> /\ Due(w).act = "table" /\ store' = Ensured(store, Due(w).makes, 0)
      /\ jobs' = Advanced(w) /\ UNCHANGED <<disk, contents, closures, owed, edits>>
  BY <1>1 DEF CreateTable, Runs
<1>3. Due(w) = work.todo[1]
      /\ (work.todo[1].makes[1] \in {"live", "staging"} \/ work.todo[1].makes = <<"semantic", "scenarios">>)
  <2>1. \A k : ClosureOf(Catalogue(work.read), k).act # "table"
    BY HierarchyParts
  <2>2. Due(w) = work.todo[1]
    BY <1>1, <1>2, FirstOf
  <2>3. work.todo[1].act = "table"
    BY <1>2, <2>2
  <2>4. QED
    BY <1>1, <1>2, <2>1, <2>2, <2>3, FirstOf
<1>4. ASSUME Fits(disk), NEW k \in RaggedDims(Now)
      PROVE  /\ EdgesCurrent(k) \/ Redefines(work.todo[1], k) => EdgesCurrent(k)'
             /\ ClosureCurrent(k) \/ work.todo[1] = ClosureOf(Now, k) => ClosureCurrent(k)'
  <2>1. Now' = Now /\ Value(k)' = Value(k)
    BY <1>2, SameValues
  <2>2. EdgesOf(Now, k).makes # Due(w).makes
    <3>1. EdgesOf(Now, k).makes # <<"semantic", "scenarios">> /\ EdgesOf(Now, k).makes[1] = "semantic"
      BY <1>4, OneHierarchy, HierarchyParts DEF Fits, Now
    <3>2. QED
      BY <1>3, <3>1
  <2>3. EdgesCurrent(k) => EdgesCurrent(k)'
    BY <1>2, <2>1, <2>2, EdgesEnsured
  <2>4. ClosureCurrent(k)' = ClosureCurrent(k)
    BY <1>2, <2>1 DEF ClosureCurrent
  <2>5. ~Redefines(work.todo[1], k) /\ work.todo[1] # ClosureOf(Now, k)
    BY <1>2, <1>3, HierarchyParts DEF Redefines
  <2>6. QED
    BY <2>3, <2>4, <2>5
<1>5. QED
  BY <1>1, <1>2, <1>4, AdvanceKeeps

\* CREATE OR REPLACE VIEW.
LEMMA ViewKeeps ==
    ASSUME DeploymentInv, Serialised, NEW w \in Workers, CreateView(w)
    PROVE  DeploymentInv'
<1>1. PICK work : work = jobs[w]
  OBVIOUS
<1>2. /\ Busy(w) /\ work.todo # <<>> /\ Due(w).act = "view" /\ store' = Replaced(store, Due(w).makes, work.read)
      /\ jobs' = Advanced(w) /\ UNCHANGED <<disk, contents, closures, owed, edits>>
  BY <1>1 DEF CreateView, Runs
<1>3. Due(w) = work.todo[1] /\ Rebuilding(work)
  BY <1>1, <1>2, FirstOf
<1>4. ASSUME Fits(disk), Covered(work.covers), NEW k \in RaggedDims(Now)
      PROVE  /\ EdgesCurrent(k) \/ Redefines(work.todo[1], k) => EdgesCurrent(k)'
             /\ ClosureCurrent(k) \/ work.todo[1] = ClosureOf(Now, k) => ClosureCurrent(k)'
  <2>1. Now' = Now /\ Value(k)' = Value(k)
    BY <1>2, SameValues
  <2>2. work.read = disk
    BY <1>3, <1>4 DEF Rebuilding
  <2>3. EdgesCurrent(k) => EdgesCurrent(k)'
    BY <1>2, <2>1, <2>2, EdgesReplaced
  <2>4. Redefines(work.todo[1], k) => EdgesCurrent(k)'
    BY <1>2, <1>3, <2>1, <2>2, EdgesReplaced DEF Redefines
  <2>5. ClosureCurrent(k)' = ClosureCurrent(k)
    BY <1>2, <2>1 DEF ClosureCurrent
  <2>6. work.todo[1] # ClosureOf(Now, k)
    BY <1>2, <1>3, HierarchyParts
  <2>7. QED
    BY <2>3, <2>4, <2>5, <2>6
<1>5. QED
  BY <1>1, <1>2, <1>4, AdvanceKeeps

\* The scenarios of a file seeded.
LEMMA SeedKeeps ==
    ASSUME DeploymentInv, Serialised, NEW w \in Workers, SeedScenarios(w)
    PROVE  DeploymentInv'
<1>1. PICK work : work = jobs[w]
  OBVIOUS
<1>2. /\ Busy(w) /\ work.todo # <<>> /\ Due(w).act = "seed"
      /\ jobs' = [jobs EXCEPT ![w] = Idle] \/ jobs' = Advanced(w)
      /\ UNCHANGED <<disk, store, contents, closures, owed, edits>>
  BY <1>1 DEF SeedScenarios, Runs
<1>3. CASE jobs' = [jobs EXCEPT ![w] = Idle]
  BY <1>2, <1>3, EndKeeps
<1>4. CASE jobs' = Advanced(w)
  <2>1. Due(w) = work.todo[1]
    BY <1>1, <1>2, FirstOf
  <2>2. ASSUME NEW k \in RaggedDims(Now)
        PROVE  /\ EdgesCurrent(k) \/ Redefines(work.todo[1], k) => EdgesCurrent(k)'
               /\ ClosureCurrent(k) \/ work.todo[1] = ClosureOf(Now, k) => ClosureCurrent(k)'
    <3>1. EdgesCurrent(k)' = EdgesCurrent(k) /\ ClosureCurrent(k)' = ClosureCurrent(k)
      BY <1>2, SameBooks
    <3>2. ~Redefines(work.todo[1], k) /\ work.todo[1] # ClosureOf(Now, k)
      BY <1>2, <2>1, HierarchyParts DEF Redefines
    <3>3. QED
      BY <3>1, <3>2
  <2>3. QED
    BY <1>1, <1>2, <1>4, <2>2, AdvanceKeeps
<1>5. QED
  BY <1>2, <1>3, <1>4

\* A mapping's rows computed.
LEMMA BuildKeeps ==
    ASSUME DeploymentInv, Serialised, NEW w \in Workers, BuildClosure(w)
    PROVE  DeploymentInv'
<1>1. PICK work : work = jobs[w]
  OBVIOUS
<1>2. PICK r : r = <<Built(Catalogue(work.read), Due(w))>>
  OBVIOUS
<1>3. PICK j : j = [kind |-> work.kind, of |-> work.of, read |-> work.read, todo |-> work.todo,
                    covers |-> work.covers, rows |-> r]
  OBVIOUS
<1>4. /\ Busy(w) /\ work.todo # <<>> /\ Due(w).act = "closure" /\ Due(w).needs \subseteq DOMAIN store
      /\ UNCHANGED <<disk, store, contents, closures, owed, edits>>
      /\ jobs' = [jobs EXCEPT ![w].rows = r]
  BY <1>1, <1>2 DEF BuildClosure, Runs
<1>5. JobsInv /\ DOMAIN jobs = Workers /\ \A v \in Workers : v # w => ~Busy(v)
  BY <1>4, Alone DEF DeploymentInv, JobsInv
<1>6. /\ IsJob(work) /\ Due(w) = work.todo[1] /\ Rebuilding(work)
      /\ \E k \in RaggedDims(Catalogue(work.read)) : work.todo[1] = ClosureOf(Catalogue(work.read), k)
  BY <1>1, <1>4, FirstOf
<1>7. jobs' = [jobs EXCEPT ![w] = j]
  <2>1. jobs' = [jobs EXCEPT ![w] = [work EXCEPT !.rows = r]]
    BY <1>1, <1>4
  <2>2. [work EXCEPT !.rows = r] = j
    BY <1>3, <1>6, JobFields
  <2>3. QED
    BY <2>1, <2>2
<1>8. IsJob(j) /\ j.todo = work.todo /\ j.read = work.read /\ j.covers = work.covers /\ j.rows = r /\ j.of = work.of
  BY <1>3, <1>6 DEF IsJob
<1>9. PICK k \in RaggedDims(Catalogue(work.read)) : work.todo[1] = ClosureOf(Catalogue(work.read), k)
  BY <1>6
<1>10. ASSUME Covered(work.covers) PROVE r[1] = Value(k)
  <2>1. work.read = disk /\ disk \in Accepting /\ k \in RaggedDims(Now) /\ Due(w) = ClosureOf(Now, k)
    BY <1>6, <1>9, <1>10 DEF Rebuilding, Now
  <2>2. EdgesCurrent(k)
    <3>1. IsSeq(work.todo)
      BY <1>6 DEF Rebuilding, RebuildsOnly
    <3>2. 1 \in DOMAIN work.todo /\ \A n \in DOMAIN work.todo : n \in Nat \ {0}
      BY <1>4, <3>1, TailIsSeq
    <3>3. \A n \in DOMAIN work.todo : ~(n < 1)
      BY <3>2
    <3>4. QED
      BY <1>6, <1>10, <2>1, <3>2, <3>3 DEF Rebuilding, Tracked
  <2>3. EdgesOf(Now, k).makes \in DOMAIN store
    BY <1>4, <2>1, HierarchyParts
  <2>4. store[EdgesOf(Now, k).makes] = disk
    BY <2>2, <2>3 DEF EdgesCurrent
  <2>5. \A x \in RaggedDims(Now) : Hierarchy(Now, x).closure = Due(w) <=> x = k
    BY <2>1, OneHierarchy DEF Now, ClosureOf
  <2>6. (CHOOSE x \in RaggedDims(Now) : Hierarchy(Now, x).closure = Due(w)) = k
    BY <2>1, <2>5
  <2>7. Built(Now, Due(w)) = Rollup(EdgesNow(Now, k), LeavesNow(Now, k))
    BY <2>4, <2>6 DEF Built, Now, EdgesOf
  <2>8. QED
    BY <1>2, <2>1, <2>7 DEF Value, Now
<1>11. /\ \A x : Covered(x)' = Covered(x)
       /\ Now' = Now /\ \A x : Value(x)' = Value(x)
       /\ \A x, y : Tracked(x, y)' = Tracked(x, y)
  BY <1>4, SameBooks, SameValues
<1>12. \A x : Tracked(j, x) <=> Tracked(work, x)
  BY <1>8 DEF Tracked
<1>13. Rebuilding(j)'
  BY <1>4, <1>6, <1>8, <1>9, <1>10, <1>11, <1>12 DEF Rebuilding
<1>14. JobsInv'
  BY <1>5, <1>7, <1>8, <1>13, JobsKept
<1>15. Books' /\ Directory'
  BY <1>4, SameBooks DEF DeploymentInv
<1>16. Numbers'
  <2>1. Numbered(j.covers)
    BY <1>1, <1>4, <1>8 DEF DeploymentInv, Numbers
  <2>2. QED
    BY <1>4, <1>5, <1>7, <2>1, NumbersKept DEF DeploymentInv
<1>17. QED
  BY <1>14, <1>15, <1>16 DEF DeploymentInv

\* A mapping's rows put in place of the old ones.
LEMMA ReplaceKeeps ==
    ASSUME DeploymentInv, Serialised, NEW w \in Workers, ReplaceClosure(w)
    PROVE  DeploymentInv'
<1>1. PICK work : work = jobs[w]
  OBVIOUS
<1>2. /\ Busy(w) /\ work.todo # <<>> /\ Due(w).act = "closure" /\ work.rows # <<>>
      /\ closures' = Replaced(closures, Due(w).makes[2], work.rows[1])
      /\ store' = Ensured(store, Due(w).makes, 0)
      /\ jobs' = Advanced(w) /\ UNCHANGED <<disk, contents, owed, edits>>
  BY <1>1 DEF ReplaceClosure, Runs
<1>3. IsJob(work) /\ Due(w) = work.todo[1] /\ Rebuilding(work)
  BY <1>1, <1>2, FirstOf
<1>4. ASSUME Fits(disk), Covered(work.covers), NEW k \in RaggedDims(Now)
      PROVE  /\ EdgesCurrent(k) \/ Redefines(work.todo[1], k) => EdgesCurrent(k)'
             /\ ClosureCurrent(k) \/ work.todo[1] = ClosureOf(Now, k) => ClosureCurrent(k)'
  <2>1. Now' = Now /\ Value(k)' = Value(k) /\ disk \in Accepting
    BY <1>2, <1>4, SameValues DEF Fits
  <2>2. PICK l \in RaggedDims(Now) : work.todo[1] = ClosureOf(Now, l) /\ work.rows[1] = Value(l)
    BY <1>2, <1>3, <1>4 DEF Rebuilding, Now
  <2>3. EdgesOf(Now, k).makes # Due(w).makes
    BY <1>3, <2>1, <2>2, OneHierarchy DEF Now
  <2>4. EdgesCurrent(k) => EdgesCurrent(k)'
    BY <1>2, <2>1, <2>3, EdgesEnsured
  <2>5. ~Redefines(work.todo[1], k)
    BY <1>2, <1>3 DEF Redefines
  <2>6. ClosureOf(Now, k).makes[2] = ClosureOf(Now, l).makes[2] => k = l
    BY <2>1, OneHierarchy DEF Now
  <2>7. PICK x : x = ClosureOf(Now, k).makes[2]
    OBVIOUS
  <2>8. PICK y : y = Due(w).makes[2]
    OBVIOUS
  <2>9. ClosureCurrent(k) => (x \in DOMAIN closures => closures[x] = Value(k))
    BY <2>7 DEF ClosureCurrent
  <2>10. DOMAIN closures' = DOMAIN closures \cup {y} /\ closures'[y] = work.rows[1]
         /\ \A z \in DOMAIN closures : z # y => closures'[z] = closures[z]
    BY <1>2, <2>8 DEF Replaced
  <2>11. x = y => k = l
    BY <1>3, <2>2, <2>6, <2>7, <2>8
  <2>12. k = l => x = y /\ work.rows[1] = Value(k)
    BY <1>3, <2>2, <2>7, <2>8
  <2>13. ClosureCurrent(k) \/ k = l => (x \in DOMAIN closures' => closures'[x] = Value(k))
    BY <2>9, <2>10, <2>11, <2>12
  <2>14. work.todo[1] = ClosureOf(Now, k) => k = l
    <3>1. \A a, b \in RaggedDims(Now) : ClosureOf(Now, a) = ClosureOf(Now, b) => a = b
      BY <2>1, OneHierarchy DEF Now
    <3>2. QED
      BY <2>2, <3>1
  <2>15. (x \in DOMAIN closures' => closures'[x] = Value(k)) => ClosureCurrent(k)'
    BY <2>1, <2>7 DEF ClosureCurrent
  <2>16. QED
    BY <2>4, <2>5, <2>13, <2>14, <2>15
<1>5. QED
  BY <1>1, <1>2, <1>4, AdvanceKeeps

\* The invariant holds at the start and every step keeps it, where no two jobs
\* overlap.
LEMMA DeploymentInductive ==
    ASSUME Serialised
    PROVE  /\ DeploymentInit => DeploymentInv
           /\ DeploymentInv /\ [DeploymentNext]_deploymentVars => DeploymentInv'
<1>1. ASSUME DeploymentInit PROVE DeploymentInv
  <2>1. /\ disk \in DOMAIN Instances /\ store = <<>> /\ closures = <<>> /\ owed = {} /\ edits = 0
        /\ contents = [t \in DOMAIN Data |-> 1] /\ jobs = [w \in Workers |-> Idle]
    BY <1>1 DEF DeploymentInit
  <2>2. JobsInv /\ Numbers
    BY <2>1 DEF JobsInv, Numbers, Numbered, Busy
  <2>3. \A t \in DOMAIN Data : 1 \in DOMAIN Data[t]
    BY DataAssumption, TailIsSeq
  <2>4. Directory
    BY <2>1, <2>3 DEF Directory
  <2>5. Books
    BY <2>1 DEF Books, EdgesCurrent, ClosureCurrent
  <2>6. QED
    BY <2>2, <2>4, <2>5 DEF DeploymentInv
<1>2. ASSUME DeploymentInv, DeploymentNext PROVE DeploymentInv'
  <2>1. CASE \/ ColdStart \/ Reload \/ (\E call \in Calls : Ask(call))
             \/ (\E search \in Searches : Search(search)) \/ Answered
    BY <1>2, <2>1, Elsewhere DEF ColdStart, Reload, Ask, Search, Answered
  <2>2. CASE Provision
    BY <1>2, <2>2, ProvisionKeeps
  <2>3. CASE \E i \in Instances[disk].later : Edit(i)
    BY <1>2, <2>3, EditKeeps
  <2>4. CASE \E provision \in BOOLEAN : RefreshCommand(provision)
    BY <1>2, <2>4, RefreshKeeps
  <2>5. CASE \E w \in Loaders, t \in DOMAIN Data : Publish(w, t)
    BY <1>2, <2>5, PublishKeeps
  <2>6. CASE \E w \in Workers : CreateTable(w)
    BY <1>2, <2>6, TableKeeps
  <2>7. CASE \E w \in Workers : CreateView(w)
    BY <1>2, <2>7, ViewKeeps
  <2>8. CASE \E w \in Workers : SeedScenarios(w)
    BY <1>2, <2>8, SeedKeeps
  <2>9. CASE \E w \in Workers : ReadCatalogue(w)
    BY <1>2, <2>9, ReadKeeps
  <2>10. CASE \E w \in Workers : BuildClosure(w)
    BY <1>2, <2>10, BuildKeeps
  <2>11. CASE \E w \in Workers : ReplaceClosure(w)
    BY <1>2, <2>11, ReplaceKeeps
  <2>12. CASE \E w \in Workers : Complete(w)
    BY <1>2, <2>12, CompleteKeeps
  <2>13. CASE \E w \in Workers : Stop(w)
    BY <1>2, <2>13, StopKeeps
  <2>14. QED
    BY <1>2, <2>1, <2>2, <2>3, <2>4, <2>5, <2>6, <2>7, <2>8, <2>9, <2>10, <2>11, <2>12, <2>13 DEF DeploymentNext
<1>3. ASSUME DeploymentInv, UNCHANGED deploymentVars PROVE DeploymentInv'
  BY <1>3, Elsewhere DEF deploymentVars
<1>4. QED
  BY <1>1, <1>2, <1>3

-----------------------------------------------------------------------------
(* A rollup is the least relation it should be.                            *)

\* The nodes of a hierarchy, climbs one edge longer, and all climbs by their
\* length.
Everyone(edges, leaves) == leaves \cup UNION {Ends(e) : e \in edges}
Longer(P, edges) ==
    {Append(x[1], x[2][2]) :
       x \in {y \in P \X edges : Last(y[1]) = y[2][1] /\ y[2][2] \notin Range(y[1])}}
Climbs(C, N, edges, leaves) ==
    /\ C \in [0 .. N -> SUBSET Seq(Everyone(edges, leaves))]
    /\ C[0] = {<<l>> : l \in leaves}
    /\ \A n \in 1 .. N : C[n] = Longer(C[n - 1], edges)

\* Longer climbs are of the same nodes.
LEMMA LongerIn ==
    ASSUME NEW edges, NEW leaves, NEW P \in SUBSET Seq(Everyone(edges, leaves))
    PROVE  Longer(P, edges) \in SUBSET Seq(Everyone(edges, leaves))
<1> DEFINE A == Everyone(edges, leaves)
<1>1. ASSUME NEW x \in P \X edges PROVE Append(x[1], x[2][2]) \in Seq(A)
  <2>1. x[1] \in Seq(A) /\ x[2] \in edges
    OBVIOUS
  <2>2. x[2][2] \in A
    BY <2>1 DEF Everyone, Ends
  <2> HIDE DEF A
  <2>3. QED
    BY <2>1, <2>2
<1> HIDE DEF A
<1>2. QED
  BY <1>1 DEF Longer, A

\* What Paths collects are the climbs of every length.
LEMMA PathsClimb ==
    ASSUME NEW edges, NEW leaves, NEW N, N = Cardinality(Everyone(edges, leaves)), N \in Nat
    PROVE  \E C : Climbs(C, N, edges, leaves) /\ Paths(edges, leaves) = UNION {C[n] : n \in 0 .. N}
<1> DEFINE U == SUBSET Seq(Everyone(edges, leaves))
           first == {<<l>> : l \in leaves}
           G == [x \in U \X Nat |-> Longer(x[1], edges)]
           Turn(f, n) == IF n = 0 THEN first
                         ELSE {Append(x[1], x[2][2]) :
                                x \in {y \in f[n - 1] \X edges :
                                         Last(y[1]) = y[2][1] /\ y[2][2] \notin Range(y[1])}}
           C == CHOOSE f : f = [n \in 0 .. N |-> Turn(f, n)]
<1>1. first \in U
  <2>1. leaves \subseteq Everyone(edges, leaves)
    BY DEF Everyone
  <2> DEFINE A == Everyone(edges, leaves)
  <2> HIDE DEF A
  <2>2. \A l \in leaves : <<l>> \in Seq(A)
    BY <2>1 DEF A
  <2>3. QED
    BY <2>2 DEF A
<1>2. Steps(G, U)
  BY LongerIn DEF Steps
<1>3. \E f : Iterates(f, 0, N, U, first, G)
  <2> HIDE DEF U, first, G
  <2>1. QED
    BY <1>1, <1>2, Recursion
<1>4. PICK f : Iterates(f, 0, N, U, first, G)
  BY <1>3
<1>5. f \in [0 .. N -> U] /\ f[0] = first /\ \A n \in (0 + 1) .. N : f[n] = G[<<f[n - 1], n>>]
  <2> HIDE DEF U, first, G
  <2>1. QED
    BY <1>4 DEF Iterates
<1>6. \A n \in 1 .. N : f[n] = Longer(f[n - 1], edges)
  <2>1. SUFFICES ASSUME NEW n \in 1 .. N PROVE f[n] = Longer(f[n - 1], edges)
    OBVIOUS
  <2>2. n \in (0 + 1) .. N /\ n \in Nat /\ n - 1 \in 0 .. N
    OBVIOUS
  <2>3. f[n - 1] \in U
    <3> HIDE DEF U, first, G
    <3>1. QED
      BY <1>5, <2>2
  <2>4. <<f[n - 1], n>> \in U \X Nat
    <3> HIDE DEF U
    <3>1. QED
      BY <2>2, <2>3
  <2>5. G[<<f[n - 1], n>>] = Longer(f[n - 1], edges)
    <3> HIDE DEF U
    <3>1. QED
      BY <2>4
  <2>6. QED
    BY <1>5, <2>2, <2>5
<1>7. f = [n \in 0 .. N |-> Turn(f, n)]
  <2>1. ASSUME NEW n \in 0 .. N PROVE f[n] = Turn(f, n)
    <3>1. CASE n = 0
      BY <3>1, <1>5
    <3>2. CASE n # 0
      <4>1. n \in 1 .. N
        BY <3>2
      <4>2. f[n] = Longer(f[n - 1], edges)
        BY <1>6, <4>1
      <4>3. QED
        BY <3>2, <4>2 DEF Longer
    <3>3. QED
      BY <3>1, <3>2
  <2> HIDE DEF Turn, U
  <2>2. QED
    BY <2>1, <1>5
<1>8. C = [n \in 0 .. N |-> Turn(C, n)]
  BY <1>7
<1> HIDE DEF C
<1>9. \A n \in 0 .. N : C[n] = Turn(C, n)
  <2> HIDE DEF Turn
  <2>1. QED
    BY <1>8
<1>15. C[0] = first
  <2>1. 0 \in 0 .. N /\ Turn(C, 0) = first
    OBVIOUS
  <2> HIDE DEF Turn, first
  <2>2. QED
    BY <1>9, <2>1
<1> DEFINE Fine == {n \in 0 .. N : C[n] \in U}
<1>10. 0 \in Fine
  <2>1. 0 \in 0 .. N
    OBVIOUS
  <2> HIDE DEF U, first
  <2>2. QED
    BY <1>1, <1>15, <2>1
<1>11. \A n \in 1 .. N : C[n] = Longer(C[n - 1], edges)
  <2>1. SUFFICES ASSUME NEW n \in 1 .. N PROVE C[n] = Longer(C[n - 1], edges)
    OBVIOUS
  <2>2. n \in 0 .. N /\ n # 0
    OBVIOUS
  <2>3. Turn(C, n) = Longer(C[n - 1], edges)
    BY <2>2 DEF Longer
  <2> HIDE DEF Turn
  <2>4. QED
    BY <1>9, <2>2, <2>3
<1>12. ASSUME NEW n \in 0 .. N, n < N, n \in Fine PROVE n + 1 \in Fine
  <2>1. n + 1 \in 1 .. N /\ n + 1 \in 0 .. N /\ (n + 1) - 1 = n
    BY <1>12
  <2>2. C[n + 1] = Longer(C[n], edges)
    BY <1>11, <2>1
  <2>3. QED
    BY <1>12, <2>1, <2>2, LongerIn
<1>13. 0 .. N \subseteq Fine
  <2> HIDE DEF Fine
  <2>1. QED
    BY <1>10, <1>12, Inductive
<1>14. C \in [0 .. N -> U]
  <2> HIDE DEF U, Turn
  <2>1. QED
    BY <1>8, <1>13
<1>16. Climbs(C, N, edges, leaves)
  BY <1>11, <1>14, <1>15 DEF Climbs
<1>17. Paths(edges, leaves) = UNION {C[n] : n \in 0 .. N}
  BY DEF Paths, Everyone, C
<1>18. QED
  BY <1>16, <1>17

\* The sets that go up with the edges.
GoesUp(S, edges) == \A e \in edges : e[1] \in S => e[2] \in S

\* A climb of n steps: it meets no node twice, whatever goes up goes along it,
\* and it passes where shorter climbs end.
IsClimb(p, n, C, edges, leaves) ==
    /\ p \in Seq(Everyone(edges, leaves)) /\ Len(p) = n + 1 /\ p[1] \in leaves
    /\ \A i, j \in 1 .. (n + 1) : p[i] = p[j] => i = j
    /\ \A S \in SUBSET Everyone(edges, leaves) : GoesUp(S, edges) /\ p[1] \in S => p[n + 1] \in S
    /\ \A m \in 1 .. (n + 1) : \E q \in C[m - 1] : q[1] = p[1] /\ q[m] = p[m]

\* A climb one edge longer.
LEMMA ClimbOn ==
    ASSUME NEW edges, NEW leaves, NEW C, NEW n \in Nat, NEW p, IsClimb(p, n, C, edges, leaves),
           NEW e \in edges, p[n + 1] = e[1], e[2] \notin Range(p), Append(p, e[2]) \in C[n + 1]
    PROVE  IsClimb(Append(p, e[2]), n + 1, C, edges, leaves)
<1> DEFINE A == Everyone(edges, leaves)
           x == e[2]
           q == Append(p, x)
<1>1. x \in A
  BY DEF Everyone, Ends
<1>2. p \in Seq(A) /\ Len(p) = n + 1 /\ p[1] \in leaves
  BY DEF IsClimb
<1> HIDE DEF A
<1>3. /\ q \in Seq(A) /\ Len(q) = (n + 1) + 1 /\ q[n + 2] = x
      /\ \A i \in 1 .. (n + 1) : q[i] = p[i]
  BY <1>1, <1>2
<1>4. \A i \in 1 .. (n + 1) : p[i] # x
  <2>1. DOMAIN p = 1 .. (n + 1)
    BY <1>2
  <2>2. QED
    BY <2>1 DEF Range, x
<1> HIDE DEF x
<1>5. q[1] = p[1]
  BY <1>3
<1> HIDE DEF q
<1>6. ASSUME NEW i \in 1 .. ((n + 1) + 1), NEW j \in 1 .. ((n + 1) + 1), q[i] = q[j] PROVE i = j
  <2>1. (i = n + 2 \/ i \in 1 .. (n + 1)) /\ (j = n + 2 \/ j \in 1 .. (n + 1))
    OBVIOUS
  <2>2. \A a, b \in 1 .. (n + 1) : p[a] = p[b] => a = b
    BY DEF IsClimb
  <2>3. QED
    BY <2>1, <2>2, <1>3, <1>4, <1>6
<1>7. ASSUME NEW S \in SUBSET A, GoesUp(S, edges), q[1] \in S PROVE q[(n + 1) + 1] \in S
  <2>1. p[n + 1] \in S
    BY <1>5, <1>7 DEF IsClimb, A
  <2>2. x \in S
    BY <1>7, <2>1 DEF GoesUp, x
  <2>3. QED
    BY <1>3, <2>2
<1>8. ASSUME NEW m \in 1 .. ((n + 1) + 1) PROVE \E r \in C[m - 1] : r[1] = q[1] /\ r[m] = q[m]
  <2>1. CASE m = n + 2
    <3>1. m - 1 = n + 1
      BY <2>1
    <3>2. QED
      BY <3>1 DEF q, x
  <2>2. CASE m # n + 2
    <3>1. m \in 1 .. (n + 1)
      BY <2>2
    <3>2. PICK r \in C[m - 1] : r[1] = p[1] /\ r[m] = p[m]
      BY <3>1 DEF IsClimb
    <3>3. q[m] = p[m]
      BY <1>3, <3>1
    <3>4. QED
      BY <1>5, <3>2, <3>3
  <2>3. QED
    BY <2>1, <2>2
<1>9. q[1] \in leaves
  BY <1>2, <1>5
<1>10. IsClimb(q, n + 1, C, edges, leaves)
  BY <1>3, <1>6, <1>7, <1>8, <1>9 DEF IsClimb, A
<1>11. QED
  BY <1>10 DEF q, x

\* Every climb is one.
LEMMA AllClimb ==
    ASSUME NEW edges, NEW leaves, NEW N \in Nat, NEW C, Climbs(C, N, edges, leaves)
    PROVE  \A n \in 0 .. N : \A p \in C[n] : IsClimb(p, n, C, edges, leaves)
<1> DEFINE Good == {n \in 0 .. N : \A p \in C[n] : IsClimb(p, n, C, edges, leaves)}
<1>1. 0 \in Good
  <2>1. SUFFICES ASSUME NEW p \in C[0] PROVE IsClimb(p, 0, C, edges, leaves)
    OBVIOUS
  <2>2. PICK l \in leaves : p = <<l>>
    BY DEF Climbs
  <2> DEFINE A == Everyone(edges, leaves)
  <2>3. l \in A
    BY DEF Everyone
  <2> HIDE DEF A
  <2>4. p \in Seq(A) /\ Len(p) = 0 + 1 /\ p[1] = l
    BY <2>2, <2>3
  <2>5. \A i \in 1 .. (0 + 1) : i = 1
    OBVIOUS
  <2>6. \A m \in 1 .. (0 + 1) : \E q \in C[m - 1] : q[1] = p[1] /\ q[m] = p[m]
    <3>1. \A m \in 1 .. (0 + 1) : m - 1 = 0
      OBVIOUS
    <3>2. QED
      BY <2>5, <3>1
  <2>7. QED
    BY <2>4, <2>5, <2>6 DEF IsClimb, A
<1>2. ASSUME NEW n \in 0 .. N, n < N, n \in Good PROVE n + 1 \in Good
  <2>1. n + 1 \in 0 .. N /\ n + 1 \in 1 .. N /\ (n + 1) - 1 = n /\ n \in Nat
    BY <1>2
  <2>2. SUFFICES ASSUME NEW p \in C[n + 1] PROVE IsClimb(p, n + 1, C, edges, leaves)
    BY <2>1
  <2>3. C[n + 1] = Longer(C[n], edges)
    BY <2>1 DEF Climbs
  <2>4. PICK q \in C[n], e \in edges : Last(q) = e[1] /\ e[2] \notin Range(q) /\ p = Append(q, e[2])
    BY <2>3 DEF Longer
  <2>5. IsClimb(q, n, C, edges, leaves)
    BY <1>2
  <2>6. Last(q) = q[n + 1]
    BY <2>5 DEF Last, IsClimb
  <2>7. QED
    BY <2>1, <2>4, <2>5, <2>6, ClimbOn
<1>3. 0 .. N \subseteq Good
  <2> HIDE DEF Good
  <2>1. QED
    BY <1>1, <1>2, Inductive
<1>4. QED
  BY <1>3

\* What build_hierarchy_closure's rounds compute is the relation a mapping should
\* be: the leaves with everything above them, however the edges branch, join or
\* skip, and in spite of cycles.
THEOREM RollupIsUnder ==
    ASSUME NEW edges, NEW leaves, IsFiniteSet(edges), IsFiniteSet(leaves)
    PROVE  Rollup(edges, leaves) = Under(edges, leaves)
<1> DEFINE A == Everyone(edges, leaves)
           N == Cardinality(A)
<1>1. IsFiniteSet(A) /\ N \in Nat
  <2> DEFINE f == [e \in edges |-> Ends(e)]
  <2>1. IsFiniteSet({f[e] : e \in edges})
    <3>1. DOMAIN f = edges
      OBVIOUS
    <3> HIDE DEF f
    <3>2. QED
      BY <3>1, FiniteImage
  <2>2. {f[e] : e \in edges} = {Ends(e) : e \in edges}
    OBVIOUS
  <2>3. \A e \in edges : IsFiniteSet(Ends(e))
    <3>1. SUFFICES ASSUME NEW e \in edges PROVE IsFiniteSet(Ends(e))
      OBVIOUS
    <3>2. IsFiniteSet({e[1]}) /\ IsFiniteSet({e[2]}) /\ Ends(e) = {e[1]} \cup {e[2]}
      BY FS_Singleton DEF Ends
    <3>3. QED
      BY <3>2, FS_Union
  <2>4. IsFiniteSet(UNION {Ends(e) : e \in edges})
    BY <2>1, <2>2, <2>3, FS_UNION
  <2>5. IsFiniteSet(A)
    BY <2>4, FS_Union DEF Everyone
  <2>6. QED
    BY <2>5, FS_CardinalityType
<1> HIDE DEF N
<1>2. PICK C : Climbs(C, N, edges, leaves) /\ Paths(edges, leaves) = UNION {C[n] : n \in 0 .. N}
  BY <1>1, PathsClimb DEF N
<1>3. \A n \in 0 .. N : \A p \in C[n] : IsClimb(p, n, C, edges, leaves)
  BY <1>1, <1>2, AllClimb
<1>4. \A n \in 0 .. N : \A p \in C[n] : Last(p) = p[n + 1] /\ Head(p) = p[1]
  <2>1. SUFFICES ASSUME NEW n \in 0 .. N, NEW p \in C[n] PROVE Last(p) = p[n + 1] /\ Head(p) = p[1]
    OBVIOUS
  <2>2. p \in Seq(A) /\ Len(p) = n + 1
    BY <1>3 DEF IsClimb
  <2> HIDE DEF A
  <2>3. QED
    BY <2>2 DEF Last
<1>5. Rollup(edges, leaves) = {<<p[Len(p)], p[1]>> : p \in Paths(edges, leaves)}
  <2>1. \A p \in Paths(edges, leaves) : <<Last(p), Head(p)>> = <<p[Len(p)], p[1]>>
    <3>1. SUFFICES ASSUME NEW p \in Paths(edges, leaves) PROVE Last(p) = p[Len(p)] /\ Head(p) = p[1]
      OBVIOUS
    <3>2. PICK n \in 0 .. N : p \in C[n]
      BY <1>2
    <3>3. QED
      BY <1>3, <1>4, <3>2 DEF IsClimb
  <2>2. QED
    BY <2>1 DEF Rollup
<1>6. Under(edges, leaves) =
        {x \in A \X leaves : \A S \in SUBSET A : GoesUp(S, edges) => (x[2] \in S => x[1] \in S)}
  BY DEF Under, Everyone, GoesUp
<1>7. ASSUME NEW x \in Rollup(edges, leaves) PROVE x \in Under(edges, leaves)
  <2>1. PICK n \in 0 .. N : \E p \in C[n] : x = <<p[n + 1], p[1]>>
    <3>1. PICK p \in Paths(edges, leaves) : x = <<p[Len(p)], p[1]>>
      BY <1>5
    <3>2. PICK n \in 0 .. N : p \in C[n]
      BY <1>2
    <3>3. QED
      BY <1>3, <3>1, <3>2 DEF IsClimb
  <2>2. PICK p \in C[n] : x = <<p[n + 1], p[1]>>
    BY <2>1
  <2>3. IsClimb(p, n, C, edges, leaves)
    BY <1>3
  <2>4. p[n + 1] \in A
    <3>1. p \in Seq(A) /\ n + 1 \in 1 .. Len(p)
      BY <2>3, <1>1 DEF IsClimb
    <3> HIDE DEF A
    <3>2. QED
      BY <3>1
  <2>5. x \in A \X leaves
    BY <2>2, <2>3, <2>4 DEF IsClimb
  <2>6. QED
    BY <1>6, <2>2, <2>3, <2>5 DEF IsClimb
<1>8. ASSUME NEW x \in Under(edges, leaves) PROVE x \in Rollup(edges, leaves)
  <2>1. PICK v \in A, l \in leaves : x = <<v, l>>
    BY <1>6
  <2> DEFINE S == {a \in A : \E n \in 0 .. N : \E p \in C[n] : p[n + 1] = a /\ p[1] = l}
  <2>2. l \in S
    <3>1. <<l>> \in C[0] /\ 0 \in 0 .. N /\ l \in A
      BY <1>1, <1>2 DEF Climbs, Everyone
    <3>2. <<l>>[0 + 1] = l /\ <<l>>[1] = l
      OBVIOUS
    <3>3. QED
      BY <3>1, <3>2
  <2>3. ASSUME NEW e \in edges, e[1] \in S PROVE e[2] \in S
    <3>0. PICK n \in 0 .. N : \E p \in C[n] : p[n + 1] = e[1] /\ p[1] = l
      BY <2>3
    <3>1. PICK p \in C[n] : p[n + 1] = e[1] /\ p[1] = l
      BY <3>0
    <3>2. IsClimb(p, n, C, edges, leaves) /\ n \in Nat
      BY <1>3, <1>1
    <3>3. e[2] \in A
      BY DEF Everyone, Ends
    <3>4. p \in Seq(A) /\ Len(p) = n + 1 /\ DOMAIN p = 1 .. (n + 1)
      <4>1. p \in Seq(A) /\ Len(p) = n + 1
        BY <3>2 DEF IsClimb
      <4> HIDE DEF A
      <4>2. QED
        BY <4>1
    <3>5. CASE e[2] \in Range(p)
      <4>1. PICK m \in 1 .. (n + 1) : p[m] = e[2]
        BY <3>4, <3>5 DEF Range
      <4>2. PICK q \in C[m - 1] : q[1] = p[1] /\ q[m] = p[m]
        BY <3>2 DEF IsClimb
      <4>3. m - 1 \in 0 .. N /\ (m - 1) + 1 = m
        BY <1>1
      <4>4. QED
        BY <3>1, <3>3, <4>1, <4>2, <4>3
    <3>6. CASE e[2] \notin Range(p)
      <4> DEFINE q == Append(p, e[2])
      <4>1. q \in Seq(A) /\ Len(q) = n + 2 /\ q[n + 2] = e[2] /\ \A i \in 1 .. (n + 1) : q[i] = p[i]
        <5> HIDE DEF A
        <5>1. QED
          BY <3>2, <3>3, <3>4
      <4>2. \A i \in 1 .. (n + 1) : p[i] # e[2]
        BY <3>4, <3>6 DEF Range
      <4>3. \A i, j \in 1 .. (n + 2) : q[i] = q[j] => i = j
        <5>1. \A i \in 1 .. (n + 2) : i = n + 2 \/ i \in 1 .. (n + 1)
          BY <3>2
        <5>2. \A i, j \in 1 .. (n + 1) : p[i] = p[j] => i = j
          BY <3>2 DEF IsClimb
        <5> HIDE DEF q
        <5>3. QED
          BY <4>1, <4>2, <5>1, <5>2
      <4>4. q \in Injection(1 .. (n + 2), A)
        <5>1. q \in [1 .. (n + 2) -> A]
          <6> HIDE DEF A, q
          <6>1. QED
            BY <4>1
        <5> HIDE DEF A, q
        <5>2. QED
          BY <4>3, <5>1 DEF Injection, IsInjective
      <4>5. n + 2 <= N
        <5>1. Cardinality(1 .. (n + 2)) = n + 2
          BY <3>2, FS_Interval
        <5>2. Cardinality(1 .. (n + 2)) <= Cardinality(A)
          <6> HIDE DEF A, q
          <6>1. QED
            BY <1>1, <4>4, FS_Injection
        <5>3. QED
          BY <5>1, <5>2 DEF N
      <4>6. n + 1 \in 1 .. N /\ n + 1 \in 0 .. N /\ (n + 1) - 1 = n /\ (n + 1) + 1 = n + 2
        BY <1>1, <3>2, <4>5
      <4>7. q \in C[n + 1]
        <5>1. C[n + 1] = Longer(C[n], edges)
          BY <1>2, <4>6 DEF Climbs
        <5>2. Last(p) = e[1]
          BY <1>4, <3>1
        <5>3. <<p, e>> \in {y \in C[n] \X edges : Last(y[1]) = y[2][1] /\ y[2][2] \notin Range(y[1])}
          BY <3>6, <5>2
        <5>4. QED
          BY <5>1, <5>3 DEF Longer
      <4>8. q[(n + 1) + 1] = e[2] /\ q[1] = l
        BY <3>1, <3>2, <4>1, <4>6
      <4> HIDE DEF q
      <4>9. QED
        BY <3>3, <4>6, <4>7, <4>8
    <3>7. QED
      BY <3>5, <3>6
  <2>4. v \in S
    <3>1. S \in SUBSET A /\ GoesUp(S, edges)
      BY <2>3 DEF GoesUp
    <3> HIDE DEF S
    <3>2. QED
      BY <1>6, <2>1, <2>2, <3>1
  <2>8. PICK n \in 0 .. N : \E p \in C[n] : p[n + 1] = v /\ p[1] = l
    BY <2>4
  <2>5. PICK p \in C[n] : p[n + 1] = v /\ p[1] = l
    BY <2>8
  <2>6. p \in Paths(edges, leaves) /\ Len(p) = n + 1
    BY <1>2, <1>3, <2>5 DEF IsClimb
  <2>7. QED
    BY <1>5, <2>1, <2>5, <2>6
<1>9. QED
  BY <1>7, <1>8

-----------------------------------------------------------------------------
(* Settled mappings.                                                       *)

\* The catalogue of a directory that was accepted is the one its files make, and
\* is valid.
LEMMA CatalogueIs ==
    ASSUME NEW i \in Accepting
    PROVE  Catalogue(i) = Assembled(Instances[i].files) /\ Valid(Catalogue(i))
<1> DEFINE T == {Assembled(Instances[n].files) : n \in DOMAIN Instances}
           f == [n \in DOMAIN Instances |-> Assembled(Instances[n].files)]
<1>1. i \in DOMAIN Instances /\ Accepted(Instances[i].files)
  BY DEF Accepting
<1>2. Len(Instances) \in Nat /\ DOMAIN Instances = 1 .. Len(Instances)
  BY InstancesAssumption, LenProperties DEF IsSeq
<1>3. f \in [1 .. Len(Instances) -> T]
  BY <1>2
<1>4. f[i] = Assembled(Instances[i].files)
  BY <1>1
<1>5. Catalogues = f \o <<>>
  BY DEF Catalogues
<1> HIDE DEF f, T
<1>6. f \in Seq(T)
  BY <1>2, <1>3
<1>7. f \o <<>> = f
  BY <1>6
<1>8. QED
  BY <1>1, <1>4, <1>5, <1>7 DEF Catalogue, Accepted

\* The levels of a generated hierarchy end in its leaf: the leaf's own column,
\* no prefix and no other table.
LEMMA LevelsEnd ==
    ASSUME NEW i \in Accepting, NEW c, c = Catalogue(i), NEW k \in RaggedDims(c),
           c.dims[k].ragged_source.type # "provided"
    PROVE  /\ IsSeq(Levels(c.dims, c.dims[k])) /\ Levels(c.dims, c.dims[k]) # <<>>
           /\ Last(Levels(c.dims, c.dims[k])).prefix = ""
           /\ Last(Levels(c.dims, c.dims[k])).column = c.dims[c.dims[k].leaf_dimension].source.key_column
           /\ Last(Levels(c.dims, c.dims[k])).master = {}
<1> DEFINE h == c.dims[k]
           dims == c.dims
           leaf == dims[h.leaf_dimension]
           n == Len(h.levels)
           at(x) == dims[h.levels[x].dimension]
           hasColumn(x) == /\ h.levels[x].dimension \in DOMAIN dims
                           /\ at(x).derived_from # <<>> \/ at(x).source # <<>>
           above(x) == {p \in Range(dims[h.leaf_dimension].parents) : p.key = h.levels[x].dimension}
           column(x) == IF at(x).derived_from # <<>> THEN at(x).derived_from.source_column
                        ELSE IF x < n /\ above(x) # {} THEN (CHOOSE p \in above(x) : TRUE).source_column
                        ELSE at(x).source.key_column
           joined(x) == at(x).derived_from = <<>> /\ x < n /\ above(x) # {}
           level(x) == [type |-> h.levels[x].dimension, column |-> column(x),
                        prefix |-> IF x = n THEN "" ELSE h.levels[x].node_prefix,
                        master |-> IF joined(x) THEN {at(x).source} ELSE {}]
           block(x) == IF hasColumn(x) THEN <<level(x)>> ELSE <<>>
           s == [x \in 1 .. n |-> block(x)]
           S == {level(x) : x \in 1 .. n}
<1>1. DimensionsFit(c) /\ k \in DOMAIN dims /\ h.ragged
  BY CatalogueIs DEF Valid, RaggedDims
<1>2. /\ h.leaf_dimension \in DOMAIN dims /\ IsLeaf(leaf)
      /\ h.levels # <<>> /\ Last(h.levels).dimension = h.leaf_dimension
  BY <1>1 DEF DimensionsFit, RaggedFits
<1>3. leaf.derived_from = <<>>
  <2>1. DimensionFits(c, leaf)
    BY <1>1, <1>2 DEF DimensionsFit
  <2>2. Cardinality({t \in {<<1, IsLeaf(leaf)>>, <<2, IsDerived(leaf)>>, <<3, leaf.ragged>>} : t[2]}) = 1
    BY <2>1 DEF DimensionFits
  <2> DEFINE W == {t \in {<<1, IsLeaf(leaf)>>, <<2, IsDerived(leaf)>>, <<3, leaf.ragged>>} : t[2]}
  <2>3. \A a, b \in W : a = b
    <3>1. IsFiniteSet({<<1, IsLeaf(leaf)>>, <<2, IsDerived(leaf)>>, <<3, leaf.ragged>>})
      <4>1. ASSUME NEW a, NEW b, NEW d PROVE IsFiniteSet({a, b, d})
        <5>1. IsFiniteSet({a} \cup ({b} \cup {d}))
          BY FS_Singleton, FS_Union
        <5>2. {a, b, d} = {a} \cup ({b} \cup {d})
          OBVIOUS
        <5>3. QED
          BY <5>1, <5>2
      <4>2. QED
        BY <4>1
    <3>2. IsFiniteSet(W)
      BY <3>1, FS_Subset
    <3>3. Cardinality(W) = 1
      BY <2>2
    <3> HIDE DEF W
    <3>4. QED
      BY <3>2, <3>3, FS_Singleton
  <2>4. <<1, IsLeaf(leaf)>> \in W
    BY <1>2
  <2>5. IsDerived(leaf) => <<2, IsDerived(leaf)>> \in W
    OBVIOUS
  <2>6. <<1, IsLeaf(leaf)>> # <<2, IsDerived(leaf)>>
    OBVIOUS
  <2> HIDE DEF W
  <2>7. QED
    BY <2>3, <2>4, <2>5, <2>6 DEF IsDerived
<1>4. n \in Nat \ {0} /\ DOMAIN h.levels = 1 .. n /\ Last(h.levels) = h.levels[n]
  <2>1. IsSeq(h.levels)
    BY InstancesAssumption
  <2>2. n \in Nat /\ DOMAIN h.levels = 1 .. n /\ h.levels # <<>>
    BY <1>2, <2>1, LenProperties DEF IsSeq
  <2>3. n # 0
    <3>1. \A U : \A q \in Seq(U) : Len(q) = 0 => q = <<>>
      OBVIOUS
    <3>2. QED
      BY <2>1, <2>2, <3>1 DEF IsSeq
  <2>4. QED
    BY <2>2, <2>3 DEF Last
<1>5. hasColumn(n) /\ column(n) = leaf.source.key_column /\ ~joined(n)
  <2>1. h.levels[n].dimension = h.leaf_dimension
    BY <1>2, <1>4
  <2>2. at(n) = leaf
    BY <2>1
  <2>3. leaf.source # <<>> /\ leaf.derived_from = <<>>
    BY <1>2, <1>3 DEF IsLeaf
  <2>4. ~(n < n)
    BY <1>4
  <2> HIDE DEF n, leaf, at, above
  <2>5. QED
    BY <1>2, <2>1, <2>2, <2>3, <2>4
<1>6. /\ s[n] = <<level(n)>> /\ level(n).prefix = "" /\ level(n).column = leaf.source.key_column
      /\ level(n).master = {}
  <2>1. s[n] = block(n)
    <3>1. n \in 1 .. n
      <4> HIDE DEF n
      <4>1. QED
        BY <1>4
    <3> HIDE DEF block, n
    <3>2. QED
      BY <3>1
  <2>2. block(n) = <<level(n)>>
    BY <1>5
  <2>3. level(n).prefix = "" /\ level(n).column = column(n)
    OBVIOUS
  <2>5. level(n).master = {}
    <3>1. level(n).master = IF joined(n) THEN {at(n).source} ELSE {}
      OBVIOUS
    <3> HIDE DEF level, joined
    <3>2. QED
      BY <1>5, <3>1
  <2> HIDE DEF s, block, level, column, n
  <2>4. QED
    BY <1>5, <2>1, <2>2, <2>3, <2>5
<1>7. Levels(dims, h) = FlattenSeq(s)
  BY DEF Levels
<1>8. \A x \in 1 .. n : block(x) \in Seq(S)
  <2>1. SUFFICES ASSUME NEW x \in 1 .. n PROVE block(x) \in Seq(S)
    OBVIOUS
  <2>2. level(x) \in S
    OBVIOUS
  <2> HIDE DEF S, level, hasColumn
  <2>3. QED
    BY <2>2
<1>9. s \in Seq(Seq(S)) /\ Len(s) = n
  <2>1. s \in [1 .. n -> Seq(S)]
    <3> HIDE DEF S, block
    <3>1. QED
      BY <1>8
  <2>2. DOMAIN s = 1 .. n
    OBVIOUS
  <2> HIDE DEF s, S, n
  <2>3. QED
    BY <1>4, <2>1, <2>2
<1> HIDE DEF s, S, level
<1>10. PICK F \in Seq(S) : FlattenSeq(s) = F \o <<level(n)>>
  <2> HIDE DEF n
  <2>1. QED
    BY <1>4, <1>6, <1>9, Flattened
<1>11. level(n) \in S
  BY <1>4 DEF S
<1>12. FlattenSeq(s) # <<>> /\ Last(FlattenSeq(s)) = level(n)
  BY <1>10, <1>11 DEF Last
<1>13. IsSeq(FlattenSeq(s))
  BY <1>9, Flattened, SeqIs
<1>14. QED
  BY <1>6, <1>7, <1>12, <1>13

\* The edges of a generated hierarchy: each level under the one before, the
\* first under the root.
LEMMA GeneratedIs ==
    ASSUME NEW R, NEW L
    PROVE  GeneratedEdges(R, L) =
             (UNION {{<<NodeAt(r, L[i]), NodeAt(r, L[i - 1])>> : r \in R} : i \in 2 .. Len(L)})
               \cup {<<NodeAt(r, L[1]), Root>> : r \in R}
BY DEF GeneratedEdges

\* Finitely many rows make finitely many edges.
LEMMA FiniteEdges ==
    ASSUME NEW R, NEW L, IsFiniteSet(R), Len(L) \in Nat
    PROVE  IsFiniteSet(GeneratedEdges(R, L))
<1> DEFINE top == [r \in R |-> <<NodeAt(r, L[1]), Root>>]
           up(n) == [r \in R |-> <<NodeAt(r, L[n]), NodeAt(r, L[n - 1])>>]
           each == [n \in 2 .. Len(L) |-> {<<NodeAt(r, L[n]), NodeAt(r, L[n - 1])>> : r \in R}]
           tops == {<<NodeAt(r, L[1]), Root>> : r \in R}
           blocks == {{<<NodeAt(r, L[i]), NodeAt(r, L[i - 1])>> : r \in R} : i \in 2 .. Len(L)}
           ups == UNION blocks
<1>1. GeneratedEdges(R, L) = ups \cup tops
  BY GeneratedIs
<1>6. blocks = {each[n] : n \in 2 .. Len(L)}
  OBVIOUS
<1>2. IsFiniteSet(tops)
  <2>1. DOMAIN top = R /\ tops = {top[r] : r \in R}
    OBVIOUS
  <2> HIDE DEF top, tops
  <2>2. QED
    BY <2>1, FiniteImage
<1>3. \A n \in 2 .. Len(L) : IsFiniteSet(each[n])
  <2>1. SUFFICES ASSUME NEW n \in 2 .. Len(L) PROVE IsFiniteSet(each[n])
    OBVIOUS
  <2> DEFINE f == up(n)
  <2>2. DOMAIN f = R /\ each[n] = {f[r] : r \in R}
    OBVIOUS
  <2> HIDE DEF f, each
  <2>3. QED
    BY <2>2, FiniteImage
<1>4. IsFiniteSet(ups)
  <2>1. DOMAIN each = 2 .. Len(L) /\ IsFiniteSet(2 .. Len(L))
    BY FS_Interval
  <2> HIDE DEF each
  <2>2. IsFiniteSet({each[n] : n \in 2 .. Len(L)})
    BY <2>1, FiniteImage
  <2>3. \A T \in {each[n] : n \in 2 .. Len(L)} : IsFiniteSet(T)
    BY <1>3
  <2> HIDE DEF blocks
  <2>4. QED
    BY <1>6, <2>2, <2>3, FS_UNION
<1> HIDE DEF ups, tops
<1>5. QED
  BY <1>1, <1>2, <1>4, FS_Union

\* The edges and the leaves of every hierarchy are finitely many.
LEMMA FiniteRows ==
    ASSUME Directory, NEW i \in Accepting, NEW c, c = Catalogue(i), NEW k \in RaggedDims(c)
    PROVE  IsFiniteSet(EdgesNow(c, k)) /\ IsFiniteSet(LeavesNow(c, k))
<1> DEFINE d == c.dims[k]
           source == c.dims[d.leaf_dimension].source
<1>1. \A ref \in TablesOf(c, k) : IsFiniteSet(RowsOf(ref))
  <2>1. \A ref \in TablesOf(c, k) : ref[2] \in DOMAIN Data
    BY InstancesAssumption
  <2>2. QED
    BY <2>1, DataAssumption DEF RowsOf, Directory
<1>2. source.table \in TablesOf(c, k)
  BY DEF TablesOf
<1>3. IsFiniteSet(LeavesNow(c, k))
  <2> DEFINE R == RowsOf(source.table)
             f == [r \in R |-> <<"", r[source.key_column]>>]
  <2>1. IsFiniteSet(R)
    BY <1>1, <1>2
  <2>2. LeavesNow(c, k) = {f[r] : r \in R}
    BY DEF LeavesNow, LeafNodes
  <2>3. DOMAIN f = R
    OBVIOUS
  <2> HIDE DEF f, R
  <2>4. QED
    BY <2>1, <2>2, <2>3, FiniteImage
<1>4. CASE d.ragged_source.type = "provided"
  <2> DEFINE R == RowsOf(d.ragged_source.edge_table)
             f == [r \in R |-> <<<<"", r[d.ragged_source.child_column]>>, <<"", r[d.ragged_source.parent_column]>>>>]
  <2>1. IsFiniteSet(R)
    BY <1>1, <1>4 DEF TablesOf
  <2>2. EdgesNow(c, k) = {f[r] : r \in R}
    BY <1>4 DEF EdgesNow, ProvidedEdges
  <2>3. DOMAIN f = R
    OBVIOUS
  <2> HIDE DEF f, R
  <2>4. QED
    BY <1>3, <2>1, <2>2, <2>3, FiniteImage
<1>5. CASE d.ragged_source.type # "provided"
  <2> DEFINE R == RowsOf(source.table)
             L == Levels(c.dims, d)
  <2>1. IsFiniteSet(R)
    BY <1>1, <1>2
  <2>2. Len(L) \in Nat
    BY <1>5, LevelsEnd, LenProperties DEF IsSeq
  <2>3. EdgesNow(c, k) = GeneratedEdges(R, L)
    BY <1>5 DEF EdgesNow
  <2> HIDE DEF R, L
  <2>4. QED
    BY <1>3, <2>1, <2>2, <2>3, FiniteEdges
<1>6. QED
  BY <1>4, <1>5

\* The root and every level's node of a row are above the row's leaf.
LEMMA RowsRise ==
    ASSUME NEW i \in Accepting, NEW c, c = Catalogue(i), NEW k \in RaggedDims(c),
           c.dims[k].ragged_source.type # "provided",
           NEW R, R = RowsOf(c.dims[c.dims[k].leaf_dimension].source.table),
           NEW L, L = Levels(c.dims, c.dims[k]), NEW r \in R, NEW n \in DOMAIN L
    PROVE  <<NodeAt(r, L[n]), NodeAt(r, L[Len(L)])>> \in Under(EdgesNow(c, k), LeavesNow(c, k))
<1> DEFINE E == EdgesNow(c, k)
           V == LeavesNow(c, k)
           all == V \cup UNION {Ends(e) : e \in E}
           N == Len(L)
           leaf == NodeAt(r, L[N])
<1>1. IsSeq(L) /\ L # <<>> /\ Last(L).prefix = ""
      /\ Last(L).column = c.dims[c.dims[k].leaf_dimension].source.key_column
  BY LevelsEnd
<1>2. N \in Nat /\ DOMAIN L = 1 .. N /\ Last(L) = L[N]
  BY <1>1, SeqBounds DEF Last
<1>3. leaf \in V
  BY <1>1, <1>2 DEF LeavesNow, LeafNodes, NodeAt
<1>4. \A m \in 2 .. N : <<NodeAt(r, L[m]), NodeAt(r, L[m - 1])>> \in E
  BY GeneratedIs DEF EdgesNow
<1>5. ASSUME NEW S \in SUBSET all, \A e \in E : e[1] \in S => e[2] \in S, leaf \in S
      PROVE  \A m \in 1 .. N : NodeAt(r, L[m]) \in S
  <2> DEFINE T == {m \in 0 .. N : m < N => NodeAt(r, L[N - m]) \in S}
  <2>1. 0 \in T
    BY <1>2, <1>5
  <2>2. ASSUME NEW m \in 0 .. N, m < N, m \in T PROVE m + 1 \in T
    <3>1. CASE m + 1 = N
      BY <1>2, <3>1
    <3>2. CASE m + 1 # N
      <4>1. PICK x \in 2 .. N : x = N - m /\ x - 1 = N - (m + 1)
        BY <1>2, <2>2, <3>2
      <4>2. NodeAt(r, L[x]) \in S
        BY <2>2, <4>1
      <4>3. NodeAt(r, L[x - 1]) \in S
        <5>1. PICK e \in E : e = <<NodeAt(r, L[x]), NodeAt(r, L[x - 1])>>
          BY <1>4
        <5>2. e[1] \in S => e[2] \in S
          BY <1>5
        <5>3. QED
          BY <4>2, <5>1, <5>2
      <4>4. m + 1 \in 0 .. N
        BY <1>2, <2>2
      <4>5. QED
        BY <4>1, <4>3, <4>4
    <3>3. QED
      BY <3>1, <3>2
  <2>3. 0 .. N \subseteq T
    <3> HIDE DEF T
    <3>1. QED
      BY <1>2, <2>1, <2>2, Inductive
  <2>4. ASSUME NEW m \in 1 .. N PROVE NodeAt(r, L[m]) \in S
    <3>1. N - m \in 0 .. N /\ N - m < N /\ N - (N - m) = m
      BY <1>2
    <3>2. N - m \in T
      BY <2>3, <3>1
    <3>3. QED
      BY <3>1, <3>2
  <2>5. QED
    BY <2>4
<1>6. NodeAt(r, L[n]) \in all
  <2>1. all \in SUBSET all /\ \A e \in E : e[2] \in all
    BY DEF Ends
  <2>2. leaf \in all
    BY <1>3
  <2> HIDE DEF all, E, leaf
  <2>3. QED
    BY <1>2, <1>5, <2>1, <2>2
<1>7. QED
  BY <1>2, <1>3, <1>5, <1>6 DEF Under

\* The nodes the rows yield at the levels of a hierarchy, the members a level's
\* own table has, the nodes of a list, and those of a mapping.
Yielded(c, k) ==
    {NodeAt(r, l) : r \in RowsOf(c.dims[c.dims[k].leaf_dimension].source.table),
                    l \in Range(Levels(c.dims, c.dims[k]))}
HasMember(r, l) == \A m \in l.master : \E x \in RowsOf(m.table) : x[m.key_column] = r[l.column]
ListNode(n, R, L) ==
    \/ n = Node(Root, "all")
    \/ \E r \in R, m \in DOMAIN L : HasMember(r, L[m]) /\ n = Node(NodeAt(r, L[m]), L[m].type)
Mapped(c, k) == {pair[1] : pair \in Under(EdgesNow(c, k), LeavesNow(c, k))}

\* The join of a row with the rows there are of its level's own table.
LEMMA MembersJoin ==
    ASSUME NEW r, NEW l, NEW masters, \A x \in l.master : masters[x.table] = RowsOf(x.table)
    PROVE  InMaster(r, l, masters) <=> HasMember(r, l)
BY DEF InMaster, HasMember

\* The node list of a generated hierarchy: the root, and what the rows yield of
\* the members there are.
LEMMA NodesAre ==
    ASSUME NEW c, NEW k, c.dims[k].ragged_source.type # "provided", NEW n,
           NEW R, R = RowsOf(c.dims[c.dims[k].leaf_dimension].source.table),
           NEW L, L = Levels(c.dims, c.dims[k])
    PROVE  n \in NodesNow(c, k) <=> ListNode(n, R, L)
<1> DEFINE masters == [t \in Masters(L) |-> RowsOf(t)]
<1>1. NodesNow(c, k) = GeneratedNodes(R, L, masters)
  BY DEF NodesNow
<1>2. ASSUME NEW r, NEW m \in DOMAIN L PROVE InMaster(r, L[m], masters) <=> HasMember(r, L[m])
  <2>1. \A t \in {x.table : x \in L[m].master} : t \in Masters(L)
    BY DEF Masters, Range
  <2>2. \A x \in L[m].master : masters[x.table] = RowsOf(x.table)
    BY <2>1
  <2> HIDE DEF masters
  <2>3. PICK l : l = L[m]
    OBVIOUS
  <2>4. \A x \in l.master : masters[x.table] = RowsOf(x.table)
    BY <2>2, <2>3
  <2>5. InMaster(r, l, masters) <=> HasMember(r, l)
    BY <2>4, MembersJoin
  <2>6. QED
    BY <2>3, <2>5
<1> HIDE DEF masters
<1> DEFINE kept == {y \in R \X DOMAIN L : InMaster(y[1], L[y[2]], masters)}
           nodes == {Node(NodeAt(x[1], L[x[2]]), L[x[2]].type) : x \in kept}
<1>3. n \in NodesNow(c, k) <=> n \in nodes \/ n = Node(Root, "all")
  <2>1. GeneratedNodes(R, L, masters) = nodes \cup {Node(Root, "all")}
    BY DEF GeneratedNodes
  <2> HIDE DEF nodes
  <2>2. QED
    BY <1>1, <2>1
<1>4. ASSUME n \in nodes
      PROVE  \E r \in R, m \in DOMAIN L : HasMember(r, L[m]) /\ n = Node(NodeAt(r, L[m]), L[m].type)
  <2>1. PICK x \in kept : n = Node(NodeAt(x[1], L[x[2]]), L[x[2]].type)
    BY <1>4
  <2>2. x[1] \in R /\ x[2] \in DOMAIN L /\ HasMember(x[1], L[x[2]])
    BY <1>2
  <2>3. QED
    BY <2>1, <2>2
<1>5. ASSUME NEW r \in R, NEW m \in DOMAIN L, HasMember(r, L[m]), n = Node(NodeAt(r, L[m]), L[m].type)
      PROVE  n \in nodes
  <2>1. <<r, m>> \in kept
    BY <1>2, <1>5
  <2>2. PICK x \in kept : x = <<r, m>>
    BY <2>1
  <2>3. QED
    BY <1>5, <2>2
<1> HIDE DEF nodes
<1>6. QED
  BY <1>3, <1>4, <1>5 DEF ListNode

\* The nodes of a generated hierarchy are the root and what its rows yield.
LEMMA NodesListed ==
    ASSUME NEW i \in Accepting, NEW c, c = Catalogue(i), NEW k \in RaggedDims(c),
           c.dims[k].ragged_source.type = "generated"
    PROVE  Everyone(EdgesNow(c, k), LeavesNow(c, k)) \subseteq {Root} \cup Yielded(c, k)
<1> DEFINE d == c.dims[k]
           source == c.dims[d.leaf_dimension].source
           R == RowsOf(source.table)
           L == Levels(c.dims, d)
           ids == {Root} \cup Yielded(c, k)
<1>1. d.ragged_source.type # "provided"
  OBVIOUS
<1>2. IsSeq(L) /\ L # <<>> /\ Last(L).prefix = "" /\ Last(L).column = source.key_column
  BY <1>1, LevelsEnd
<1>3. Len(L) \in Nat /\ DOMAIN L = 1 .. Len(L) /\ Len(L) # 0 /\ Last(L) = L[Len(L)]
  <2>1. Len(L) \in Nat /\ DOMAIN L = 1 .. Len(L)
    BY <1>2, LenProperties DEF IsSeq
  <2>2. \A U : \A q \in Seq(U) : Len(q) = 0 => q = <<>>
    OBVIOUS
  <2>3. Len(L) # 0
    BY <1>2, <2>2 DEF IsSeq
  <2>4. QED
    BY <2>1, <2>3 DEF Last
<1>5. \A r \in R : \A n \in DOMAIN L : NodeAt(r, L[n]) \in ids
  BY DEF Yielded, Range
<1>6. Root \in ids
  OBVIOUS
<1>7. LeavesNow(c, k) \subseteq ids
  <2>1. SUFFICES ASSUME NEW r \in R PROVE <<"", r[source.key_column]>> \in ids
    BY DEF LeavesNow, LeafNodes
  <2>2. NodeAt(r, L[Len(L)]) = <<"", r[source.key_column]>>
    BY <1>2, <1>3 DEF NodeAt
  <2>3. Len(L) \in DOMAIN L
    <3> HIDE DEF L
    <3>1. QED
      BY <1>3
  <2>4. NodeAt(r, L[Len(L)]) \in ids
    BY <1>5, <2>3
  <2>5. QED
    BY <2>2, <2>4
<1>8. EdgesNow(c, k) = GeneratedEdges(R, L)
  BY <1>1 DEF EdgesNow
<1>9. ASSUME NEW e \in EdgesNow(c, k) PROVE Ends(e) \subseteq ids
  <2> HIDE DEF ids, L, R
  <2>1. \/ \E r \in R : e = <<NodeAt(r, L[1]), Root>>
        \/ \E n \in 2 .. Len(L) : \E r \in R : e = <<NodeAt(r, L[n]), NodeAt(r, L[n - 1])>>
    <3>1. e \in UNION {{<<NodeAt(r, L[n]), NodeAt(r, L[n - 1])>> : r \in R} : n \in 2 .. Len(L)}
            \/ e \in {<<NodeAt(r, L[1]), Root>> : r \in R}
      BY <1>8, GeneratedIs
    <3>2. QED
      BY <3>1
  <2>2. CASE \E r \in R : e = <<NodeAt(r, L[1]), Root>>
    <3>1. 1 \in DOMAIN L
      BY <1>3
    <3>2. PICK r \in R : e = <<NodeAt(r, L[1]), Root>>
      BY <2>2
    <3>3. NodeAt(r, L[1]) \in ids
      BY <1>5, <3>1
    <3>4. QED
      BY <1>6, <3>2, <3>3 DEF Ends
  <2>3. CASE \E n \in 2 .. Len(L) : \E r \in R : e = <<NodeAt(r, L[n]), NodeAt(r, L[n - 1])>>
    <3>1. PICK n \in 2 .. Len(L) : \E r \in R : e = <<NodeAt(r, L[n]), NodeAt(r, L[n - 1])>>
      BY <2>3
    <3>2. PICK r \in R : e = <<NodeAt(r, L[n]), NodeAt(r, L[n - 1])>>
      BY <3>1
    <3>3. n \in DOMAIN L /\ n - 1 \in DOMAIN L
      BY <1>3
    <3>4. NodeAt(r, L[n]) \in ids /\ NodeAt(r, L[n - 1]) \in ids
      BY <1>5, <3>3
    <3>5. QED
      BY <3>2, <3>4 DEF Ends
  <2>4. QED
    BY <2>1, <2>2, <2>3
<1>10. QED
  BY <1>7, <1>9 DEF Everyone

\* A mapping is of the nodes listed, but for the orphans.
LEMMA MappedListed ==
    ASSUME NEW i \in Accepting, NEW c, c = Catalogue(i), NEW k \in RaggedDims(c),
           c.dims[k].ragged_source.type = "generated"
    PROVE  (Mapped(c, k) \cup {Root}) \ Orphans(c, k) = {n.id : n \in NodesNow(c, k)}
<1> DEFINE R == RowsOf(c.dims[c.dims[k].leaf_dimension].source.table)
           L == Levels(c.dims, c.dims[k])
           listed == {n.id : n \in NodesNow(c, k)}
<1>1. c.dims[k].ragged_source.type # "provided"
  OBVIOUS
<1>2. \A n : n \in NodesNow(c, k) <=>
             \/ n = Node(Root, "all")
             \/ \E r \in R, m \in DOMAIN L : HasMember(r, L[m]) /\ n = Node(NodeAt(r, L[m]), L[m].type)
  <2>1. PICK rows : rows = R
    OBVIOUS
  <2>2. PICK levels : levels = L
    OBVIOUS
  <2>3. ASSUME NEW n
        PROVE  n \in NodesNow(c, k) <=> ListNode(n, rows, levels)
    BY <1>1, <2>1, <2>2, NodesAre
  <2> HIDE DEF R, L
  <2>4. QED
    BY <2>1, <2>2, <2>3 DEF ListNode
<1>3. \A v : v \in Orphans(c, k) <=>
            /\ v \in Yielded(c, k) /\ v # Root
            /\ \A r \in R, l \in Range(L) : NodeAt(r, l) = v => ~HasMember(r, l)
  BY DEF Orphans, Yielded, HasMember
<1>4. \A id, type : Node(id, type).id = id
  BY DEF Node
<1>5. Root \in listed
  <2>1. Node(Root, "all") \in NodesNow(c, k)
    BY <1>2
  <2>2. QED
    BY <1>4, <2>1
<1>6. ASSUME NEW v, v # Root PROVE v \in listed <=> \E r \in R, m \in DOMAIN L : HasMember(r, L[m]) /\ v = NodeAt(r, L[m])
  <2>1. ASSUME v \in listed PROVE \E r \in R, m \in DOMAIN L : HasMember(r, L[m]) /\ v = NodeAt(r, L[m])
    <3>1. PICK n \in NodesNow(c, k) : v = n.id
      BY <2>1
    <3>2. PICK r \in R, m \in DOMAIN L : HasMember(r, L[m]) /\ n = Node(NodeAt(r, L[m]), L[m].type)
      BY <1>2, <1>4, <1>6, <3>1
    <3>3. QED
      BY <1>4, <3>1, <3>2
  <2>2. ASSUME NEW r \in R, NEW m \in DOMAIN L, HasMember(r, L[m]), v = NodeAt(r, L[m]) PROVE v \in listed
    <3>1. Node(NodeAt(r, L[m]), L[m].type) \in NodesNow(c, k)
      BY <1>2, <2>2
    <3>2. QED
      BY <1>4, <2>2, <3>1
  <2> HIDE DEF listed
  <2>3. QED
    BY <2>1, <2>2
<1>7. ASSUME NEW v \in Mapped(c, k), v # Root PROVE v \in Yielded(c, k)
  <2>1. v \in Everyone(EdgesNow(c, k), LeavesNow(c, k))
    BY <1>7 DEF Mapped, Under, Everyone
  <2>2. QED
    BY <1>7, <2>1, NodesListed
<1>8. ASSUME NEW v \in listed, v # Root PROVE v \in Mapped(c, k) /\ v \notin Orphans(c, k)
  <2>1. PICK r \in R, m \in DOMAIN L : HasMember(r, L[m]) /\ v = NodeAt(r, L[m])
    BY <1>6, <1>8
  <2>2. <<v, NodeAt(r, L[Len(L)])>> \in Under(EdgesNow(c, k), LeavesNow(c, k))
    BY <1>1, <2>1, RowsRise
  <2>3. PICK pair \in Under(EdgesNow(c, k), LeavesNow(c, k)) : pair[1] = v
    BY <2>2
  <2>4. L[m] \in Range(L)
    BY DEF Range
  <2>5. QED
    BY <1>3, <2>1, <2>3, <2>4 DEF Mapped
<1>9. ASSUME NEW v \in Yielded(c, k), v # Root, v \notin Orphans(c, k) PROVE v \in listed
  <2>1. PICK r \in R, l \in Range(L) : NodeAt(r, l) = v /\ HasMember(r, l)
    BY <1>3, <1>9
  <2>2. PICK m \in DOMAIN L : L[m] = l
    BY DEF Range
  <2>3. QED
    BY <1>6, <1>9, <2>1, <2>2
<1>10. Root \notin Orphans(c, k)
  BY <1>3
<1> HIDE DEF listed
<1>11. QED
  BY <1>5, <1>7, <1>8, <1>9, <1>10 DEF listed

\* Settled, every mapping is right: with nothing owed each mapping is the
\* rollup of the rows and the catalogue of now, which is the relation it should
\* be, and its nodes are those listed, but for the orphans.
LEMMA SettledFollows ==
    ASSUME DeploymentInv
    PROVE  SettledClosuresAreCurrent
<1>1. SUFFICES ASSUME Settled, NEW k \in RaggedDims(Now),
                      ClosureOf(Now, k).makes[2] \in DOMAIN closures
               PROVE  LET name == ClosureOf(Now, k).makes[2]
                      IN /\ closures[name] = Under(EdgesNow(Now, k), LeavesNow(Now, k))
                         /\ Now.dims[k].ragged_source.type = "generated" =>
                              ({pair[1] : pair \in closures[name]} \cup {Root}) \ Orphans(Now, k)
                                = {n.id : n \in NodesNow(Now, k)}
  BY DEF SettledClosuresAreCurrent, Now, ClosureOf
<1>2. disk \in Accepting /\ Now = Catalogue(disk) /\ owed = {}
  BY <1>1 DEF Settled, Fits, Now
<1> DEFINE rows == closures[ClosureOf(Now, k).makes[2]]
<1>3. rows = Rollup(EdgesNow(Now, k), LeavesNow(Now, k))
  BY <1>1, <1>2 DEF DeploymentInv, Books, Fits, ClosureCurrent, Value
<1>4. IsFiniteSet(EdgesNow(Now, k)) /\ IsFiniteSet(LeavesNow(Now, k))
  BY <1>2, FiniteRows DEF DeploymentInv
<1>5. rows = Under(EdgesNow(Now, k), LeavesNow(Now, k))
  BY <1>3, <1>4, RollupIsUnder
<1>6. {pair[1] : pair \in rows} = Mapped(Now, k)
  BY <1>5 DEF Mapped
<1> HIDE DEF rows
<1>7. ASSUME Now.dims[k].ragged_source.type = "generated"
      PROVE  ({pair[1] : pair \in rows} \cup {Root}) \ Orphans(Now, k) = {n.id : n \in NodesNow(Now, k)}
  BY <1>2, <1>6, <1>7, MappedListed
<1>8. QED
  BY <1>5, <1>7 DEF rows

\* SettledClosuresAreCurrent, of the refreshes loads and commands make: where no
\* two of these jobs overlap, a mapping is that of the rows and the catalogue of
\* now whenever nothing is owed to it, and of the nodes its node list has but for
\* the orphans, whatever was published, replaced or stopped half-way before.
THEOREM MappingsFollowTheRows ==
    ASSUME Serialised
    PROVE  DeploymentSpec => []SettledClosuresAreCurrent
<1>1. DeploymentInit => DeploymentInv
  BY DeploymentInductive
<1>2. DeploymentInv /\ [DeploymentNext]_deploymentVars => DeploymentInv'
  BY DeploymentInductive
<1>3. DeploymentInv => SettledClosuresAreCurrent
  BY SettledFollows
<1>4. QED
  BY <1>1, <1>2, <1>3, PTL DEF DeploymentSpec

-----------------------------------------------------------------------------
(* Catalogues that compute.                                                *)

\* A step of peeling: the nodes left that no node left refers to.
Free(graph, P) == {k \in DOMAIN graph \ P : \A m \in DOMAIN graph \ P : k \notin graph[m]}

\* Peeling a graph, as many times as it has nodes.
Peels(graph, p) ==
    /\ p[0] = {}
    /\ \A n \in 1 .. Cardinality(DOMAIN graph) : p[n] = p[n - 1] \cup Free(graph, p[n - 1])

\* Without a cycle peeling takes all of it: what HasCycle decides by taking,
\* again and again, what nothing left refers to.
LEMMA PeelingEnds ==
    ASSUME NEW graph, IsFiniteSet(DOMAIN graph), ~HasCycle(graph)
    PROVE  \E p : Peels(graph, p) /\ p[Cardinality(DOMAIN graph)] = DOMAIN graph
<1> DEFINE D == DOMAIN graph
           N == Cardinality(D)
           U == SUBSET D
           next(P) == LET left == D \ P IN P \cup {k \in left : \A m \in left : k \notin graph[m]}
           Body(p) == [n \in 0 .. N |-> IF n = 0 THEN {} ELSE
                        LET left == D \ p[n - 1] IN p[n - 1] \cup {k \in left : \A m \in left : k \notin graph[m]}]
           peeled == CHOOSE p : p = Body(p)
           G == [x \in U \X Nat |-> next(x[1])]
<1>1. N \in Nat
  BY FS_CardinalityType
<1>2. \A P : next(P) = P \cup Free(graph, P)
  BY DEF Free
<1>3. G \in [U \X Nat -> U]
  OBVIOUS
<1>4. PICK f : Iterates(f, 0, N, U, {}, G)
  <2>1. {} \in U /\ Steps(G, U)
    BY <1>3 DEF Steps
  <2> HIDE DEF G, U, N
  <2>2. QED
    BY <1>1, <2>1, Recursion
<1>5. f \in [0 .. N -> U] /\ f[0] = {} /\ \A n \in 1 .. N : f[n] = next(f[n - 1])
  <2>1. f \in [0 .. N -> U] /\ f[0] = {} /\ \A n \in 0 + 1 .. N : f[n] = G[<<f[n - 1], n>>]
    BY <1>4 DEF Iterates
  <2>2. ASSUME NEW n \in 1 .. N PROVE f[n] = next(f[n - 1])
    <3>1. n - 1 \in 0 .. N /\ n \in Nat /\ n \in 0 + 1 .. N
      BY <1>1
    <3>2. f[n - 1] \in U
      <4> HIDE DEF U, N
      <4>1. QED
        BY <2>1, <3>1
    <3>3. <<f[n - 1], n>> \in U \X Nat
      BY <3>1, <3>2
    <3>4. G[<<f[n - 1], n>>] = next(f[n - 1])
      <4> HIDE DEF U, next
      <4>1. QED
        BY <3>3
    <3>5. QED
      BY <2>1, <3>1, <3>4
  <2>3. QED
    BY <2>1, <2>2
<1>6. f = Body(f)
  <2> DEFINE g == [n \in 0 .. N |-> IF n = 0 THEN {} ELSE next(f[n - 1])]
  <2>1. DOMAIN f = 0 .. N /\ DOMAIN g = 0 .. N
    BY <1>5
  <2>2. ASSUME NEW n \in 0 .. N PROVE f[n] = g[n]
    <3>1. n = 0 \/ n \in 1 .. N
      BY <1>1
    <3> HIDE DEF next
    <3>2. QED
      BY <1>5, <3>1
  <2>3. f = g
    <3>1. f = [n \in 0 .. N |-> f[n]]
      BY <1>5
    <3>2. g = [n \in 0 .. N |-> g[n]]
      OBVIOUS
    <3> HIDE DEF g
    <3>3. QED
      BY <2>2, <3>1, <3>2
  <2>4. QED
    BY <2>3
<1>7. peeled = Body(peeled)
  <2> HIDE DEF Body
  <2>1. QED
    BY <1>6
<1>8. peeled[N] = D
  BY DEF HasCycle
<1> HIDE DEF peeled
<1>9. Peels(graph, peeled)
  <2>1. peeled[0] = {}
    BY <1>1, <1>7
  <2>2. ASSUME NEW n \in 1 .. N PROVE peeled[n] = next(peeled[n - 1])
    <3>1. n \in 0 .. N /\ n # 0
      BY <1>1
    <3>2. QED
      BY <1>7, <3>1
  <2>3. QED
    BY <1>2, <2>1, <2>2 DEF Peels
<1>10. QED
  BY <1>8, <1>9

\* What leads to a node it leads to, and what it refers to, it leads to.
LEMMA LeadsOn ==
    ASSUME NEW graph, NEW k \in DOMAIN graph
    PROVE  /\ graph[k] \cap DOMAIN graph \subseteq LeadsTo(graph, k)
           /\ \A x \in LeadsTo(graph, k) : graph[x] \cap DOMAIN graph \subseteq LeadsTo(graph, k)
BY DEF LeadsTo

\* A node does not lead to what is outside a set it stays in.
LEMMA NotLed ==
    ASSUME NEW graph, NEW k \in DOMAIN graph, NEW S \in SUBSET DOMAIN graph, k \notin S,
           graph[k] \cap DOMAIN graph \subseteq S,
           \A x \in S : graph[x] \cap DOMAIN graph \subseteq S
    PROVE  k \notin LeadsTo(graph, k)
BY DEF LeadsTo

\* In a graph HasCycle accepts no node leads to itself.
LEMMA NoCycle ==
    ASSUME NEW graph, IsFiniteSet(DOMAIN graph), ~HasCycle(graph)
    PROVE  \A k \in DOMAIN graph : k \notin LeadsTo(graph, k)
<1> DEFINE D == DOMAIN graph
           N == Cardinality(D)
<1>1. N \in Nat
  BY FS_CardinalityType
<1>2. PICK p : Peels(graph, p) /\ p[N] = D
  BY PeelingEnds
<1> DEFINE Closed(P) == P \subseteq D /\ \A x \in D \ P : graph[x] \cap D \subseteq D \ P
           Clear(P) == \A k \in P : k \notin LeadsTo(graph, k)
           Good == {n \in 0 .. N : Closed(p[n]) /\ Clear(p[n])}
<1>3. 0 \in Good
  <2>1. p[0] = {}
    BY <1>2 DEF Peels
  <2>2. QED
    BY <1>1, <2>1
<1>4. ASSUME NEW n \in 0 .. N, n < N, n \in Good PROVE n + 1 \in Good
  <2>1. n + 1 \in 1 .. N /\ (n + 1) - 1 = n /\ n + 1 \in 0 .. N
    BY <1>1, <1>4
  <2> DEFINE P == p[n]
             Q == p[n + 1]
  <2>2. Q = P \cup Free(graph, P)
    BY <1>2, <2>1 DEF Peels
  <2>3. Closed(P) /\ Clear(P)
    BY <1>4
  <2> HIDE DEF P, Q
  <2>4. Closed(Q)
    BY <2>2, <2>3 DEF Free
  <2>5. ASSUME NEW k \in Free(graph, P) PROVE k \notin LeadsTo(graph, k)
    <3> DEFINE S == (D \ P) \ {k}
    <3>1. k \in D /\ k \notin P /\ \A m \in D \ P : k \notin graph[m]
      BY <2>5 DEF Free
    <3>2. S \in SUBSET D /\ k \notin S
      OBVIOUS
    <3>3. graph[k] \cap D \subseteq S
      BY <2>3, <3>1
    <3>4. \A x \in S : graph[x] \cap D \subseteq S
      BY <2>3, <3>1
    <3> HIDE DEF S
    <3>5. QED
      BY <3>1, <3>2, <3>3, <3>4, NotLed
  <2>6. Clear(Q)
    BY <2>2, <2>3, <2>5
  <2>7. QED
    BY <2>1, <2>4, <2>6 DEF Q
<1>5. N \in Good
  <2> HIDE DEF Good, N
  <2>1. 0 .. N \subseteq Good
    BY <1>1, <1>3, <1>4, Inductive
  <2>2. QED
    BY <1>1, <2>1
<1>6. QED
  BY <1>2, <1>5

\* The lines of a statement, those of the statements it joins taken from below.
LineFrom(c, below, n, visiting) ==
    LET s == ParseStatement(c.statements[n])
        joined(e) == IF e = "separator" THEN <<e>> ELSE below[e]
    IN IF n \in visiting THEN <<"circular">>
       ELSE IF s.lines # Unset THEN s.lines
       ELSE FlattenSeq([i \in DOMAIN s.concat |-> joined(s.concat[i])])

\* The lines of every statement, and what a table of them has to satisfy.
LinesAt(c, L, visiting) == [n \in DOMAIN c.statements |-> LineFrom(c, L[visiting \cup {n}], n, visiting)]
Resolves(c, L) == L = [visiting \in SUBSET DOMAIN c.statements |-> LinesAt(c, L, visiting)]
ResolvesOn(c, L, V) == L = [visiting \in V |-> LinesAt(c, L, visiting)]

\* ResolveStatement reads a table of that kind, if there is one.
LEMMA ResolvedBy ==
    ASSUME NEW c, \E L : Resolves(c, L)
    PROVE  \E L : Resolves(c, L) /\ \A name : ResolveStatement(c, name) = L[{}][name]
<1> DEFINE L0 == CHOOSE L : Resolves(c, L)
<1>1. Resolves(c, L0)
  OBVIOUS
<1>2. \A name : ResolveStatement(c, name) = L0[{}][name]
  BY DEF ResolveStatement, Resolves, LinesAt, LineFrom
<1>3. QED
  BY <1>1, <1>2

\* What fewer than m statements are not among.
Small(all, m) == {v \in SUBSET all : Cardinality(all \ v) < m}

\* Visiting one more leaves fewer.
LEMMA Fewer ==
    ASSUME NEW all, IsFiniteSet(all), NEW m \in Nat, NEW v \in Small(all, m + 1), NEW n \in all \ v
    PROVE  v \cup {n} \in Small(all, m)
<1>1. IsFiniteSet(all \ v)
  BY FS_Difference
<1>2. Cardinality((all \ v) \ {n}) = Cardinality(all \ v) - 1 /\ Cardinality(all \ v) \in Nat
  BY <1>1, FS_RemoveElement, FS_CardinalityType
<1>3. (all \ v) \ {n} = all \ (v \cup {n})
  OBVIOUS
<1>4. Cardinality(all \ v) < m + 1
  BY DEF Small
<1>5. Cardinality(all \ (v \cup {n})) < m
  BY <1>2, <1>3, <1>4
<1>6. v \cup {n} \in SUBSET all
  BY DEF Small
<1>7. QED
  BY <1>5, <1>6 DEF Small

\* The sets by how many they leave: none at 0, all of them in the end.
LEMMA AllSmall ==
    ASSUME NEW all, IsFiniteSet(all)
    PROVE  /\ Cardinality(all) + 1 \in Nat /\ Small(all, 0) = {}
           /\ Small(all, Cardinality(all) + 1) = SUBSET all
<1>1. Cardinality(all) \in Nat
  BY FS_CardinalityType
<1>2. \A v \in SUBSET all : Cardinality(all \ v) \in Nat /\ Cardinality(all \ v) <= Cardinality(all)
  <2>1. SUFFICES ASSUME NEW v \in SUBSET all
                 PROVE  Cardinality(all \ v) \in Nat /\ Cardinality(all \ v) <= Cardinality(all)
    OBVIOUS
  <2>2. all \ v \in SUBSET all /\ IsFiniteSet(all \ v)
    BY FS_Difference
  <2>3. QED
    BY <2>2, FS_Subset, FS_CardinalityType
<1>3. QED
  BY <1>1, <1>2 DEF Small

\* The lines where some are visited are a matter of those where one more is.
LEMMA SameLines ==
    ASSUME NEW c, NEW f, NEW g, NEW v,
           \A n \in DOMAIN c.statements \ v : f[v \cup {n}] = g[v \cup {n}]
    PROVE  LinesAt(c, f, v) = LinesAt(c, g, v)
<1>1. ASSUME NEW n \in DOMAIN c.statements
      PROVE  LineFrom(c, f[v \cup {n}], n, v) = LineFrom(c, g[v \cup {n}], n, v)
  <2>1. CASE n \in v
    BY <2>1 DEF LineFrom
  <2>2. CASE n \notin v
    BY <2>2
  <2>3. QED
    BY <2>1, <2>2
<1>2. QED
  BY <1>1 DEF LinesAt

\* There is a table of the lines of all statements.
LEMMA LinesExist ==
    ASSUME NEW c, IsFiniteSet(DOMAIN c.statements)
    PROVE  \E L : Resolves(c, L)
<1> DEFINE all == DOMAIN c.statements
           N == Cardinality(all) + 1
           Good == {m \in 0 .. N : \E f : ResolvesOn(c, f, Small(all, m))}
<1>1. N \in Nat /\ Small(all, 0) = {} /\ Small(all, N) = SUBSET all
  BY AllSmall
<1> HIDE DEF N
<1>2. 0 \in Good
  <2>1. ResolvesOn(c, [visiting \in {} |-> {}], Small(all, 0))
    BY <1>1 DEF ResolvesOn
  <2>2. QED
    BY <1>1, <2>1
<1>3. ASSUME NEW m \in 0 .. N, m < N, m \in Good PROVE m + 1 \in Good
  <2>1. PICK f : ResolvesOn(c, f, Small(all, m))
    BY <1>3
  <2> DEFINE g == [v \in Small(all, m + 1) |-> LinesAt(c, f, v)]
  <2>2. ASSUME NEW v \in Small(all, m + 1), NEW n \in all \ v PROVE f[v \cup {n}] = g[v \cup {n}]
    <3>1. v \cup {n} \in Small(all, m)
      BY <1>1, <1>3, Fewer
    <3>2. v \cup {n} \in Small(all, m + 1)
      <4>1. Cardinality(all \ (v \cup {n})) \in Nat
        BY FS_CardinalityType, FS_Difference
      <4>2. v \cup {n} \in SUBSET all /\ Cardinality(all \ (v \cup {n})) < m
        BY <3>1 DEF Small
      <4>3. Cardinality(all \ (v \cup {n})) < m + 1
        BY <1>1, <4>1, <4>2
      <4>4. QED
        BY <4>2, <4>3 DEF Small
    <3>3. f[v \cup {n}] = LinesAt(c, f, v \cup {n})
      BY <2>1, <3>1 DEF ResolvesOn
    <3>4. QED
      BY <3>2, <3>3
  <2>3. ASSUME NEW v \in Small(all, m + 1) PROVE g[v] = LinesAt(c, g, v)
    <3>1. g[v] = LinesAt(c, f, v)
      OBVIOUS
    <3> HIDE DEF g
    <3>2. LinesAt(c, f, v) = LinesAt(c, g, v)
      BY <2>2, SameLines
    <3>3. QED
      BY <3>1, <3>2
  <2>4. g = [v \in Small(all, m + 1) |-> g[v]]
    OBVIOUS
  <2> HIDE DEF g
  <2>5. ResolvesOn(c, g, Small(all, m + 1))
    BY <2>3, <2>4 DEF ResolvesOn
  <2>6. m + 1 \in 0 .. N
    BY <1>1, <1>3
  <2>7. QED
    BY <2>5, <2>6
<1>4. N \in Good
  <2> HIDE DEF Good
  <2>1. 0 .. N \subseteq Good
    BY <1>1, <1>2, <1>3, Inductive
  <2>2. QED
    BY <1>1, <2>1
<1>5. QED
  BY <1>1, <1>4 DEF ResolvesOn, Resolves

\* A statement's joins, as the graph that is looked at for cycles has them.
JoinsOf(c) ==
    [n \in DOMAIN c.statements |->
        IF ParseStatement(c.statements[n]).concat = Unset THEN {}
        ELSE Names(ParseStatement(c.statements[n]).concat)]

\* Lines that are metrics of the catalogue.
Lined(c, s) == IsSeq(s) /\ Names(s) \subseteq DOMAIN c.metrics

\* Lines joined from lines that are metrics are metrics.
LEMMA JoinsLined ==
    ASSUME NEW c, NEW s, IsSeq(s), NEW below,
           \A e \in Names(s) : Lined(c, below[e])
    PROVE  Lined(c, FlattenSeq([i \in DOMAIN s |-> IF s[i] = "separator" THEN <<s[i]>> ELSE below[s[i]]]))
<1> DEFINE S == DOMAIN c.metrics \cup {"separator"}
           block(i) == IF s[i] = "separator" THEN <<s[i]>> ELSE below[s[i]]
           b == [i \in DOMAIN s |-> block(i)]
<1>1. Len(s) \in Nat /\ DOMAIN s = 1 .. Len(s)
  BY LenProperties DEF IsSeq
<1>2. ASSUME NEW q, Lined(c, q) PROVE q \in Seq(S)
  <2>1. IsSeq(q) /\ Names(q) \subseteq DOMAIN c.metrics
    BY <1>2 DEF Lined
  <2>2. DOMAIN q = 1 .. Len(q) /\ Len(q) \in Nat /\ q = [i \in 1 .. Len(q) |-> q[i]]
    BY <2>1, LenProperties DEF IsSeq
  <2>3. \A i \in DOMAIN q : q[i] \in S
    BY <2>1 DEF Names, Range
  <2> HIDE DEF S
  <2>4. QED
    BY <2>2, <2>3
<1>3. ASSUME NEW i \in DOMAIN s PROVE block(i) \in Seq(S)
  <2>1. CASE s[i] = "separator"
    <3>1. s[i] \in S
      BY <2>1
    <3>2. block(i) = <<s[i]>>
      BY <2>1
    <3> HIDE DEF S, block
    <3>3. QED
      BY <3>1, <3>2
  <2>2. CASE s[i] # "separator"
    <3>1. s[i] \in Names(s)
      BY <2>2 DEF Names, Range
    <3>2. block(i) = below[s[i]]
      BY <2>2
    <3> HIDE DEF S, block
    <3>3. QED
      BY <1>2, <3>1, <3>2
  <2>3. QED
    BY <2>1, <2>2
<1>4. b \in Seq(Seq(S))
  <2>1. b \in [1 .. Len(s) -> Seq(S)]
    <3> HIDE DEF S, block
    <3>1. QED
      BY <1>1, <1>3
  <2> HIDE DEF b, S
  <2>2. QED
    BY <1>1, <2>1
<1>5. FlattenSeq(b) \in Seq(S)
  <2> HIDE DEF b, S
  <2>1. QED
    BY <1>4, Flattened
<1>6. ASSUME NEW q \in Seq(S) PROVE Lined(c, q)
  <2>1. IsSeq(q)
    <3> HIDE DEF S
    <3>1. QED
      BY SeqIs
  <2>2. \A i \in DOMAIN q : q[i] \in S
    <3> HIDE DEF S
    <3>1. QED
      OBVIOUS
  <2>3. Names(q) \subseteq DOMAIN c.metrics
    BY <2>2 DEF Names, Range
  <2>4. QED
    BY <2>1, <2>3 DEF Lined
<1> HIDE DEF S
<1>7. QED
  BY <1>5, <1>6

\* In a catalogue whose statements fit, resolving one ends, and in metrics only:
\* concatenation meets no circle.
LEMMA LinesAreMetrics ==
    ASSUME NEW c, IsFiniteSet(DOMAIN c.statements), StatementsFit(c),
           \A n \in DOMAIN c.statements :
             IsSeq(ParseStatement(c.statements[n]).lines) /\ IsSeq(ParseStatement(c.statements[n]).concat),
           NEW name \in DOMAIN c.statements
    PROVE  Names(ResolveStatement(c, name)) \subseteq DOMAIN c.metrics
<1> DEFINE all == DOMAIN c.statements
           N == Cardinality(all) + 1
           g == JoinsOf(c)
           Above(n, v) == \A x \in v : n \in LeadsTo(g, x)
<1>1. N \in Nat /\ Small(all, 0) = {} /\ Small(all, N) = SUBSET all
  BY AllSmall
<1> HIDE DEF N
<1>2. PICK L : Resolves(c, L) /\ ResolveStatement(c, name) = L[{}][name]
  <2>1. \E L : Resolves(c, L)
    BY LinesExist
  <2>2. QED
    BY <2>1, ResolvedBy
<1>3. ~HasCycle(g)
  BY DEF StatementsFit, JoinsOf
<1>4. DOMAIN g = all
  BY DEF JoinsOf
<1>5. \A n \in all : n \notin LeadsTo(g, n)
  BY <1>3, <1>4, NoCycle
<1>6. ASSUME NEW n \in all
      PROVE  LET s == ParseStatement(c.statements[n])
             IN /\ s.lines # Unset => Names(s.lines) \subseteq DOMAIN c.metrics
                /\ s.lines = Unset => s.concat # Unset /\ Names(s.concat) \subseteq all /\ g[n] = Names(s.concat)
  BY DEF StatementsFit, JoinsOf
<1> DEFINE Good == {m \in 0 .. N : \A v \in Small(all, m) : \A n \in all :
                       Above(n, v) => Lined(c, L[v][n])}
<1>7. 0 \in Good
  BY <1>1
<1>8. ASSUME NEW m \in 0 .. N, m < N, m \in Good PROVE m + 1 \in Good
  <2>1. ASSUME NEW v \in Small(all, m + 1), NEW n \in all, Above(n, v) PROVE Lined(c, L[v][n])
    <3> DEFINE s == ParseStatement(c.statements[n])
               w == v \cup {n}
    <3>1. v \in SUBSET all
      BY DEF Small
    <3>2. L[v][n] = LineFrom(c, L[w], n, v)
      <4>1. L[v] = LinesAt(c, L, v)
        BY <1>2, <3>1 DEF Resolves
      <4>2. LinesAt(c, L, v)[n] = LineFrom(c, L[w], n, v)
        BY DEF LinesAt
      <4>3. QED
        BY <4>1, <4>2
    <3>3. n \notin v
      BY <1>5, <2>1
    <3>4. w \in Small(all, m)
      BY <1>1, <1>8, <3>3, Fewer
    <3>5. CASE s.lines # Unset
      <4>1. L[v][n] = s.lines
        BY <3>2, <3>3, <3>5 DEF LineFrom
      <4>2. QED
        BY <1>6, <3>5, <4>1 DEF Lined
    <3>6. CASE s.lines = Unset
      <4> DEFINE below == L[w]
      <4>1. L[v][n] = FlattenSeq([i \in DOMAIN s.concat |->
                          IF s.concat[i] = "separator" THEN <<s.concat[i]>> ELSE below[s.concat[i]]])
        BY <3>2, <3>3, <3>6 DEF LineFrom
      <4>2. Names(s.concat) \subseteq all /\ g[n] = Names(s.concat)
        BY <1>6, <3>6
      <4>3. ASSUME NEW e \in Names(s.concat) PROVE Lined(c, below[e])
        <5>1. e \in all /\ e \in g[n] \cap DOMAIN g
          BY <1>4, <4>2
        <5>2. Above(e, w)
          <6> HIDE DEF g
          <6>1. e \in LeadsTo(g, n)
            BY <1>4, <5>1, LeadsOn
          <6>2. \A x \in v : e \in LeadsTo(g, x)
            <7>1. SUFFICES ASSUME NEW x \in v PROVE e \in LeadsTo(g, x)
              OBVIOUS
            <7>2. x \in DOMAIN g /\ n \in LeadsTo(g, x)
              BY <1>4, <2>1, <3>1
            <7>3. QED
              BY <5>1, <7>2, LeadsOn
          <6>3. QED
            BY <6>1, <6>2
        <5> HIDE DEF Above
        <5>3. QED
          BY <1>8, <3>4, <5>1, <5>2
      <4>4. IsSeq(s.concat)
        OBVIOUS
      <4> HIDE DEF s, below, g
      <4>5. QED
        BY <4>1, <4>3, <4>4, JoinsLined
    <3>7. QED
      BY <3>5, <3>6
  <2>2. m + 1 \in 0 .. N
    BY <1>1, <1>8
  <2> HIDE DEF Above
  <2>3. QED
    BY <2>1, <2>2
<1>9. N \in Good
  <2> HIDE DEF Good
  <2>1. 0 .. N \subseteq Good
    BY <1>1, <1>7, <1>8, Inductive
  <2>2. QED
    BY <1>1, <2>1
<1>10. Lined(c, L[{}][name])
  <2>1. {} \in Small(all, N) /\ Above(name, {})
    BY <1>1
  <2> HIDE DEF Above
  <2>2. QED
    BY <1>9, <2>1
<1>11. QED
  BY <1>2, <1>10 DEF Lined

\* The catalogue served is one that was accepted.
LEMMA ServedAccepted == DeploymentSpec => [](served \in Accepting \cup {0})
<1> DEFINE J == served \in Accepting \cup {0}
<1>1. DeploymentInit => J
  BY DEF DeploymentInit
<1>2. ASSUME J, [DeploymentNext]_deploymentVars PROVE J'
  <2>1. CASE ColdStart
    BY <2>1 DEF ColdStart, Fits
  <2>2. CASE Reload
    BY <1>2, <2>2 DEF Reload, Fits
  <2>3. CASE served' = served
    BY <1>2, <2>3
  <2>4. QED
    BY <1>2, <2>1, <2>2, <2>3 DEF DeploymentNext, deploymentVars, Edit, Provision, RefreshCommand, Publish, CreateTable, CreateView,
         SeedScenarios, ReadCatalogue, BuildClosure, ReplaceClosure, Complete, Stop, Ask, Search, Answered
<1>3. QED
  BY <1>1, <1>2, PTL DEF DeploymentSpec

\* An accepted catalogue computes: its metrics refer to no metric that leads back
\* to them, and its statements resolve to its metrics.
LEMMA AcceptedIsSound ==
    ASSUME served \in Accepting
    PROVE  ServedIsSound
<1> DEFINE c == Catalogue(served)
<1>1. Valid(c)
  BY CatalogueIs
<1>2. IsFiniteSet(DOMAIN c.dims) /\ IsFiniteSet(DOMAIN c.metrics) /\ IsFiniteSet(DOMAIN c.statements)
  BY InstancesAssumption
<1> HIDE DEF c
<1>3. \A k \in DOMAIN c.metrics : k \notin LeadsTo(MetricGraph(c), k)
  <2> DEFINE g == MetricGraph(c)
  <2>1. DOMAIN g = DOMAIN c.metrics /\ ~HasCycle(g)
    BY <1>1 DEF MetricGraph, Valid, MetricsFit
  <2> HIDE DEF g
  <2>2. \A k \in DOMAIN g : k \notin LeadsTo(g, k)
    BY <1>2, <2>1, NoCycle
  <2>3. QED
    BY <2>1, <2>2 DEF g
<1>4. \A k \in DOMAIN c.dims : k \notin LeadsTo(ParentGraph(c), k)
  <2> DEFINE g == ParentGraph(c)
  <2>1. DOMAIN g = DOMAIN c.dims /\ ~HasCycle(g)
    BY <1>1 DEF ParentGraph, Valid, DimensionsFit
  <2> HIDE DEF g
  <2>2. \A k \in DOMAIN g : k \notin LeadsTo(g, k)
    BY <1>2, <2>1, NoCycle
  <2>3. QED
    BY <2>1, <2>2 DEF g
<1>5. \A n \in DOMAIN c.statements : Names(ResolveStatement(c, n)) \subseteq DOMAIN c.metrics
  <2>1. StatementsFit(c)
    BY <1>1 DEF Valid
  <2>2. \A n \in DOMAIN c.statements :
          IsSeq(ParseStatement(c.statements[n]).lines) /\ IsSeq(ParseStatement(c.statements[n]).concat)
    BY InstancesAssumption DEF c
  <2>3. QED
    BY <1>2, <2>1, <2>2, LinesAreMetrics
<1>6. \A d \in {c.domains[n] : n \in DOMAIN c.domains} : \A k \in d.metrics :
        LET m == c.metrics[k]
        IN ~m.derived => /\ m.rollup_method = "avg" => m.aggregation = "sum"
                         /\ d.backend_kind = "ibis" => m.rollup_method = "sum"
  <2>1. \A n \in DOMAIN c.domains : DomainFits(c, c.domains[n])
    BY <1>1 DEF Valid
  <2>2. QED
    BY <2>1 DEF DomainFits
<1>7. \A k \in RaggedDims(c) :
        c.dims[k].ragged_source.type = "generated" =>
            Last(Levels(c.dims, c.dims[k])).column = c.dims[c.dims[k].leaf_dimension].source.key_column
  BY LevelsEnd DEF c
<1>8. QED
  BY <1>3, <1>4, <1>5, <1>6, <1>7 DEF ServedIsSound, c

\* ServedIsSound, of the catalogue the reading side has: it is one that was
\* accepted, no metric of it leads to itself, and its statements resolve to
\* metrics.  No assumption on overlapping jobs.
THEOREM ServedComputes == DeploymentSpec => []ServedIsSound
<1>1. DeploymentSpec => [](served \in Accepting \cup {0})
  BY ServedAccepted
<1>2. served \in Accepting \cup {0} => ServedIsSound
  BY AcceptedIsSound DEF ServedIsSound
<1>3. QED
  BY <1>1, <1>2, PTL

-----------------------------------------------------------------------------
(* What the statements of the semantic layer make.                         *)

\* The elements of two sequences joined.
LEMMA RangeJoined ==
    ASSUME NEW s, NEW t, IsSeq(s), IsSeq(t)
    PROVE  IsSeq(s \o t) /\ Range(s \o t) = Range(s) \cup Range(t)
<1> DEFINE j == s \o t
<1>1. Joined(s, t, j)
  BY JoinedIs
<1> HIDE DEF j
<1>2. \A x \in Range(j) : x \in Range(s) \/ x \in Range(t)
  BY <1>1 DEF Joined, Range
<1>3. \A x \in Range(s) : x \in Range(j)
  BY <1>1 DEF Joined, Range
<1>4. \A x \in Range(t) : x \in Range(j)
  BY <1>1 DEF Joined, Range
<1>5. IsSeq(j) /\ Range(j) = Range(s) \cup Range(t)
  BY <1>1, <1>2, <1>3, <1>4 DEF Joined
<1>6. QED
  BY <1>5 DEF j

\* Every view of a semantic file is made.
LEMMA FileViewsMake ==
    ASSUME NEW views, IsSeq(views), NEW v \in Range(views)
    PROVE  \E x \in Range(FileViews(views)) : x.makes = <<"semantic", v.name>>
<1>1. PICK n \in DOMAIN views : v = views[n]
  BY DEF Range
<1>2. n \in DOMAIN FileViews(views) /\ FileViews(views)[n].makes = <<"semantic", v.name>>
  BY <1>1 DEF FileViews, Makes
<1>3. QED
  BY <1>2 DEF Range

\* The views to pass through are finitely many.
LEMMA FinitePassthroughs ==
    ASSUME NEW c, NEW i \in Accepting, c = Catalogue(i), NEW existing
    PROVE  IsFiniteSet(Passthroughs(c, existing))
<1> DEFINE P == Passthroughs(c, existing)
           D == {j \in DOMAIN c.dims : IsLeaf(c.dims[j])}
           f == [j \in D |-> c.dims[j].source.table[2]]
<1>1. IsFiniteSet(D)
  BY InstancesAssumption, FS_Subset
<1>2. IsFiniteSet({f[x] : x \in D})
  <2>1. DOMAIN f = D
    OBVIOUS
  <2> HIDE DEF f, D
  <2>2. QED
    BY <1>1, <2>1, FiniteImage
<1>3. P \subseteq {f[x] : x \in D}
  BY DEF Passthroughs
<1> HIDE DEF P, f, D
<1>4. IsFiniteSet(P)
  BY <1>2, <1>3, FS_Subset
<1>5. QED
  BY <1>4 DEF P

\* Every view to pass through is made.
LEMMA PassthroughsMake ==
    ASSUME NEW c, NEW i \in Accepting, c = Catalogue(i),
           NEW name \in Passthroughs(c, {v.name : v \in Range(Instances[i].dims)})
    PROVE  \E x \in Range(PassthroughStatements(c, i)) : x.makes = <<"semantic", name>>
<1> DEFINE P == Passthroughs(c, {v.name : v \in Range(Instances[i].dims)})
           names == SetToSeq(P)
           F == PassthroughStatements(c, i)
<1>1. IsFiniteSet(P) /\ name \in P
  BY FinitePassthroughs
<1>2. PICK n \in 1 .. Cardinality(P) : names[n] = name
  <2> HIDE DEF P
  <2>1. QED
    BY <1>1, EnumeratesSet
<1>3. names \in [1 .. Cardinality(P) -> P]
  <2> HIDE DEF P
  <2>1. QED
    BY <1>1, EnumeratesSet
<1>4. n \in DOMAIN names
  BY <1>3
<1>5. F = [m \in DOMAIN names |-> Makes("view", <<"semantic", names[m]>>, {<<"live", names[m]>>})]
  BY DEF PassthroughStatements
<1> HIDE DEF F, names, P
<1>6. n \in DOMAIN F /\ F[n].makes = <<"semantic", name>>
  BY <1>2, <1>4, <1>5 DEF Makes
<1>7. QED
  BY <1>6 DEF F, Range

\* The edges, nodes and rollup of every hierarchy are made.
LEMMA HierarchiesMake ==
    ASSUME NEW c, IsFiniteSet(DOMAIN c.dims), NEW k \in RaggedDims(c)
    PROVE  {Hierarchy(c, k).edges, Hierarchy(c, k).nodes, Hierarchy(c, k).rollup}
             \subseteq Range(HierarchyStatements(c, FALSE))
<1> DEFINE h(x) == Hierarchy(c, x)
           D == RaggedDims(c)
           S == UNION {{h(x).edges, h(x).nodes, h(x).closure, h(x).rollup} : x \in D}
           of(x) == <<h(x).edges, h(x).nodes, h(x).closure, h(x).rollup>>
           order == SetToSeq(D)
           N == Cardinality(D)
           s == [n \in DOMAIN order |-> of(order[n])]
           F == FlattenSeq(s)
<1>1. HierarchyStatements(c, FALSE) = F
  BY DEF HierarchyStatements
<1>2. IsFiniteSet(D)
  BY FS_Subset DEF RaggedDims
<1>3. N \in Nat /\ order \in [1 .. N -> D] /\ \E n \in 1 .. N : order[n] = k
  <2> HIDE DEF D
  <2>1. QED
    BY <1>2, EnumeratesSet DEF D
<1>4. \A x \in D : of(x) \in Seq(S)
  <2>1. SUFFICES ASSUME NEW x \in D PROVE of(x) \in Seq(S)
    OBVIOUS
  <2>2. {h(x).edges, h(x).nodes, h(x).closure, h(x).rollup} \subseteq S
    OBVIOUS
  <2> HIDE DEF S, h
  <2>3. QED
    BY <2>2
<1> HIDE DEF order, N, D, S
<1>5. s \in Seq(Seq(S)) /\ Len(s) = N
  <2> HIDE DEF of
  <2>1. s \in [1 .. N -> Seq(S)]
    BY <1>3, <1>4
  <2>2. QED
    BY <2>1, <1>3
<1>6. F \in Seq(S) /\ Joins(s, N, F)
  BY <1>5, Flattened
<1>7. PICK j \in 1 .. N : order[j] = k
  BY <1>3
<1>8. s[j] = of(k)
  BY <1>3, <1>7
<1>9. PICK o \in Nat : BlockAt(s, j, o, F)
  BY <1>6 DEF Joins
<1> HIDE DEF F, s, h
<1>10. \A q \in {1, 2, 3, 4} : o + q \in DOMAIN F /\ F[o + q] = of(k)[q]
  <2>1. DOMAIN s[j] = {1, 2, 3, 4}
    BY <1>8
  <2>2. QED
    BY <1>8, <1>9, <2>1 DEF BlockAt
<1>11. {h(k).edges, h(k).nodes, h(k).rollup} \subseteq Range(F)
  BY <1>10 DEF Range
<1>12. QED
  BY <1>1, <1>11 DEF h

\* The statements of the semantic layer, as a set.
Semantics(i) == Range(SemanticStatements(i))

\* What the statements of the semantic layer make.
LEMMA SemanticsAre ==
    ASSUME NEW i \in Accepting
    PROVE  /\ IsSeq(SemanticStatements(i))
           /\ \A x \in Semantics(i) : x.act \in {"view", "closure"}
           /\ \A v \in Range(Instances[i].views) : \E x \in Semantics(i) : x.makes = <<"semantic", v.name>>
           /\ \A v \in Range(Instances[i].dims) : \E x \in Semantics(i) : x.makes = <<"semantic", v.name>>
           /\ \A name \in Passthroughs(Catalogue(i), {v.name : v \in Range(Instances[i].dims)}) :
                \E x \in Semantics(i) : x.makes = <<"semantic", name>>
           /\ \A k \in RaggedDims(Catalogue(i)) : \A y \in RaggedObjects(Catalogue(i), k) :
                \E x \in Semantics(i) : x.makes = y
<1> DEFINE c == Catalogue(i)
           a == FileViews(Instances[i].dims)
           b == PassthroughStatements(c, i)
           h == HierarchyStatements(c, FALSE)
           v == FileViews(Instances[i].views)
<1>1. i \in DOMAIN Instances /\ IsFiniteSet(DOMAIN c.dims) /\ IsSeq(Instances[i].dims) /\ IsSeq(Instances[i].views)
  BY InstancesAssumption DEF Accepting
<1>2. IsSeq(a) /\ IsSeq(v)
  BY <1>1, FileViewsAre DEF OnlyViews
<1>3. IsSeq(b)
  BY PassthroughsAre DEF OnlyViews
<1>4. IsSeq(h)
  <2> HIDE DEF c
  <2>1. FALSE \in BOOLEAN
    OBVIOUS
  <2>2. QED
    BY <1>1, <2>1, HierarchySteps DEF Rebuilds
<1>5. SemanticStatements(i) = ((a \o b) \o h) \o v
  BY DEF SemanticStatements
<1>6. Rebuilds(SemanticStatements(i), c, TRUE)
  BY SemanticSteps
<1>7. \A x \in Range(a) \cup Range(b) \cup Range(h) \cup Range(v) : x \in Semantics(i)
  <2> HIDE DEF a, b, h, v
  <2>1. IsSeq(a \o b) /\ Range(a \o b) = Range(a) \cup Range(b)
    BY <1>2, <1>3, RangeJoined
  <2>2. IsSeq((a \o b) \o h) /\ Range((a \o b) \o h) = Range(a \o b) \cup Range(h)
    BY <1>4, <2>1, RangeJoined
  <2>3. Range(((a \o b) \o h) \o v) = Range((a \o b) \o h) \cup Range(v)
    BY <1>2, <2>2, RangeJoined
  <2>4. QED
    BY <1>5, <2>1, <2>2, <2>3 DEF Semantics
<1>8. IsSeq(SemanticStatements(i)) /\ \A x \in Semantics(i) : x.act \in {"view", "closure"}
  BY <1>6, HierarchyParts DEF Rebuilds, Semantics, Range
<1>9. \A u \in Range(Instances[i].views) : \E x \in Semantics(i) : x.makes = <<"semantic", u.name>>
  BY <1>1, <1>7, FileViewsMake
<1>10. \A u \in Range(Instances[i].dims) : \E x \in Semantics(i) : x.makes = <<"semantic", u.name>>
  BY <1>1, <1>7, FileViewsMake
<1>11. \A name \in Passthroughs(c, {u.name : u \in Range(Instances[i].dims)}) :
                \E x \in Semantics(i) : x.makes = <<"semantic", name>>
  BY <1>7, PassthroughsMake
<1>12. ASSUME NEW k \in RaggedDims(c), NEW y \in RaggedObjects(c, k) PROVE \E x \in Semantics(i) : x.makes = y
  <2>1. {Hierarchy(c, k).edges, Hierarchy(c, k).nodes, Hierarchy(c, k).rollup} \subseteq Range(h)
    <3> HIDE DEF c
    <3>1. QED
      BY <1>1, HierarchiesMake
  <2>2. y \in {Hierarchy(c, k).edges.makes, Hierarchy(c, k).nodes.makes, Hierarchy(c, k).rollup.makes}
    BY DEF RaggedObjects, Hierarchy, Makes
  <2>3. QED
    BY <1>7, <2>1, <2>2
<1>13. QED
  BY <1>8, <1>9, <1>10, <1>11, <1>12

-----------------------------------------------------------------------------
(* The tables of the leaves.                                               *)

\* The fields of a record over its defaults.
LEMMA OverIs ==
    ASSUME NEW raw, NEW defaults
    PROVE  DOMAIN Over(raw, defaults) = DOMAIN raw \cup DOMAIN defaults
BY DEF Over

\* A dimension parsed has a source, and a source that is not empty a table.
LEMMA ParsedSource ==
    ASSUME NEW raw
    PROVE  /\ "source" \in DOMAIN ParseDimension(raw)
           /\ ParseDimension(raw).source # <<>> => "table" \in DOMAIN ParseDimension(raw).source
<1> DEFINE d == Over(raw, DimensionDefaults)
           source == IF Has(d.source, "table") /\ ~Has(d.source, "type")
                     THEN Over(d.source, [mapping |-> <<>>]) ELSE <<>>
<1>1. {"source", "attributes", "leaf_dimension", "levels", "ragged_source"} \subseteq DOMAIN d
  <2>1. {"source", "attributes", "leaf_dimension", "levels", "ragged_source"} \subseteq DOMAIN DimensionDefaults
    BY DEF DimensionDefaults
  <2>2. DOMAIN d = DOMAIN raw \cup DOMAIN DimensionDefaults
    BY OverIs
  <2> HIDE DEF d
  <2>3. QED
    BY <2>1, <2>2
<1>2. "source" \in DOMAIN ParseDimension(raw) /\ ParseDimension(raw).source = source
  BY <1>1 DEF ParseDimension
<1>3. source # <<>> => "table" \in DOMAIN source
  <2> HIDE DEF d
  <2>1. DOMAIN Over(d.source, [mapping |-> <<>>]) = DOMAIN d.source \cup DOMAIN [mapping |-> <<>>]
    BY OverIs
  <2>2. Has(d.source, "table") => "table" \in DOMAIN Over(d.source, [mapping |-> <<>>])
    BY <2>1 DEF Has
  <2>3. QED
    BY <2>2
<1>4. QED
  BY <1>2, <1>3

\* A dimension's table, normalized, is of the semantic layer.
LEMMA NormalizedSource ==
    ASSUME NEW d, "source" \in DOMAIN d, d.source # <<>> => "table" \in DOMAIN d.source,
           NormalizedDimension(d).source # <<>>
    PROVE  NormalizedDimension(d).source.table = <<"semantic", NormalizedDimension(d).source.table[2]>>
<1> DEFINE source == IF d.source = <<>> THEN <<>> ELSE [d.source EXCEPT !.table = Semantic(@)]
<1>1. NormalizedDimension(d).source = source
  BY DEF NormalizedDimension
<1>2. source # <<>> => source.table = Semantic(d.source.table)
  OBVIOUS
<1>3. QED
  BY <1>1, <1>2 DEF Semantic

\* Every leaf table of a catalogue that was loaded is of the semantic layer.
LEMMA LeafTables ==
    ASSUME NEW i \in Accepting, NEW k \in DOMAIN Catalogue(i).dims, IsLeaf(Catalogue(i).dims[k])
    PROVE  Catalogue(i).dims[k].source.table = <<"semantic", Catalogue(i).dims[k].source.table[2]>>
<1> DEFINE all == Listed(Instances[i].files, "dimensions")
           raw == all[CHOOSE n \in DOMAIN all : all[n].key = k]
           f == [x \in Keys(all) |-> NormalizedDimension(ParseDimension(all[CHOOSE n \in DOMAIN all : all[n].key = x]))]
<1>1. Catalogue(i) = Assembled(Instances[i].files)
  BY CatalogueIs
<1>2. Assembled(Instances[i].files).dims = f
  BY DEF Assembled, ByKey, Tabulated
<1>3. k \in Keys(all)
  BY <1>1, <1>2
<1>4. Catalogue(i).dims[k] = NormalizedDimension(ParseDimension(raw))
  BY <1>1, <1>2, <1>3
<1>5. QED
  BY <1>4, ParsedSource, NormalizedSource DEF IsLeaf

-----------------------------------------------------------------------------
(* A provisioning leaves everything the preflight asks for.                *)

\* What the preflight asks for, the statements of the semantic layer make.
LEMMA ChecksAreMade ==
    ASSUME NEW i \in Accepting, Authored(i)
    PROVE  \A y \in CheckedObjects(Catalogue(i)) : \E x \in Semantics(i) : x.makes = y
<1> DEFINE c == Catalogue(i)
           existing == {v.name : v \in Range(Instances[i].dims)}
<1>1. ASSUME NEW n \in DOMAIN c.domains, c.domains[n].backend_kind = "clickhouse"
      PROVE  \E x \in Semantics(i) : x.makes = c.domains[n].source_view
  <2>1. PICK v \in Range(Instances[i].views) : <<"semantic", v.name>> = c.domains[n].source_view
    BY <1>1 DEF Authored
  <2>2. QED
    BY <2>1, SemanticsAre
<1>2. ASSUME NEW k \in DOMAIN c.dims, IsLeaf(c.dims[k])
      PROVE  \E x \in Semantics(i) : x.makes = c.dims[k].source.table
  <2> DEFINE name == c.dims[k].source.table[2]
  <2>1. c.dims[k].source.table = <<"semantic", name>>
    BY <1>2, LeafTables
  <2>2. CASE name \in existing
    <3>1. PICK v \in Range(Instances[i].dims) : name = v.name
      BY <2>2
    <3>2. \E x \in Semantics(i) : x.makes = <<"semantic", v.name>>
      BY SemanticsAre
    <3>3. QED
      BY <2>1, <3>1, <3>2
  <2>3. CASE name \notin existing
    <3>1. name \in Passthroughs(c, existing)
      BY <1>2, <2>3 DEF Passthroughs
    <3>2. \E x \in Semantics(i) : x.makes = <<"semantic", name>>
      <4> HIDE DEF name, existing, c
      <4>1. QED
        BY <3>1, SemanticsAre DEF existing, c
    <3> HIDE DEF name
    <3>3. QED
      BY <2>1, <3>2
  <2>4. QED
    BY <2>2, <2>3
<1>3. ASSUME NEW k \in RaggedDims(c), NEW y \in RaggedObjects(c, k)
      PROVE  \E x \in Semantics(i) : x.makes = y
  BY SemanticsAre
<1>4. QED
  BY <1>1, <1>2, <1>3 DEF CheckedObjects

\* What the reading side names, the preflight asks for.
LEMMA ReadsAreChecked ==
    ASSUME NEW i \in Accepting
    PROVE  RequiredReads(Catalogue(i)) \subseteq CheckedObjects(Catalogue(i)) \cup {<<"semantic", "scenarios">>}
<1> DEFINE c == Catalogue(i)
<1>1. \A n \in DOMAIN c.domains : c.domains[n].backend_kind # "ibis" => c.domains[n].backend_kind = "clickhouse"
  BY InstancesAssumption
<1>2. \A k \in DOMAIN c.dims : IsLeaf(c.dims[k]) => c.dims[k].source.table[1] = "semantic"
  <2>1. SUFFICES ASSUME NEW k \in DOMAIN c.dims, IsLeaf(c.dims[k]) PROVE c.dims[k].source.table[1] = "semantic"
    OBVIOUS
  <2>2. PICK t : t = c.dims[k].source.table
    OBVIOUS
  <2>3. t = <<"semantic", t[2]>>
    BY <2>1, <2>2, LeafTables
  <2>4. t[1] = "semantic"
    BY <2>3
  <2>5. QED
    BY <2>2, <2>4
<1> HIDE DEF c
<1>3. QED
  BY <1>1, <1>2 DEF RequiredReads, CheckedObjects, c

-----------------------------------------------------------------------------
(* What a provisioning of the directory has made and has still to make.    *)

\* The scenarios' table, and that a file's scenarios are in it.
ScenarioTable == <<"semantic", "scenarios">>
Seeded(i) == Instances[i].scenarios # <<>> => registry # <<>>

\* Before it reads the catalogue, which it does last, and after.
Early(s, i) ==
    /\ IsSeq(s)
    /\ \A n \in DOMAIN s :
         /\ s[n].act \in {"table", "seed", "catalogue"}
         /\ s[n].act = "catalogue" => \A m \in DOMAIN s : m <= n
    /\ \E n \in DOMAIN s : s[n].act = "catalogue"
    /\ ScenarioTable \in DOMAIN store \/ \E n \in DOMAIN s : s[n].act = "table" /\ s[n].makes = ScenarioTable
    /\ Seeded(i) \/ \E n \in DOMAIN s : s[n].act = "seed"

\* After it has read the catalogue: what it has still to make is all that is
\* missing.
Late(s, i) ==
    /\ IsSeq(s) /\ i \in Accepting /\ ScenarioTable \in DOMAIN store /\ Seeded(i)
    /\ \A n \in DOMAIN s : s[n].act \in {"view", "closure"}
    /\ \A x \in Semantics(i) : x.makes \in DOMAIN store \/ \E n \in DOMAIN s : s[n].makes = x.makes

\* A provisioning that no replacement of the directory has overtaken.
Provisions(work, i) == work.kind = "provision" /\ work.of # 0 => Early(work.todo, i) \/ Late(work.todo, i)

\* The inductive invariant behind PreflightTells: a provisioning of the present
\* directory has made, or has still to make, everything it should.
ProvisionInv ==
    /\ DOMAIN jobs = Workers /\ IsSeq(registry) /\ disk \in DOMAIN Instances
    /\ \A w \in Workers :
         Busy(w) => /\ IsJob(jobs[w]) /\ jobs[w].of \in {0, disk}
                    /\ Provisions(jobs[w], disk)
    /\ ready \in {0, disk} /\ (ready # 0 => Late(<<>>, disk))

\* No step takes anything out of the warehouse.
Grows == DOMAIN store \subseteq DOMAIN store' /\ (registry # <<>> => registry' # <<>>)

\* What a provisioning has made stays.
LEMMA GrowsKeeps ==
    ASSUME Grows, NEW s, NEW i
    PROVE  (Early(s, i) => Early(s, i)') /\ (Late(s, i) => Late(s, i)')
<1>1. Seeded(i) => Seeded(i)'
  BY DEF Grows, Seeded
<1>2. \A x : x \in DOMAIN store => x \in DOMAIN store'
  BY DEF Grows
<1>3. Early(s, i) => Early(s, i)'
  BY <1>1, <1>2 DEF Early
<1>4. Late(s, i) => Late(s, i)'
  BY <1>1, <1>2 DEF Late
<1>5. QED
  BY <1>3, <1>4

\* One worker's job replaced.
LEMMA OneJob ==
    ASSUME ProvisionInv, Grows, NEW w \in Workers, NEW j, jobs' = [jobs EXCEPT ![w] = j],
           disk' = disk, IsSeq(registry'), ready' \in {0, disk}, ready' # 0 => Late(<<>>, disk)',
           j = Idle \/ (IsJob(j) /\ j.of \in {0, disk} /\ Provisions(j, disk)')
    PROVE  ProvisionInv'
<1>1. DOMAIN jobs' = Workers /\ jobs'[w] = j /\ \A v \in Workers : v # w => jobs'[v] = jobs[v]
  BY DEF ProvisionInv
<1>2. PICK i : i = disk
  OBVIOUS
<1>3. ASSUME NEW v \in Workers, Busy(v)'
      PROVE  (IsJob(jobs[v]) /\ jobs[v].of \in {0, disk} /\ Provisions(jobs[v], disk))'
  <2>1. CASE v = w
    <3>1. jobs'[v] = j /\ j # Idle
      BY <1>1, <1>3, <2>1 DEF Busy
    <3>2. IsJob(j) /\ j.of \in {0, i} /\ Provisions(j, i)'
      BY <1>2, <3>1
    <3>3. QED
      BY <1>2, <3>1, <3>2 DEF IsJob, Provisions
  <2>2. CASE v # w
    <3>1. PICK work : work = jobs[v]
      OBVIOUS
    <3>2. jobs'[v] = work /\ Busy(v)
      BY <1>1, <1>3, <2>2, <3>1 DEF Busy
    <3>3. IsJob(work) /\ work.of \in {0, i} /\ Provisions(work, i)
      BY <1>2, <3>1, <3>2 DEF ProvisionInv
    <3>4. Provisions(work, i)'
      <4>1. (Early(work.todo, i) => Early(work.todo, i)') /\ (Late(work.todo, i) => Late(work.todo, i)')
        BY GrowsKeeps
      <4>2. QED
        BY <3>3, <4>1 DEF Provisions
    <3>5. QED
      BY <1>2, <3>2, <3>3, <3>4 DEF IsJob, Provisions
  <2>3. QED
    BY <2>1, <2>2
<1>4. QED
  BY <1>1, <1>3 DEF ProvisionInv

\* A statement done before the catalogue is read.
LEMMA EarlyOn ==
    ASSUME NEW s, NEW i, Grows, Early(s, i), s # <<>>, s[1].act # "catalogue",
           s[1].act = "table" => s[1].makes \in DOMAIN store',
           s[1].act = "seed" => Seeded(i)'
    PROVE  Early(Tail(s), i)'
<1> DEFINE t == Tail(s)
<1>1. IsSeq(s)
  BY DEF Early
<1>2. /\ IsSeq(t) /\ 1 \in DOMAIN s
      /\ \A n \in DOMAIN t : n \in Nat \ {0} /\ n + 1 \in DOMAIN s /\ t[n] = s[n + 1]
      /\ \A n \in DOMAIN s : n \in Nat \ {0} /\ (n = 1 \/ (n - 1 \in DOMAIN t /\ t[n - 1] = s[n]))
  BY <1>1, TailIsSeq
<1> HIDE DEF t
<1>3. \A n \in DOMAIN s : n = 1 \/ \E m \in DOMAIN t : t[m] = s[n]
  BY <1>2
<1>4. \A n \in DOMAIN t : t[n].act \in {"table", "seed", "catalogue"}
  BY <1>2 DEF Early
<1>5. ASSUME NEW n \in DOMAIN t, t[n].act = "catalogue", NEW m \in DOMAIN t PROVE m <= n
  <2>1. n + 1 \in DOMAIN s /\ m + 1 \in DOMAIN s /\ s[n + 1].act = "catalogue" /\ n \in Nat /\ m \in Nat
    BY <1>2, <1>5
  <2>2. m + 1 <= n + 1
    BY <2>1 DEF Early
  <2>3. QED
    BY <2>1, <2>2
<1>6. \E n \in DOMAIN t : t[n].act = "catalogue"
  BY <1>3 DEF Early
<1>7. ScenarioTable \in DOMAIN store' \/ \E n \in DOMAIN t : t[n].act = "table" /\ t[n].makes = ScenarioTable
  BY <1>3 DEF Early, Grows
<1>8. Seeded(i)' \/ \E n \in DOMAIN t : t[n].act = "seed"
  <2>1. Seeded(i) => Seeded(i)'
    BY DEF Grows, Seeded
  <2>2. QED
    BY <1>3, <2>1 DEF Early
<1>9. Early(t, i)'
  BY <1>2, <1>4, <1>5, <1>6, <1>7, <1>8 DEF Early, ScenarioTable
<1>10. QED
  BY <1>9 DEF t

\* A statement done after the catalogue was read.
LEMMA LateOn ==
    ASSUME NEW s, NEW i, Grows, Late(s, i), s # <<>>, s[1].makes \in DOMAIN store'
    PROVE  Late(Tail(s), i)'
<1> DEFINE t == Tail(s)
<1>1. IsSeq(s)
  BY DEF Late
<1>2. /\ IsSeq(t) /\ 1 \in DOMAIN s
      /\ \A n \in DOMAIN t : n \in Nat \ {0} /\ n + 1 \in DOMAIN s /\ t[n] = s[n + 1]
      /\ \A n \in DOMAIN s : n \in Nat \ {0} /\ (n = 1 \/ (n - 1 \in DOMAIN t /\ t[n - 1] = s[n]))
  BY <1>1, TailIsSeq
<1> HIDE DEF t
<1>3. \A n \in DOMAIN s : n = 1 \/ \E m \in DOMAIN t : t[m] = s[n]
  BY <1>2
<1>4. \A n \in DOMAIN t : t[n].act \in {"view", "closure"}
  BY <1>2 DEF Late
<1>5. ScenarioTable \in DOMAIN store' /\ Seeded(i)'
  BY DEF Late, Grows, Seeded
<1>6. \A x \in Semantics(i) : x.makes \in DOMAIN store' \/ \E n \in DOMAIN t : t[n].makes = x.makes
  BY <1>3 DEF Late, Grows
<1>7. Late(t, i)'
  <2>1. i \in Accepting
    BY DEF Late
  <2>2. QED
    BY <1>2, <1>4, <1>5, <1>6, <2>1 DEF Late, ScenarioTable
<1>8. QED
  BY <1>7 DEF t

\* A job that has done its first statement.
LEMMA ProvisionAdvances ==
    ASSUME ProvisionInv, Grows, NEW w \in Workers, Busy(w), jobs[w].todo # <<>>, jobs' = Advanced(w),
           disk' = disk, ready' = ready, IsSeq(registry'),
           Due(w).act \in {"table", "view", "closure", "seed"},
           Due(w).act # "seed" => Due(w).makes \in DOMAIN store',
           Due(w).act = "seed" => Seeded(disk)'
    PROVE  ProvisionInv'
<1>1. PICK work : work = jobs[w]
  OBVIOUS
<1>2. PICK i : i = disk
  OBVIOUS
<1>3. PICK j : j = Moved(work)
  OBVIOUS
<1>4. IsJob(work) /\ work.of \in {0, i} /\ Provisions(work, i) /\ DOMAIN jobs = Workers
  BY <1>1, <1>2 DEF ProvisionInv
<1>5. jobs' = [jobs EXCEPT ![w] = j]
  <2>1. [work EXCEPT !.todo = Tail(@), !.rows = <<>>] = Moved(work)
    BY <1>4, JobFields
  <2>2. Advanced(w) = [jobs EXCEPT ![w] = [work EXCEPT !.todo = Tail(@), !.rows = <<>>]]
    BY <1>1 DEF Advanced
  <2>3. QED
    BY <1>3, <2>1, <2>2
<1>6. IsJob(j)
  BY <1>3, <1>4, JobFields
<1>7. j.kind = work.kind /\ j.of = work.of /\ j.todo = Tail(work.todo)
  BY <1>3 DEF Moved
<1>8. Provisions(j, i)'
  <2>1. SUFFICES ASSUME work.kind = "provision", work.of # 0 PROVE Early(j.todo, i)' \/ Late(j.todo, i)'
    BY <1>7 DEF Provisions
  <2>2. CASE Early(work.todo, i)
    <3>1. Due(w) = work.todo[1]
      <4>1. IsSeq(work.todo)
        BY <2>2 DEF Early
      <4>2. QED
        BY <1>1, <4>1, TailIsSeq DEF Due
    <3>2. QED
      BY <1>1, <1>2, <1>7, <2>2, <3>1, EarlyOn DEF Seeded
  <2>3. CASE Late(work.todo, i)
    <3>1. Due(w) = work.todo[1] /\ Due(w).act # "seed"
      <4>1. IsSeq(work.todo)
        BY <2>3 DEF Late
      <4>2. Due(w) = work.todo[1] /\ 1 \in DOMAIN work.todo
        BY <1>1, <4>1, TailIsSeq DEF Due
      <4>3. QED
        BY <2>3, <4>2 DEF Late
    <3>2. QED
      BY <1>1, <1>7, <2>3, <3>1, LateOn
  <2>4. QED
    BY <1>4, <2>1, <2>2, <2>3 DEF Provisions
<1>9. Provisions(j, disk)'
  BY <1>2, <1>8
<1>10. ready' \in {0, disk} /\ (ready' # 0 => Late(<<>>, disk)')
  <2>1. Late(<<>>, i) => Late(<<>>, i)'
    BY GrowsKeeps
  <2>2. QED
    BY <1>2, <2>1 DEF ProvisionInv
<1>11. QED
  BY <1>2, <1>4, <1>5, <1>6, <1>7, <1>9, <1>10, OneJob

\* A directory once provisioned stays so until it is replaced.
LEMMA ReadyKept ==
    ASSUME ProvisionInv, Grows, disk' = disk, ready' = ready
    PROVE  ready' \in {0, disk} /\ (ready' # 0 => Late(<<>>, disk)')
<1>1. PICK i : i = disk
  OBVIOUS
<1>2. Late(<<>>, i) => Late(<<>>, i)'
  BY GrowsKeeps
<1>3. QED
  BY <1>1, <1>2 DEF ProvisionInv

\* The scenarios of a file get into a table that had none.
LEMMA SeedsGetIn ==
    ASSUME NEW r, IsSeq(r), NEW declared, IsSeq(declared), NEW known, r = <<>> => known = {}
    PROVE  LET absent == FlattenSeq([n \in DOMAIN declared |->
                                        IF declared[n].id \in known THEN <<>> ELSE <<declared[n]>>])
           IN /\ IsSeq(r \o absent) /\ (r # <<>> => r \o absent # <<>>)
              /\ r = <<>> /\ declared # <<>> => r \o absent # <<>>
<1> DEFINE block(n) == IF declared[n].id \in known THEN <<>> ELSE <<declared[n]>>
           b == [n \in DOMAIN declared |-> block(n)]
           S == {declared[n] : n \in DOMAIN declared}
           absent == FlattenSeq(b)
           N == Len(declared)
<1>1. N \in Nat /\ DOMAIN declared = 1 .. N
  BY LenProperties DEF IsSeq
<1>2. \A n \in DOMAIN declared : block(n) \in Seq(S)
  <2>1. SUFFICES ASSUME NEW n \in DOMAIN declared PROVE block(n) \in Seq(S)
    OBVIOUS
  <2>2. declared[n] \in S
    OBVIOUS
  <2> HIDE DEF S
  <2>3. QED
    BY <2>2
<1>3. b \in Seq(Seq(S)) /\ Len(b) = N
  <2>1. b \in [1 .. N -> Seq(S)]
    <3> HIDE DEF S, block, N
    <3>1. QED
      BY <1>1, <1>2
  <2> HIDE DEF b, S, N
  <2>2. QED
    BY <1>1, <2>1
<1>4. absent \in Seq(S) /\ (N # 0 => \E F \in Seq(S) : absent = F \o b[N])
  <2> HIDE DEF b, S, N
  <2>1. QED
    BY <1>3, Flattened
<1>5. IsSeq(absent)
  <2> HIDE DEF absent, S
  <2>1. QED
    BY <1>4, SeqIs
<1>6. r = <<>> /\ declared # <<>> => absent # <<>>
  <2>1. SUFFICES ASSUME r = <<>>, declared # <<>> PROVE absent # <<>>
    OBVIOUS
  <2>2. N # 0 /\ N \in DOMAIN declared
    <3>1. 1 \in DOMAIN declared
      BY <2>1, TailIsSeq
    <3> HIDE DEF N
    <3>2. QED
      BY <1>1, <3>1
  <2>3. b[N] = <<declared[N]>>
    BY <2>1, <2>2
  <2>4. PICK F \in Seq(S) : absent = F \o <<declared[N]>>
    BY <1>4, <2>2, <2>3
  <2>5. declared[N] \in S
    BY <2>2
  <2> HIDE DEF absent, S, N
  <2>6. F \o <<declared[N]>> # <<>>
    BY <2>5
  <2>7. QED
    BY <2>4, <2>6
<1> HIDE DEF absent
<1>7. \A q : IsSeq(q) /\ q # <<>> => 1 \in DOMAIN q
  BY TailIsSeq
<1>8. IsSeq(r \o absent) /\ (\A n \in DOMAIN r : n \in DOMAIN (r \o absent))
      /\ (\A n \in DOMAIN absent : Len(r) + n \in DOMAIN (r \o absent))
  BY <1>5, JoinIsSeq
<1>9. DOMAIN <<>> = {}
  OBVIOUS
<1>10. IsSeq(r \o absent) /\ (r # <<>> => r \o absent # <<>>)
       /\ (r = <<>> /\ declared # <<>> => r \o absent # <<>>)
  <2>1. r # <<>> => r \o absent # <<>>
    BY <1>7, <1>8, <1>9
  <2>2. absent # <<>> => r \o absent # <<>>
    BY <1>5, <1>7, <1>8, <1>9
  <2>3. QED
    BY <1>6, <1>8, <2>1, <2>2
<1>11. QED
  BY <1>10 DEF absent

\* The scenarios seeded.
LEMMA SeedProvisions ==
    ASSUME ProvisionInv, NEW w \in Workers, SeedScenarios(w)
    PROVE  ProvisionInv'
<1> DEFINE declared == Instances[disk].scenarios
           known == {r.id : r \in Range(registry)}
           absent == FlattenSeq([n \in DOMAIN declared |->
                                    IF declared[n].id \in known THEN <<>> ELSE <<declared[n]>>])
<1>1. /\ Busy(w) /\ jobs[w].todo # <<>> /\ Due(w).act = "seed"
      /\ \/ registry' = registry /\ jobs' = [jobs EXCEPT ![w] = Idle]
         \/ registry' = registry \o absent /\ jobs' = Advanced(w)
      /\ disk' = disk /\ store' = store /\ ready' = ready
  BY DEF SeedScenarios, Runs
<1>2. IsSeq(declared) /\ IsSeq(registry)
  BY InstancesAssumption DEF ProvisionInv
<1>3. registry = <<>> => known = {}
  BY DEF Range
<1>4. /\ IsSeq(registry \o absent) /\ (registry # <<>> => registry \o absent # <<>>)
      /\ (registry = <<>> /\ declared # <<>> => registry \o absent # <<>>)
  <2> HIDE DEF declared, known
  <2>1. QED
    BY <1>2, <1>3, SeedsGetIn
<1> HIDE DEF absent, known
<1>5. CASE registry' = registry /\ jobs' = [jobs EXCEPT ![w] = Idle]
  <2>1. Grows /\ IsSeq(registry')
    BY <1>1, <1>2, <1>5 DEF Grows
  <2>2. PICK j : j = Idle
    OBVIOUS
  <2>3. QED
    BY <1>1, <1>5, <2>1, <2>2, ReadyKept, OneJob
<1>6. CASE registry' = registry \o absent /\ jobs' = Advanced(w)
  <2>1. Grows /\ IsSeq(registry')
    BY <1>1, <1>4, <1>6 DEF Grows
  <2>2. Seeded(disk)'
    BY <1>1, <1>4, <1>6 DEF Seeded, declared
  <2>3. QED
    BY <1>1, <1>6, <2>1, <2>2, ProvisionAdvances
<1>7. QED
  BY <1>1, <1>5, <1>6

\* A table, a view or a mapping made.
LEMMA MakingProvisions ==
    ASSUME ProvisionInv, NEW w \in Workers, CreateTable(w) \/ CreateView(w) \/ ReplaceClosure(w)
    PROVE  ProvisionInv'
<1>1. /\ Busy(w) /\ jobs[w].todo # <<>> /\ Due(w).act \in {"table", "view", "closure"}
      /\ jobs' = Advanced(w) /\ registry' = registry
      /\ disk' = disk /\ ready' = ready
  BY DEF CreateTable, CreateView, ReplaceClosure, Runs
<1>2. DOMAIN store' = DOMAIN store \cup {Due(w).makes}
  <2>1. PICK x : x = Due(w).makes
    OBVIOUS
  <2>2. store' = Ensured(store, x, 0) \/ \E v : store' = Replaced(store, x, v)
    BY <2>1 DEF CreateTable, CreateView, ReplaceClosure
  <2>3. \A v : DOMAIN Replaced(store, x, v) = DOMAIN store \cup {x}
    BY DEF Replaced
  <2>4. DOMAIN Ensured(store, x, 0) = DOMAIN store \cup {x}
    BY <2>3 DEF Ensured
  <2>5. QED
    BY <2>1, <2>2, <2>3, <2>4
<1>3. Grows /\ IsSeq(registry')
  BY <1>1, <1>2 DEF Grows, ProvisionInv
<1>4. QED
  BY <1>1, <1>2, <1>3, ProvisionAdvances

\* A job that dies.
LEMMA StopProvisions ==
    ASSUME ProvisionInv, NEW w \in Workers, Stop(w)
    PROVE  ProvisionInv'
<1>1. Grows /\ IsSeq(registry') /\ jobs' = [jobs EXCEPT ![w] = Idle] /\ disk' = disk /\ ready' = ready
  BY DEF Stop, Grows, ProvisionInv
<1>2. PICK j : j = Idle
  OBVIOUS
<1>3. QED
  BY <1>1, <1>2, ReadyKept, OneJob

\* A job that ends: a provisioning leaves everything in place.
LEMMA CompleteProvisions ==
    ASSUME ProvisionInv, NEW w \in Workers, Complete(w)
    PROVE  ProvisionInv'
<1>1. /\ Grows /\ IsSeq(registry') /\ jobs' = [jobs EXCEPT ![w] = Idle] /\ disk' = disk /\ store' = store
      /\ registry' = registry /\ Busy(w) /\ jobs[w].todo = <<>>
      /\ ready' = IF jobs[w].kind = "provision" THEN jobs[w].of ELSE ready
  BY DEF Complete, Grows, ProvisionInv
<1>2. PICK j : j = Idle
  OBVIOUS
<1>3. ready' \in {0, disk} /\ (ready' # 0 => Late(<<>>, disk))
  <2>1. CASE jobs[w].kind = "provision" /\ jobs[w].of # 0
    <3>1. Early(<<>>, disk) \/ Late(<<>>, disk)
      BY <1>1, <2>1 DEF ProvisionInv, Provisions
    <3>2. ~Early(<<>>, disk)
      BY DEF Early
    <3>3. QED
      BY <1>1, <2>1, <3>1, <3>2 DEF ProvisionInv
  <2>2. CASE ~(jobs[w].kind = "provision" /\ jobs[w].of # 0)
    BY <1>1, <2>2 DEF ProvisionInv
  <2>3. QED
    BY <2>1, <2>2
<1>4. ready' # 0 => Late(<<>>, disk)'
  <2>1. PICK i : i = disk
    OBVIOUS
  <2>2. Late(<<>>, i) => Late(<<>>, i)'
    BY <1>1, GrowsKeeps
  <2>3. QED
    BY <1>1, <1>3, <2>1, <2>2
<1>5. QED
  BY <1>1, <1>2, <1>3, <1>4, OneJob

\* The directory read by a provisioning.
LEMMA ReadProvisions ==
    ASSUME ProvisionInv, NEW w \in Workers, ReadCatalogue(w)
    PROVE  ProvisionInv'
<1>1. /\ Busy(w) /\ jobs[w].todo # <<>> /\ Due(w).act = "catalogue"
      /\ disk' = disk /\ store' = store /\ registry' = registry /\ ready' = ready
  BY DEF ReadCatalogue, Runs
<1>2. Grows /\ IsSeq(registry')
  BY <1>1 DEF Grows, ProvisionInv
<1>3. CASE ~Fits(disk)
  <2>1. PICK j : j = Idle
    OBVIOUS
  <2>2. jobs' = [jobs EXCEPT ![w] = j]
    BY <1>3, <2>1 DEF ReadCatalogue
  <2>3. QED
    BY <1>1, <1>2, <2>1, <2>2, ReadyKept, OneJob
<1>4. CASE Fits(disk)
  <2>1. PICK old : old = jobs[w]
    OBVIOUS
  <2>2. PICK i : i = disk
    OBVIOUS
  <2>3. PICK j : j = [kind |-> old.kind, of |-> old.of, read |-> i, todo |-> SemanticStatements(i),
                      covers |-> owed, rows |-> old.rows]
    OBVIOUS
  <2>4. IsJob(old) /\ old.of \in {0, i} /\ Provisions(old, i)
    BY <1>1, <2>1, <2>2 DEF ProvisionInv
  <2>5. jobs' = [jobs EXCEPT ![w] = j]
    <3>1. jobs' = [jobs EXCEPT ![w] = [old EXCEPT !.todo = SemanticStatements(i), !.read = i, !.covers = owed]]
      BY <1>4, <2>1, <2>2 DEF ReadCatalogue
    <3>2. \A s, x, c : [old EXCEPT !.todo = s, !.read = x, !.covers = c] =
             [kind |-> old.kind, of |-> old.of, read |-> x, todo |-> s, covers |-> c, rows |-> old.rows]
      BY <2>4, JobFields, Zenon
    <3>3. [old EXCEPT !.todo = SemanticStatements(i), !.read = i, !.covers = owed] = j
      BY <2>3, <3>2, Zenon
    <3>4. QED
      BY <3>1, <3>3, Zenon
  <2>6. IsJob(j) /\ j.of = old.of /\ j.kind = old.kind /\ j.todo = SemanticStatements(i)
    BY <2>3, <2>4 DEF IsJob
  <2>7. Provisions(j, i)'
    <3>1. SUFFICES ASSUME old.kind = "provision", old.of # 0 PROVE Late(SemanticStatements(i), i)'
      BY <2>6 DEF Provisions
    <3>2. IsSeq(old.todo) => 1 \in DOMAIN old.todo /\ old.todo[1] = Due(w)
      BY <1>1, <2>1, TailIsSeq DEF Due
    <3>3. Early(old.todo, i)
      <4>1. ~Late(old.todo, i)
        BY <1>1, <3>2 DEF Late
      <4>2. QED
        BY <2>4, <3>1, <4>1 DEF Provisions
    <3>4. 1 \in DOMAIN old.todo /\ old.todo[1].act = "catalogue" /\ \A n \in DOMAIN old.todo : n = 1
      <4>1. 1 \in DOMAIN old.todo /\ old.todo[1].act = "catalogue"
        BY <1>1, <3>2, <3>3 DEF Early
      <4>2. \A n \in DOMAIN old.todo : n <= 1
        BY <3>3, <4>1 DEF Early
      <4>3. \A n \in DOMAIN old.todo : n \in Nat \ {0}
        BY <1>1, <2>1, <3>3, TailIsSeq DEF Early
      <4>4. QED
        BY <4>1, <4>2, <4>3
    <3>5. ScenarioTable \in DOMAIN store /\ Seeded(i)
      BY <3>3, <3>4 DEF Early
    <3>6. i \in Accepting
      BY <1>4, <2>2 DEF Fits
    <3>7. Late(SemanticStatements(i), i)
      <4>1. \A n \in DOMAIN SemanticStatements(i) : SemanticStatements(i)[n] \in Semantics(i)
        BY DEF Semantics, Range
      <4>2. \A x \in Semantics(i) : \E n \in DOMAIN SemanticStatements(i) : SemanticStatements(i)[n].makes = x.makes
        BY DEF Semantics, Range
      <4>3. QED
        BY <3>5, <3>6, <4>1, <4>2, SemanticsAre DEF Late
    <3>8. QED
      BY <1>2, <3>7, GrowsKeeps
  <2>8. Provisions(j, disk)' /\ j.of \in {0, disk}
    BY <1>1, <2>2, <2>4, <2>6, <2>7
  <2>9. QED
    BY <1>1, <1>2, <2>5, <2>6, <2>8, ReadyKept, OneJob
<1>5. QED
  BY <1>3, <1>4

\* A mapping's rows computed.
LEMMA BuildProvisions ==
    ASSUME ProvisionInv, NEW w \in Workers, BuildClosure(w)
    PROVE  ProvisionInv'
<1>1. PICK old : old = jobs[w]
  OBVIOUS
<1>2. PICK r : r = <<Built(Catalogue(old.read), Due(w))>>
  OBVIOUS
<1>3. PICK j : j = [kind |-> old.kind, of |-> old.of, read |-> old.read, todo |-> old.todo,
                    covers |-> old.covers, rows |-> r]
  OBVIOUS
<1>4. /\ Busy(w) /\ jobs' = [jobs EXCEPT ![w].rows = r]
      /\ disk' = disk /\ store' = store /\ registry' = registry /\ ready' = ready
  BY <1>1, <1>2 DEF BuildClosure, Runs
<1>5. Grows /\ IsSeq(registry')
  BY <1>4 DEF Grows, ProvisionInv
<1>6. PICK i : i = disk
  OBVIOUS
<1>7. IsJob(old) /\ old.of \in {0, i} /\ Provisions(old, i)
  BY <1>1, <1>4, <1>6 DEF ProvisionInv
<1>8. jobs' = [jobs EXCEPT ![w] = j]
  <2>1. jobs' = [jobs EXCEPT ![w] = [old EXCEPT !.rows = r]]
    BY <1>1, <1>4
  <2>2. [old EXCEPT !.rows = r] = j
    BY <1>3, <1>7, JobFields
  <2>3. QED
    BY <2>1, <2>2
<1>9. IsJob(j) /\ j.of = old.of /\ j.kind = old.kind /\ j.todo = old.todo
  BY <1>3, <1>7 DEF IsJob
<1>10. Provisions(j, i)'
  <2>1. (Early(old.todo, i) => Early(old.todo, i)') /\ (Late(old.todo, i) => Late(old.todo, i)')
    BY <1>5, GrowsKeeps
  <2>2. QED
    BY <1>7, <1>9, <2>1 DEF Provisions
<1>11. Provisions(j, disk)' /\ j.of \in {0, disk}
  BY <1>4, <1>6, <1>7, <1>9, <1>10
<1>12. QED
  BY <1>4, <1>5, <1>8, <1>9, <1>11, ReadyKept, OneJob

\* Jobs that start.
LEMMA OthersProvision ==
    ASSUME ProvisionInv, NEW w \in Workers, NEW kind \in {"refresh", "load"}, NEW read, NEW todo, NEW covers,
           jobs' = [jobs EXCEPT ![w] = Job(kind, read, todo, covers)],
           UNCHANGED <<disk, store, registry, ready>>
    PROVE  ProvisionInv'
<1>1. PICK j : j = Job(kind, read, todo, covers)
  OBVIOUS
<1>2. IsJob(j) /\ j.of = disk /\ j.kind # "provision"
  BY <1>1 DEF Job, IsJob
<1>3. Grows /\ IsSeq(registry')
  BY DEF Grows, ProvisionInv
<1>4. Provisions(j, disk)'
  BY <1>2 DEF Provisions
<1>5. jobs' = [jobs EXCEPT ![w] = j]
  BY <1>1
<1>6. QED
  BY <1>2, <1>3, <1>4, <1>5, ReadyKept, OneJob

\* A provisioning that starts.
LEMMA ProvisionProvisions ==
    ASSUME ProvisionInv, Provision
    PROVE  ProvisionInv'
<1> DEFINE last == Makes("catalogue", <<>>, {})
           p == Makes("table", ScenarioTable, {})
           q == Makes("seed", ScenarioTable, {ScenarioTable})
           liveFiles == LiveStatements(disk)
           s == (liveFiles \o <<p, q>>) \o <<last>>
<1>1. PICK j : j = Job("provision", 0, s, {})
  OBVIOUS
<1>2. /\ "provisioner" \in Workers /\ jobs' = [jobs EXCEPT !["provisioner"] = j]
      /\ disk' = disk /\ store' = store /\ registry' = registry /\ ready' = ready
  BY <1>1 DEF Workers, Provision, ScenarioStatements, ScenarioTable
<1>3. IsJob(j) /\ j.of = disk /\ j.todo = s
  BY <1>1 DEF Job, IsJob
<1>4. Grows /\ IsSeq(registry')
  BY <1>2 DEF Grows, ProvisionInv
<1>5. IsSeq(liveFiles) /\ \A n \in DOMAIN liveFiles : liveFiles[n].act = "table"
  BY LiveAre DEF ProvisionInv
<1>6. p.act = "table" /\ p.makes = ScenarioTable /\ q.act = "seed" /\ last.act = "catalogue"
  BY DEF Makes
<1> HIDE DEF last, p, q, liveFiles
<1>7. /\ IsSeq(<<p, q>>) /\ DOMAIN <<p, q>> = {1, 2} /\ <<p, q>>[1] = p /\ <<p, q>>[2] = q /\ Len(<<p, q>>) = 2
      /\ IsSeq(<<last>>) /\ DOMAIN <<last>> = {1} /\ <<last>>[1] = last
  <2>1. <<p, q>> \in Seq({p, q}) /\ <<last>> \in Seq({last})
    OBVIOUS
  <2>2. IsSeq(<<p, q>>) /\ IsSeq(<<last>>)
    BY <2>1, SeqIs, Zenon
  <2>3. DOMAIN <<p, q>> = {1, 2} /\ <<p, q>>[1] = p /\ <<p, q>>[2] = q /\ Len(<<p, q>>) = 2
    OBVIOUS
  <2>4. DOMAIN <<last>> = {1} /\ <<last>>[1] = last
    OBVIOUS
  <2>5. QED
    BY <2>2, <2>3, <2>4, Zenon
<1> DEFINE t == liveFiles \o <<p, q>>
<1>8. IsSeq(t) /\ Joined(liveFiles, <<p, q>>, t)
  <2>1. Joined(liveFiles, <<p, q>>, liveFiles \o <<p, q>>)
    BY <1>5, <1>7, JoinedIs, Zenon
  <2>2. QED
    BY <2>1, Zenon DEF Joined
<1> HIDE DEF t
<1>9. \A n \in DOMAIN t : t[n].act \in {"table", "seed"}
  BY <1>5, <1>6, <1>7, <1>8 DEF Joined
<1>10. \E n \in DOMAIN t : t[n].act = "table" /\ t[n].makes = ScenarioTable
  BY <1>6, <1>7, <1>8 DEF Joined
<1>11. \E n \in DOMAIN t : t[n].act = "seed"
  BY <1>6, <1>7, <1>8 DEF Joined
<1>12. s = t \o <<last>>
  BY DEF t
<1> HIDE DEF s
<1>13. /\ IsSeq(s) /\ Len(t) \in Nat /\ DOMAIN s = 1 .. (Len(t) + 1) /\ DOMAIN t = 1 .. Len(t)
       /\ \A n \in DOMAIN t : n \in DOMAIN s /\ s[n] = t[n]
       /\ Len(t) + 1 \in DOMAIN s /\ s[Len(t) + 1] = last
  <2>1. Len(<<last>>) = 1
    OBVIOUS
  <2>2. QED
    BY <1>7, <1>8, <1>12, <2>1, JoinIsSeq
<1>14. Early(s, disk)
  <2>1. \A n \in DOMAIN s : n \in DOMAIN t \/ n = Len(t) + 1
    BY <1>13
  <2>2. \A n \in DOMAIN s : s[n].act \in {"table", "seed", "catalogue"}
    BY <1>6, <1>9, <1>13, <2>1
  <2>3. \A n \in DOMAIN s : s[n].act = "catalogue" => n = Len(t) + 1
    BY <1>9, <1>13, <2>1
  <2>4. \A n \in DOMAIN s : n <= Len(t) + 1
    BY <1>13
  <2>5. \E n \in DOMAIN s : s[n].act = "catalogue"
    BY <1>6, <1>13
  <2>6. \E n \in DOMAIN s : s[n].act = "table" /\ s[n].makes = ScenarioTable
    BY <1>10, <1>13
  <2>7. \E n \in DOMAIN s : s[n].act = "seed"
    BY <1>11, <1>13
  <2>8. QED
    BY <1>13, <2>2, <2>3, <2>4, <2>5, <2>6, <2>7 DEF Early
<1>15. PICK i : i = disk
  OBVIOUS
<1>16. Provisions(j, i)'
  <2>1. PICK todo : todo = s
    OBVIOUS
  <2>2. Early(todo, i)
    BY <1>14, <1>15, <2>1
  <2>3. Early(todo, i)'
    BY <1>4, <2>2, GrowsKeeps
  <2>4. QED
    BY <1>3, <2>1, <2>3 DEF Provisions
<1>17. Provisions(j, disk)'
  BY <1>2, <1>15, <1>16
<1>18. QED
  BY <1>2, <1>3, <1>4, <1>17, ReadyKept, OneJob

\* The directory replaced: no job is of it yet.
LEMMA EditProvisions ==
    ASSUME ProvisionInv, NEW i \in Instances[disk].later, Edit(i)
    PROVE  ProvisionInv'
<1>1. /\ disk' = i /\ ready' = 0 /\ registry' = registry
      /\ jobs' = [w \in Workers |-> IF Busy(w) THEN [jobs[w] EXCEPT !.of = 0] ELSE jobs[w]]
  BY DEF Edit
<1>2. disk' \in DOMAIN Instances
  BY <1>1, InstancesAssumption DEF ProvisionInv
<1>3. ASSUME NEW w \in Workers, Busy(w)' PROVE (IsJob(jobs[w]) /\ jobs[w].of = 0)'
  <2>1. Busy(w)
    BY <1>1, <1>3 DEF Busy
  <2>2. PICK old : old = jobs[w]
    OBVIOUS
  <2>3. IsJob(old)
    BY <2>1, <2>2 DEF ProvisionInv
  <2>4. jobs'[w] = [kind |-> old.kind, of |-> 0, read |-> old.read, todo |-> old.todo,
                    covers |-> old.covers, rows |-> old.rows]
    <3>1. jobs'[w] = [old EXCEPT !.of = 0]
      BY <1>1, <2>1, <2>2
    <3>2. QED
      BY <2>3, <3>1, JobFields
  <2>5. QED
    BY <2>3, <2>4 DEF IsJob
<1>4. \A w \in Workers : Busy(w)' => (IsJob(jobs[w]) /\ jobs[w].of \in {0, disk} /\ Provisions(jobs[w], disk))'
  BY <1>3 DEF Provisions
<1>5. DOMAIN jobs' = Workers /\ IsSeq(registry')
  BY <1>1 DEF ProvisionInv
<1>6. QED
  BY <1>1, <1>2, <1>4, <1>5 DEF ProvisionInv

\* The invariant holds at the start and every step keeps it, overlapping jobs or
\* not.
LEMMA ProvisionInductive ==
    /\ DeploymentInit => ProvisionInv
    /\ ProvisionInv /\ [DeploymentNext]_deploymentVars => ProvisionInv'
<1>1. ASSUME DeploymentInit PROVE ProvisionInv
  <2>1. IsSeq(<<>>)
    <3>1. <<>> \in Seq({})
      OBVIOUS
    <3>2. QED
      BY <3>1, SeqIs
  <2>2. QED
    BY <1>1, <2>1 DEF DeploymentInit, ProvisionInv, Busy
<1>2. ASSUME ProvisionInv, DeploymentNext PROVE ProvisionInv'
  <2>1. CASE \/ ColdStart \/ Reload \/ (\E call \in Calls : Ask(call))
             \/ (\E search \in Searches : Search(search)) \/ Answered
    <3>1. UNCHANGED <<disk, store, registry, jobs, ready>>
      BY <2>1 DEF ColdStart, Reload, Ask, Search, Answered
    <3>2. QED
      BY <1>2, <3>1 DEF ProvisionInv, Busy, IsJob, Provisions, Early, Late, Seeded
  <2>2. CASE Provision
    BY <1>2, <2>2, ProvisionProvisions
  <2>3. CASE \E i \in Instances[disk].later : Edit(i)
    BY <1>2, <2>3, EditProvisions
  <2>4. CASE \E provision \in BOOLEAN : RefreshCommand(provision)
    <3>1. "operator" \in Workers
      BY DEF Workers
    <3>2. QED
      BY <1>2, <2>4, <3>1, OthersProvision DEF RefreshCommand
  <2>5. CASE \E w \in Loaders, t \in DOMAIN Data : Publish(w, t)
    <3>1. PICK w \in Loaders, t \in DOMAIN Data : Publish(w, t)
      BY <2>5
    <3>2. w \in Workers /\ UNCHANGED <<disk, store, registry, ready>>
      BY <3>1 DEF Workers, Publish
    <3>3. CASE jobs' = jobs
      BY <1>2, <3>2, <3>3 DEF ProvisionInv, Busy, IsJob, Provisions, Early, Late, Seeded
    <3>4. CASE jobs' = [jobs EXCEPT ![w] = Job("load", disk, HierarchyStatements(Catalogue(disk), TRUE), RowsOnly(owed'))]
      BY <1>2, <3>2, <3>4, OthersProvision
    <3>5. QED
      BY <3>1, <3>3, <3>4 DEF Publish
  <2>6. CASE \E w \in Workers : CreateTable(w) \/ CreateView(w) \/ ReplaceClosure(w)
    BY <1>2, <2>6, MakingProvisions
  <2>7. CASE \E w \in Workers : SeedScenarios(w)
    BY <1>2, <2>7, SeedProvisions
  <2>8. CASE \E w \in Workers : ReadCatalogue(w)
    BY <1>2, <2>8, ReadProvisions
  <2>9. CASE \E w \in Workers : BuildClosure(w)
    BY <1>2, <2>9, BuildProvisions
  <2>10. CASE \E w \in Workers : Complete(w)
    BY <1>2, <2>10, CompleteProvisions
  <2>11. CASE \E w \in Workers : Stop(w)
    BY <1>2, <2>11, StopProvisions
  <2>12. QED
    BY <1>2, <2>1, <2>2, <2>3, <2>4, <2>5, <2>6, <2>7, <2>8, <2>9, <2>10, <2>11 DEF DeploymentNext
<1>3. ASSUME ProvisionInv, UNCHANGED deploymentVars PROVE ProvisionInv'
  BY <1>3 DEF deploymentVars, ProvisionInv, Busy, IsJob, Provisions, Early, Late, Seeded
<1>4. QED
  BY <1>1, <1>2, <1>3

\* What the invariant says of the warehouse is what the preflight finds.
LEMMA ProvisionTells ==
    ASSUME ProvisionInv
    PROVE  PreflightTells
<1>1. ASSUME ready # 0, Authored(ready) PROVE PreflightPasses(ready)
  <2>1. ready = disk /\ Late(<<>>, disk)
    BY <1>1 DEF ProvisionInv
  <2>2. disk \in Accepting /\ ScenarioTable \in DOMAIN store /\ registry # <<>>
    BY <1>1, <2>1 DEF Late, Seeded, Authored
  <2>3. \A x \in Semantics(disk) : x.makes \in DOMAIN store
    <3>1. DOMAIN <<>> = {}
      OBVIOUS
    <3>2. QED
      BY <2>1, <3>1 DEF Late
  <2>4. CheckedObjects(Catalogue(disk)) \subseteq DOMAIN store
    BY <1>1, <2>1, <2>2, <2>3, ChecksAreMade
  <2>5. QED
    BY <2>1, <2>2, <2>4 DEF PreflightPasses, Fits, ScenarioTable
<1>2. ASSUME PreflightPasses(disk) PROVE RequiredReads(Catalogue(disk)) \subseteq DOMAIN store
  <2>1. disk \in Accepting /\ <<"semantic", "scenarios">> \in DOMAIN store
        /\ CheckedObjects(Catalogue(disk)) \subseteq DOMAIN store
    BY <1>2 DEF PreflightPasses, Fits
  <2>2. QED
    BY <2>1, ReadsAreChecked
<1>3. QED
  BY <1>1, <1>2 DEF PreflightTells

\* PreflightTells, of deploy preflight's check of the warehouse: once a
\* provisioning of the directory has ended everything it asks for is there, and
\* whenever it finds nothing missing everything the reading side names is there.
\* No assumption on overlapping jobs.
THEOREM PreflightIsRight == DeploymentSpec => []PreflightTells
<1>1. DeploymentInit => ProvisionInv
  BY ProvisionInductive
<1>2. ProvisionInv /\ [DeploymentNext]_deploymentVars => ProvisionInv'
  BY ProvisionInductive
<1>3. ProvisionInv => PreflightTells
  BY ProvisionTells
<1>4. QED
  BY <1>1, <1>2, <1>3, PTL DEF DeploymentSpec

-----------------------------------------------------------------------------
(* The dimensions above a dimension, as the walk finds them.               *)

\* A sequence is one of any set all of it is in.
LEMMA InSeq ==
    ASSUME NEW s, IsSeq(s), NEW R, Range(s) \subseteq R
    PROVE  s \in Seq(R)
<1>1. {s[n] : n \in DOMAIN s} \subseteq R
  BY DEF Range
<1>2. QED
  BY <1>1, SeqMonotonic DEF IsSeq

\* What is picked out of a sequence, with nothing twice if the sequence has not.
LEMMA ThoseAre ==
    ASSUME NEW s, IsSeq(s), NEW S
    PROVE  /\ IsSeq(Those(s, S)) /\ Range(Those(s, S)) = Range(s) \cap S
           /\ ~Repeats(s) => ~Repeats(Those(s, S))
<1> DEFINE R == Range(s)
           block(i) == IF s[i] \in S THEN <<s[i]>> ELSE <<>>
           b == [i \in DOMAIN s |-> block(i)]
           t == FlattenSeq(b)
           Upto(m) == {s[j] : j \in 1 .. m}
           Fits3(q, m) == IsSeq(q) /\ Range(q) = Upto(m) \cap S /\ (~Repeats(s) => ~Repeats(q))
<1>1. Len(s) \in Nat /\ DOMAIN s = 1 .. Len(s)
  BY SeqBounds
<1>2. \A i \in 1 .. Len(s) : s[i] \in R
  BY <1>1 DEF Range
<1>3. \A i \in 1 .. Len(s) : block(i) \in Seq(R)
  <2> HIDE DEF R
  <2>1. QED
    BY <1>2
<1>4. b \in Seq(Seq(R)) /\ Len(b) = Len(s)
  <2>1. b \in [1 .. Len(s) -> Seq(R)]
    <3> HIDE DEF R, block
    <3>1. QED
      BY <1>1, <1>3
  <2> HIDE DEF b, R
  <2>2. QED
    BY <1>1, <2>1
<1>5. \A m \in 1 .. Len(s) : b[m] = block(m)
  BY <1>1
<1>6. IsSeq(<<>>) /\ Range(<<>>) = {} /\ ~Repeats(<<>>)
  <2>1. <<>> \in Seq({}) /\ DOMAIN <<>> = {}
    OBVIOUS
  <2>2. QED
    BY <2>1, SeqIs DEF Range, Repeats
<1>7. ASSUME NEW x PROVE IsSeq(<<x>>) /\ Range(<<x>>) = {x} /\ ~Repeats(<<x>>)
  <2>1. <<x>> \in Seq({x}) /\ DOMAIN <<x>> = {1} /\ <<x>>[1] = x
    OBVIOUS
  <2>2. QED
    BY <2>1, SeqIs DEF Range, Repeats
<1>8. CASE Len(s) = 0
  <2>1. b = <<>> /\ t = <<>> /\ R = {}
    <3>1. b = <<>>
      <4> HIDE DEF b, R
      <4>1. QED
        BY <1>4, <1>8
    <3>2. t = <<>>
      BY <3>1 DEF FlattenSeq
    <3>3. R = {}
      BY <1>1, <1>8 DEF Range
    <3>4. QED
      BY <3>1, <3>2, <3>3
  <2>2. Those(s, S) = <<>> /\ Range(s) = {}
    BY <2>1 DEF Those
  <2>3. QED
    BY <1>6, <2>2
<1>9. CASE Len(s) # 0
  <2>1. PICK T \in [1 .. Len(b) -> Seq(R)] :
           /\ T[1] = b[1] /\ T[Len(b)] = FlattenSeq(b)
           /\ \A i \in 1 .. Len(b) : i # 1 => T[i] = T[i - 1] \o b[i]
    <3> HIDE DEF b, R
    <3>1. QED
      BY <1>4, <1>9, FlattenSteps
  <2> DEFINE Good == {m \in 1 .. Len(s) : Fits3(T[m], m)}
  <2>2. \A m \in 1 .. Len(s) : Upto(m) \subseteq R
    BY <1>1 DEF Range
  <2>3. 1 \in Good
    <3>1. 1 \in 1 .. Len(s) /\ T[1] = block(1)
      BY <1>1, <1>5, <1>9, <2>1
    <3>2. Upto(1) = {s[1]}
      OBVIOUS
    <3>3. CASE s[1] \in S
      BY <1>7, <3>1, <3>2, <3>3
    <3>4. CASE s[1] \notin S
      BY <1>6, <3>1, <3>2, <3>4
    <3>5. QED
      BY <3>3, <3>4
  <2>4. ASSUME NEW m \in 1 .. Len(s), m < Len(s), m \in Good PROVE m + 1 \in Good
    <3> DEFINE q == T[m]
               x == s[m + 1]
    <3>1. m + 1 \in 1 .. Len(s) /\ m + 1 # 1 /\ (m + 1) - 1 = m
      BY <1>1, <2>4
    <3>2. T[m + 1] = q \o block(m + 1)
      BY <1>4, <1>5, <2>1, <3>1
    <3>3. IsSeq(q) /\ Range(q) = Upto(m) \cap S /\ (~Repeats(s) => ~Repeats(q))
      BY <2>4
    <3>4. Upto(m + 1) = Upto(m) \cup {x}
      <4>1. 1 .. (m + 1) = (1 .. m) \cup {m + 1}
        BY <1>1
      <4>2. QED
        BY <4>1
    <3> HIDE DEF q
    <3>5. CASE x \in S
      <4>1. T[m + 1] = q \o <<x>> /\ Joined(q, <<x>>, q \o <<x>>)
        BY <1>7, <3>2, <3>3, <3>5, JoinedIs
      <4> DEFINE j == q \o <<x>>
      <4>2. IsSeq(j) /\ Range(j) = Upto(m + 1) \cap S
        <5>1. IsSeq(j) /\ Range(j) = Range(q) \cup Range(<<x>>)
          BY <1>7, <3>3, RangeJoined
        <5>2. QED
          BY <1>7, <3>3, <3>4, <3>5, <5>1
      <4>3. ASSUME ~Repeats(s) PROVE ~Repeats(j)
        <5>1. ~Repeats(q)
          BY <3>3, <4>3
        <5>2. ASSUME NEW n \in DOMAIN q PROVE q[n].key # x.key
          <6>1. q[n] \in Upto(m)
            BY <3>3 DEF Range
          <6>2. PICK y \in 1 .. m : q[n] = s[y]
            BY <6>1
          <6>3. y \in DOMAIN s /\ m + 1 \in DOMAIN s /\ y # m + 1
            BY <1>1, <2>4, <3>1
          <6>4. QED
            BY <4>3, <6>2, <6>3 DEF Repeats
        <5> HIDE DEF j
        <5>3. /\ \A n \in DOMAIN j : (n \in DOMAIN q /\ j[n] = q[n]) \/ (n = Len(q) + 1 /\ j[n] = x)
              /\ Len(q) \in Nat
              /\ Len(q) + 1 \notin DOMAIN q
          <6>1. Len(q) \in Nat /\ DOMAIN q = 1 .. Len(q)
            BY <3>3, SeqBounds
          <6>2. DOMAIN <<x>> = {1} /\ <<x>>[1] = x
            OBVIOUS
          <6>3. Joined(q, <<x>>, j)
            BY <4>1 DEF j
          <6>4. ASSUME NEW n \in DOMAIN j
                PROVE  (n \in DOMAIN q /\ j[n] = q[n]) \/ (n = Len(q) + 1 /\ j[n] = x)
            <7>1. CASE n \in DOMAIN q
              BY <6>3, <7>1 DEF Joined
            <7>2. CASE n \notin DOMAIN q
              <8>1. n \in Nat /\ n - Len(q) \in DOMAIN <<x>> /\ j[n] = <<x>>[n - Len(q)]
                BY <6>3, <7>2 DEF Joined
              <8>2. n - Len(q) \in {1}
                BY <6>2, <8>1
              <8>3. n - Len(q) = 1
                BY <8>2
              <8>4. n = Len(q) + 1
                BY <6>1, <8>1, <8>3
              <8>5. j[n] = x
                BY <6>2, <8>1, <8>3
              <8>6. QED
                BY <8>4, <8>5
            <7>3. QED
              BY <7>1, <7>2
          <6>5. QED
            BY <6>1, <6>4
        <5>4. QED
          BY <5>1, <5>2, <5>3 DEF Repeats
      <4>4. QED
        BY <3>1, <4>1, <4>2, <4>3
    <3>6. CASE x \notin S
      <4>1. T[m + 1] = q
        <5>1. q \in Seq(Range(q))
          BY <3>3, InSeq
        <5>2. block(m + 1) = <<>>
          BY <3>6
        <5> HIDE DEF block
        <5>3. QED
          BY <3>2, <5>1, <5>2
      <4>2. Upto(m + 1) \cap S = Upto(m) \cap S
        BY <3>4, <3>6
      <4>3. QED
        BY <3>1, <3>3, <4>1, <4>2
    <3>7. QED
      BY <3>5, <3>6
  <2>5. Len(s) \in Good
    <3> HIDE DEF Good
    <3>1. Len(s) \in Nat /\ 1 \in Nat /\ 1 <= Len(s)
      BY <1>1, <1>9
    <3>2. 1 .. Len(s) \subseteq Good
      BY <2>3, <2>4, <3>1, Inductive
    <3>3. QED
      BY <3>1, <3>2
  <2>6. Those(s, S) = T[Len(s)] /\ Upto(Len(s)) = R
    <3>1. Those(s, S) = T[Len(s)]
      BY <1>4, <2>1 DEF Those
    <3>2. Upto(Len(s)) = R
      BY <1>1 DEF Range
    <3>3. QED
      BY <3>1, <3>2
  <2>7. QED
    BY <2>5, <2>6
<1>10. QED
  BY <1>8, <1>9

\* A walk's state, its start and its step, as Walk has them.
WalkStart(k) == [queue |-> <<k>>, seen |-> {k}, found |-> <<>>]
WalkStep(dims, s) ==
    IF s.queue = <<>> THEN s
    ELSE LET parents == dims[Head(s.queue)].parents
             new == Those(parents, {p \in Range(parents) : p.key \notin s.seen})
             known == Those(new, {p \in Range(new) : p.key \in DOMAIN dims})
         IN [queue |-> Tail(s.queue) \o [i \in DOMAIN known |-> known[i].key],
             seen |-> s.seen \cup Keys(new), found |-> s.found \o new]
Walks(dims, k, f) ==
    f = [n \in 0 .. Cardinality(DOMAIN dims) |-> IF n = 0 THEN WalkStart(k) ELSE WalkStep(dims, f[n - 1])]

\* Walk takes what has been found in the end.
LEMMA WalkBy ==
    ASSUME NEW dims, NEW k, \E f : Walks(dims, k, f)
    PROVE  \E f : Walks(dims, k, f) /\ Walk(dims, k) = f[Cardinality(DOMAIN dims)].found
<1> DEFINE f0 == CHOOSE f : Walks(dims, k, f)
<1>1. Walks(dims, k, f0)
  OBVIOUS
<1>2. Walk(dims, k) = f0[Cardinality(DOMAIN dims)].found
  BY DEF Walk, Met, KeysListed, Walks, WalkStart, WalkStep
<1>3. QED
  BY <1>1, <1>2

\* Dimensions whose parents are dimensions, each once.
Parented(dims) ==
    /\ IsFiniteSet(DOMAIN dims)
    /\ \A x \in DOMAIN dims :
         /\ IsSeq(dims[x].parents) /\ ~Repeats(dims[x].parents)
         /\ Keys(dims[x].parents) \subseteq DOMAIN dims
Upwards(dims) == [x \in DOMAIN dims |-> Keys(dims[x].parents)]

\* What is known after n steps: what has been seen is the start and what it
\* leads to, the parents of what is not in the queue have been seen, and with a
\* queue n have left it.
WalkInv(dims, k, n, s) ==
    /\ s = [queue |-> s.queue, seen |-> s.seen, found |-> s.found]
    /\ IsSeq(s.queue) /\ IsSeq(s.found) /\ k \in s.seen /\ s.seen \subseteq DOMAIN dims
    /\ Keys(s.found) = s.seen \ {k} /\ Range(s.queue) \subseteq s.seen
    /\ \A i, j \in DOMAIN s.queue : s.queue[i] = s.queue[j] => i = j
    /\ \A x \in s.seen \ Range(s.queue) : Upwards(dims)[x] \subseteq s.seen
    /\ \A x \in s.seen \ {k} : x \in LeadsTo(Upwards(dims), k)
    /\ s.queue # <<>> => Cardinality(s.seen \ Range(s.queue)) = n

\* The keys of a sequence's elements.
LEMMA KeysOf ==
    ASSUME NEW s, IsSeq(s)
    PROVE  LET q == [i \in DOMAIN s |-> s[i].key]
           IN /\ IsSeq(q) /\ Range(q) = Keys(s) /\ Len(q) = Len(s)
              /\ ~Repeats(s) => \A i, j \in DOMAIN q : q[i] = q[j] => i = j
<1> DEFINE q == [i \in DOMAIN s |-> s[i].key]
<1>1. Len(s) \in Nat /\ DOMAIN s = 1 .. Len(s)
  BY SeqBounds
<1>2. q \in [1 .. Len(s) -> Keys(s)]
  <2>1. \A i \in 1 .. Len(s) : s[i].key \in Keys(s)
    BY <1>1 DEF Keys
  <2>2. QED
    BY <1>1, <2>1
<1>3. q \in Seq(Keys(s)) /\ Len(q) = Len(s)
  <2> HIDE DEF q
  <2>1. QED
    BY <1>1, <1>2
<1>4. IsSeq(q)
  <2> HIDE DEF q
  <2>1. QED
    BY <1>3, SeqIs
<1>5. Range(q) = Keys(s)
  BY DEF Range, Keys
<1>6. ~Repeats(s) => \A i, j \in DOMAIN q : q[i] = q[j] => i = j
  BY DEF Repeats
<1>7. QED
  BY <1>3, <1>4, <1>5, <1>6

\* One sequence after another, neither with anything twice nor with anything of
\* the other.
LEMMA JoinOnce ==
    ASSUME NEW s, NEW t, IsSeq(s), IsSeq(t), Range(s) \cap Range(t) = {},
           \A i, j \in DOMAIN s : s[i] = s[j] => i = j,
           \A i, j \in DOMAIN t : t[i] = t[j] => i = j
    PROVE  \A i, j \in DOMAIN (s \o t) : (s \o t)[i] = (s \o t)[j] => i = j
<1> DEFINE u == s \o t
<1>1. Joined(s, t, u)
  BY JoinedIs
<1>2. Len(s) \in Nat /\ \A n \in DOMAIN u : n \in Nat
  BY <1>1 DEF Joined
<1> HIDE DEF u
<1>3. SUFFICES ASSUME NEW i \in DOMAIN u, NEW j \in DOMAIN u, u[i] = u[j] PROVE i = j
  BY DEF u
<1>4. \A n \in DOMAIN u : \/ n \in DOMAIN s /\ u[n] = s[n]
                          \/ (n - Len(s)) \in DOMAIN t /\ u[n] = t[n - Len(s)]
  BY <1>1 DEF Joined
<1>5. \A x \in DOMAIN s, y \in DOMAIN t : s[x] # t[y]
  BY DEF Range
<1>6. CASE i \in DOMAIN s /\ u[i] = s[i]
  <2>1. j \in DOMAIN s /\ u[j] = s[j]
    BY <1>3, <1>4, <1>5, <1>6
  <2>2. QED
    BY <1>3, <1>6, <2>1
<1>7. CASE (i - Len(s)) \in DOMAIN t /\ u[i] = t[i - Len(s)]
  <2>1. (j - Len(s)) \in DOMAIN t /\ u[j] = t[j - Len(s)]
    BY <1>3, <1>4, <1>5, <1>7
  <2>2. i - Len(s) = j - Len(s)
    BY <1>3, <1>7, <2>1
  <2>3. QED
    BY <1>2, <2>2
<1>8. QED
  BY <1>4, <1>6, <1>7

\* The first of a sequence with nothing twice is not in the rest.
LEMMA TailOnce ==
    ASSUME NEW s, IsSeq(s), s # <<>>, \A i, j \in DOMAIN s : s[i] = s[j] => i = j
    PROVE  /\ IsSeq(Tail(s)) /\ Head(s) \in Range(s) /\ Head(s) \notin Range(Tail(s))
           /\ Range(s) = Range(Tail(s)) \cup {Head(s)}
           /\ \A i, j \in DOMAIN Tail(s) : Tail(s)[i] = Tail(s)[j] => i = j
<1> DEFINE t == Tail(s)
<1>1. /\ IsSeq(t) /\ Head(s) = s[1] /\ 1 \in DOMAIN s
      /\ \A n \in DOMAIN t : n \in Nat \ {0} /\ n + 1 \in DOMAIN s /\ t[n] = s[n + 1]
      /\ \A n \in DOMAIN s : n \in Nat \ {0} /\ (n = 1 \/ (n - 1 \in DOMAIN t /\ t[n - 1] = s[n]))
  BY TailIsSeq
<1> HIDE DEF t
<1>2. Head(s) \notin Range(t)
  <2>1. SUFFICES ASSUME NEW n \in DOMAIN t, t[n] = s[1] PROVE FALSE
    BY <1>1 DEF Range
  <2>2. n + 1 = 1 /\ n \in Nat \ {0}
    BY <1>1, <2>1
  <2>3. QED
    BY <2>2
<1>3. Range(s) = Range(t) \cup {Head(s)}
  <2>1. \A x \in Range(t) : x \in Range(s)
    BY <1>1 DEF Range
  <2>2. \A x \in Range(s) : x \in Range(t) \/ x = s[1]
    BY <1>1 DEF Range
  <2>3. s[1] \in Range(s)
    BY <1>1 DEF Range
  <2>4. QED
    BY <1>1, <2>1, <2>2, <2>3
<1>4. ASSUME NEW i \in DOMAIN t, NEW j \in DOMAIN t, t[i] = t[j] PROVE i = j
  <2>1. i + 1 = j + 1 /\ i \in Nat /\ j \in Nat
    BY <1>1, <1>4
  <2>2. QED
    BY <2>1
<1>5. QED
  BY <1>1, <1>2, <1>3, <1>4 DEF t

\* A step of the walk.
LEMMA WalkOn ==
    ASSUME NEW dims, Parented(dims), NEW k \in DOMAIN dims, NEW n \in Nat, NEW s, WalkInv(dims, k, n, s)
    PROVE  WalkInv(dims, k, n + 1, WalkStep(dims, s))
<1> DEFINE D == DOMAIN dims
           g == Upwards(dims)
<1>1. CASE s.queue = <<>>
  <2>1. WalkStep(dims, s) = s
    BY <1>1 DEF WalkStep
  <2>2. QED
    BY <1>1, <2>1 DEF WalkInv
<1>2. CASE s.queue # <<>>
  <2> DEFINE x == Head(s.queue)
             rest == Tail(s.queue)
             parents == dims[x].parents
             new == Those(parents, {p \in Range(parents) : p.key \notin s.seen})
             known == Those(new, {p \in Range(new) : p.key \in DOMAIN dims})
             more == [i \in DOMAIN known |-> known[i].key]
             t == WalkStep(dims, s)
  <2>1. t = [queue |-> rest \o more, seen |-> s.seen \cup Keys(new), found |-> s.found \o new]
    BY <1>2 DEF WalkStep
  <2>2. /\ IsSeq(s.queue) /\ IsSeq(s.found) /\ k \in s.seen /\ s.seen \subseteq D
        /\ Keys(s.found) = s.seen \ {k} /\ Range(s.queue) \subseteq s.seen
        /\ \A i, j \in DOMAIN s.queue : s.queue[i] = s.queue[j] => i = j
        /\ \A y \in s.seen \ Range(s.queue) : g[y] \subseteq s.seen
        /\ \A y \in s.seen \ {k} : y \in LeadsTo(g, k)
        /\ Cardinality(s.seen \ Range(s.queue)) = n
    BY <1>2 DEF WalkInv
  <2>3. /\ IsSeq(rest) /\ x \in Range(s.queue) /\ x \notin Range(rest)
        /\ Range(s.queue) = Range(rest) \cup {x}
        /\ \A i, j \in DOMAIN rest : rest[i] = rest[j] => i = j
    BY <1>2, <2>2, TailOnce
  <2>4. x \in D /\ x \in s.seen /\ IsSeq(parents) /\ ~Repeats(parents) /\ Keys(parents) \subseteq D /\ g[x] = Keys(parents)
    BY <2>2, <2>3 DEF Parented, Upwards
  <2> HIDE DEF x, rest, t, D, g
  <2>5. IsSeq(new) /\ ~Repeats(new) /\ Keys(new) = Keys(parents) \ s.seen
    <3> DEFINE S == {p \in Range(parents) : p.key \notin s.seen}
    <3>1. IsSeq(new) /\ ~Repeats(new) /\ Range(new) = Range(parents) \cap S
      <4> HIDE DEF S, parents
      <4>1. QED
        BY <2>4, ThoseAre DEF S
    <3>2. \A q : Keys(q) = {p.key : p \in Range(q)}
      BY DEF Keys, Range
    <3> HIDE DEF new, parents
    <3>3. QED
      BY <3>1, <3>2
  <2>6. IsSeq(known) /\ ~Repeats(known) /\ Keys(known) = Keys(new)
    <3> DEFINE S == {p \in Range(new) : p.key \in DOMAIN dims}
    <3>1. IsSeq(known) /\ ~Repeats(known) /\ Range(known) = Range(new) \cap S
      <4> HIDE DEF S, new
      <4>1. QED
        BY <2>5, ThoseAre DEF S
    <3>2. \A q : Keys(q) = {p.key : p \in Range(q)}
      BY DEF Keys, Range
    <3>3. Keys(new) \subseteq DOMAIN dims
      BY <2>4, <2>5 DEF D
    <3> HIDE DEF new, known
    <3>4. QED
      BY <3>1, <3>2, <3>3
  <2> HIDE DEF known
  <2>7. IsSeq(more) /\ Range(more) = Keys(new) /\ \A i, j \in DOMAIN more : more[i] = more[j] => i = j
    BY <2>6, KeysOf
  <2> HIDE DEF new, parents, more
  <2> DEFINE K == Keys(new)
  <2>8. K \cap s.seen = {} /\ K \subseteq D /\ g[x] \subseteq s.seen \cup K /\ K \subseteq g[x]
    BY <2>4, <2>5
  <2>9. /\ IsSeq(t.queue) /\ Range(t.queue) = Range(rest) \cup K
        /\ \A i, j \in DOMAIN t.queue : t.queue[i] = t.queue[j] => i = j
    <3>1. IsSeq(rest \o more) /\ Range(rest \o more) = Range(rest) \cup K
      BY <2>3, <2>7, RangeJoined
    <3>2. Range(rest) \cap Range(more) = {}
      BY <2>2, <2>3, <2>7, <2>8
    <3>3. \A i, j \in DOMAIN (rest \o more) : (rest \o more)[i] = (rest \o more)[j] => i = j
      BY <2>3, <2>7, <3>2, JoinOnce
    <3>4. QED
      BY <2>1, <3>1, <3>3
  <2>10. t.seen = s.seen \cup K
    BY <2>1
  <2>11. IsSeq(t.found) /\ Keys(t.found) = t.seen \ {k}
    <3>1. IsSeq(s.found \o new) /\ Range(s.found \o new) = Range(s.found) \cup Range(new)
      BY <2>2, <2>5, RangeJoined
    <3>2. \A q : Keys(q) = {p.key : p \in Range(q)}
      BY DEF Keys, Range
    <3>3. Keys(s.found \o new) = Keys(s.found) \cup K
      BY <3>1, <3>2
    <3>4. QED
      BY <2>1, <2>2, <2>8, <2>10, <3>1, <3>3
  <2>12. \A y \in t.seen \ Range(t.queue) : g[y] \subseteq t.seen
    BY <2>2, <2>3, <2>8, <2>9, <2>10
  <2>13. \A y \in t.seen \ {k} : y \in LeadsTo(g, k)
    <3>1. DOMAIN g = D /\ k \in DOMAIN g
      BY DEF g, Upwards, D
    <3>2. x = k \/ x \in LeadsTo(g, k)
      BY <2>2, <2>4
    <3>3. g[x] \cap DOMAIN g \subseteq LeadsTo(g, k)
      BY <3>1, <3>2, LeadsOn
    <3>4. K \subseteq LeadsTo(g, k)
      BY <2>8, <3>1, <3>3
    <3>5. QED
      BY <2>2, <2>10, <3>4
  <2>14. Cardinality(t.seen \ Range(t.queue)) = n + 1
    <3> DEFINE P == s.seen \ Range(s.queue)
    <3>1. t.seen \ Range(t.queue) = P \cup {x}
      BY <2>2, <2>3, <2>4, <2>8, <2>9, <2>10
    <3>2. x \notin P
      BY <2>3
    <3>3. IsFiniteSet(P)
      BY <2>2, FS_Subset DEF Parented, D
    <3>4. Cardinality(P) = n
      BY <2>2
    <3> HIDE DEF P
    <3>5. QED
      BY <3>1, <3>2, <3>3, <3>4, FS_AddElement
  <2>15. t = [queue |-> t.queue, seen |-> t.seen, found |-> t.found]
    BY <2>1
  <2>16. k \in t.seen /\ t.seen \subseteq D /\ Range(t.queue) \subseteq t.seen
    BY <2>2, <2>3, <2>8, <2>9, <2>10
  <2>17. QED
    BY <2>9, <2>11, <2>12, <2>13, <2>14, <2>15, <2>16 DEF WalkInv, t, D, g
<1>3. QED
  BY <1>1, <1>2

\* The states a walk can be in.
WalkStates(dims) ==
    [queue : Seq(DOMAIN dims), seen : SUBSET DOMAIN dims,
     found : Seq(UNION {Range(dims[x].parents) : x \in DOMAIN dims})]

\* A step of the walk stays among them.
LEMMA WalkStays ==
    ASSUME NEW dims, Parented(dims), NEW s \in WalkStates(dims)
    PROVE  WalkStep(dims, s) \in WalkStates(dims)
<1> DEFINE D == DOMAIN dims
           P == UNION {Range(dims[x].parents) : x \in D}
<1>0. s.queue \in Seq(D) /\ s.seen \subseteq D /\ s.found \in Seq(P)
  BY DEF WalkStates
<1>1. CASE s.queue = <<>>
  BY <1>1 DEF WalkStep
<1>2. CASE s.queue # <<>>
  <2> DEFINE x == Head(s.queue)
             parents == dims[x].parents
             new == Those(parents, {p \in Range(parents) : p.key \notin s.seen})
             known == Those(new, {p \in Range(new) : p.key \in DOMAIN dims})
             more == [i \in DOMAIN known |-> known[i].key]
             t == WalkStep(dims, s)
  <2>1. t = [queue |-> Tail(s.queue) \o more, seen |-> s.seen \cup Keys(new), found |-> s.found \o new]
    BY <1>2 DEF WalkStep
  <2>2. x \in D /\ Tail(s.queue) \in Seq(D)
    <3> HIDE DEF D
    <3>1. QED
      BY <1>0, <1>2
  <2>3. IsSeq(parents) /\ Keys(parents) \subseteq D /\ Range(parents) \subseteq P
    BY <2>2 DEF Parented
  <2> HIDE DEF x, parents, t
  <2>4. IsSeq(new) /\ Range(new) \subseteq Range(parents)
    <3> DEFINE S == {p \in Range(parents) : p.key \notin s.seen}
    <3> HIDE DEF S
    <3>1. IsSeq(Those(parents, S)) /\ Range(Those(parents, S)) = Range(parents) \cap S
      BY <2>3, ThoseAre
    <3>2. QED
      BY <3>1 DEF S
  <2>5. \A q : Keys(q) = {p.key : p \in Range(q)}
    BY DEF Keys, Range
  <2>6. Keys(new) \subseteq D
    BY <2>3, <2>4, <2>5
  <2> HIDE DEF new
  <2>7. IsSeq(known) /\ Range(known) \subseteq Range(new)
    <3> DEFINE S == {p \in Range(new) : p.key \in DOMAIN dims}
    <3> HIDE DEF S
    <3>1. IsSeq(Those(new, S)) /\ Range(Those(new, S)) = Range(new) \cap S
      BY <2>4, ThoseAre
    <3>2. QED
      BY <3>1 DEF S
  <2> HIDE DEF known
  <2>8. IsSeq(more) /\ Range(more) = Keys(known)
    BY <2>7, KeysOf
  <2>9. Keys(known) \subseteq D
    BY <2>5, <2>6, <2>7
  <2> HIDE DEF more
  <2>10. more \in Seq(D)
    BY <2>8, <2>9, InSeq
  <2>11. new \in Seq(P)
    <3>1. Range(new) \subseteq P
      BY <2>3, <2>4
    <3> HIDE DEF P
    <3>2. QED
      BY <2>4, <3>1, InSeq
  <2> HIDE DEF P, D
  <2>12. Tail(s.queue) \o more \in Seq(D) /\ s.found \o new \in Seq(P)
    BY <1>0, <2>2, <2>10, <2>11
  <2>13. QED
    BY <1>0, <2>1, <2>6, <2>12 DEF WalkStates, t, P, D
<1>3. QED
  BY <1>1, <1>2

\* There is the table of states that Walk reads.
LEMMA WalksExist ==
    ASSUME NEW dims, Parented(dims), NEW k \in DOMAIN dims
    PROVE  \E f : Walks(dims, k, f)
<1> DEFINE N == Cardinality(DOMAIN dims)
           U == WalkStates(dims)
           G == [x \in U \X Nat |-> WalkStep(dims, x[1])]
           start == WalkStart(k)
<1>1. N \in Nat
  BY FS_CardinalityType DEF Parented
<1>2. start \in U
  BY DEF WalkStates, WalkStart
<1>3. G \in [U \X Nat -> U]
  BY WalkStays
<1>4. PICK f : Iterates(f, 0, N, U, start, G)
  <2>1. Steps(G, U)
    BY <1>3 DEF Steps
  <2> HIDE DEF G, U, N, start
  <2>2. QED
    BY <1>1, <1>2, <2>1, Recursion
<1>5. f \in [0 .. N -> U] /\ f[0] = start /\ \A n \in 1 .. N : f[n] = WalkStep(dims, f[n - 1])
  <2>1. f \in [0 .. N -> U] /\ f[0] = start /\ \A n \in 0 + 1 .. N : f[n] = G[<<f[n - 1], n>>]
    BY <1>4 DEF Iterates
  <2>2. ASSUME NEW n \in 1 .. N PROVE f[n] = WalkStep(dims, f[n - 1])
    <3>1. n - 1 \in 0 .. N /\ n \in Nat /\ n \in 0 + 1 .. N
      BY <1>1
    <3>2. f[n - 1] \in U
      <4> HIDE DEF U, N
      <4>1. QED
        BY <2>1, <3>1
    <3>3. <<f[n - 1], n>> \in U \X Nat
      BY <3>1, <3>2
    <3>4. G[<<f[n - 1], n>>] = WalkStep(dims, f[n - 1])
      <4> HIDE DEF U
      <4>1. QED
        BY <3>3
    <3>5. QED
      BY <2>1, <3>1, <3>4
  <2>3. QED
    BY <2>1, <2>2
<1>6. f = [n \in 0 .. N |-> IF n = 0 THEN start ELSE WalkStep(dims, f[n - 1])]
  <2> DEFINE g == [n \in 0 .. N |-> IF n = 0 THEN start ELSE WalkStep(dims, f[n - 1])]
  <2>1. DOMAIN f = 0 .. N /\ DOMAIN g = 0 .. N
    BY <1>5
  <2>2. ASSUME NEW n \in 0 .. N PROVE f[n] = g[n]
    <3>1. n = 0 \/ n \in 1 .. N
      BY <1>1
    <3> HIDE DEF start
    <3>2. QED
      BY <1>5, <3>1
  <2>3. f = [n \in 0 .. N |-> f[n]] /\ g = [n \in 0 .. N |-> g[n]]
    BY <1>5
  <2> HIDE DEF g
  <2>4. f = g
    BY <2>2, <2>3
  <2>5. QED
    BY <2>4 DEF g
<1>7. QED
  BY <1>6 DEF Walks

\* What a walk has in the end.
LEMMA WalkEnds ==
    ASSUME NEW dims, Parented(dims), NEW k \in DOMAIN dims, NEW f, Walks(dims, k, f)
    PROVE  WalkInv(dims, k, Cardinality(DOMAIN dims), f[Cardinality(DOMAIN dims)])
<1> DEFINE N == Cardinality(DOMAIN dims)
           S == {n \in 0 .. N : WalkInv(dims, k, n, f[n])}
<1>1. N \in Nat
  BY FS_CardinalityType DEF Parented
<1>2. f[0] = WalkStart(k) /\ \A n \in 0 .. N : n < N => f[n + 1] = WalkStep(dims, f[n])
  <2>1. DOMAIN f = 0 .. N /\ \A n \in 0 .. N : f[n] = IF n = 0 THEN WalkStart(k) ELSE WalkStep(dims, f[n - 1])
    BY DEF Walks
  <2> HIDE DEF N
  <2>2. ASSUME NEW n \in 0 .. N, n < N PROVE f[n + 1] = WalkStep(dims, f[n])
    <3>1. n + 1 \in 0 .. N /\ n + 1 # 0 /\ (n + 1) - 1 = n
      BY <1>1, <2>2
    <3>2. QED
      BY <2>1, <3>1
  <2>3. QED
    BY <1>1, <2>1, <2>2
<1>3. WalkInv(dims, k, 0, WalkStart(k))
  <2> DEFINE s == WalkStart(k)
             g == Upwards(dims)
  <2>1. s.queue = <<k>> /\ s.seen = {k} /\ s.found = <<>>
    BY DEF WalkStart
  <2>2. IsSeq(<<k>>) /\ DOMAIN <<k>> = {1} /\ Range(<<k>>) = {k}
    <3>1. <<k>> \in Seq({k}) /\ DOMAIN <<k>> = {1} /\ <<k>>[1] = k
      OBVIOUS
    <3>2. QED
      BY <3>1, SeqIs DEF Range
  <2>3. IsSeq(<<>>) /\ Keys(<<>>) = {}
    <3>1. <<>> \in Seq({}) /\ DOMAIN <<>> = {}
      OBVIOUS
    <3>2. QED
      BY <3>1, SeqIs DEF Keys
  <2>4. s = [queue |-> s.queue, seen |-> s.seen, found |-> s.found]
    BY DEF WalkStart
  <2>5. Cardinality(s.seen \ Range(s.queue)) = 0
    <3>1. s.seen \ Range(s.queue) = {}
      BY <2>1, <2>2
    <3>2. QED
      BY <3>1, FS_EmptySet
  <2> HIDE DEF s
  <2>6. \A i, j \in DOMAIN s.queue : s.queue[i] = s.queue[j] => i = j
    BY <2>1, <2>2
  <2>7. QED
    BY <2>1, <2>2, <2>3, <2>4, <2>5, <2>6 DEF WalkInv, s
<1>4. 0 \in S
  BY <1>1, <1>2, <1>3
<1>5. \A n \in 0 .. N : n < N /\ n \in S => n + 1 \in S
  <2> HIDE DEF N
  <2>1. SUFFICES ASSUME NEW n \in 0 .. N, n < N, n \in S PROVE n + 1 \in S
    OBVIOUS
  <2>2. WalkInv(dims, k, n + 1, WalkStep(dims, f[n]))
    BY <2>1, WalkOn
  <2>3. n + 1 \in 0 .. N
    BY <1>1, <2>1
  <2>4. QED
    BY <1>2, <2>1, <2>2, <2>3
<1>6. N \in S
  <2> HIDE DEF S, N
  <2>1. 0 .. N \subseteq S
    BY <1>1, <1>4, <1>5, Inductive
  <2>2. QED
    BY <1>1, <2>1
<1>7. QED
  BY <1>6

\* The ancestors of a dimension that does not lead to itself are what it leads to.
LEMMA AncestorsAre ==
    ASSUME NEW dims, Parented(dims), NEW k \in DOMAIN dims, k \notin LeadsTo(Upwards(dims), k)
    PROVE  Ancestors(dims, k) = LeadsTo(Upwards(dims), k)
<1> DEFINE N == Cardinality(DOMAIN dims)
           D == DOMAIN dims
           g == Upwards(dims)
<1>1. PICK f : Walks(dims, k, f) /\ Walk(dims, k) = f[N].found
  BY WalksExist, WalkBy
<1> DEFINE s == f[N]
<1>2. WalkInv(dims, k, N, s)
  BY <1>1, WalkEnds
<1>3. /\ IsSeq(s.queue) /\ k \in s.seen /\ s.seen \subseteq D
      /\ Keys(s.found) = s.seen \ {k} /\ Range(s.queue) \subseteq s.seen
      /\ \A x \in s.seen \ Range(s.queue) : g[x] \subseteq s.seen
      /\ \A x \in s.seen \ {k} : x \in LeadsTo(g, k)
      /\ s.queue # <<>> => Cardinality(s.seen \ Range(s.queue)) = N
  BY <1>2 DEF WalkInv
<1>4. Ancestors(dims, k) = s.seen \ {k}
  BY <1>1, <1>3 DEF Ancestors
<1> HIDE DEF s
<1>5. s.queue = <<>>
  <2>1. SUFFICES ASSUME s.queue # <<>> PROVE FALSE
    OBVIOUS
  <2> DEFINE R == s.seen \ Range(s.queue)
             x == Head(s.queue)
  <2>2. x \in Range(s.queue)
    <3>1. Len(s.queue) \in Nat /\ DOMAIN s.queue = 1 .. Len(s.queue)
      BY <1>3, SeqBounds
    <3>2. s.queue \in Seq(Range(s.queue))
      BY <1>3, InSeq
    <3>3. QED
      BY <2>1, <3>2
  <2>3. R \subseteq D /\ R # D
    BY <1>3, <2>2
  <2>4. IsFiniteSet(D)
    BY DEF Parented
  <2>5. Cardinality(R) < N
    <3> HIDE DEF R
    <3>1. QED
      BY <2>3, <2>4, FS_Subset, FS_CardinalityType
  <2>6. N \in Nat
    BY <2>4, FS_CardinalityType
  <2>7. QED
    BY <1>3, <2>1, <2>5, <2>6
<1>6. \A x \in s.seen : g[x] \subseteq s.seen
  <2>1. Range(<<>>) = {}
    BY DEF Range
  <2>2. QED
    BY <1>3, <1>5, <2>1
<1>7. DOMAIN g = D
  BY DEF Upwards
<1> HIDE DEF g, D
<1>8. LeadsTo(g, k) \subseteq s.seen \ {k}
  <2> DEFINE S == s.seen \ {k}
  <2>1. g[k] \cap D \subseteq S /\ \A x \in S : g[x] \cap D \subseteq S
    <3>1. k \in DOMAIN g /\ k \notin LeadsTo(g, k)
      BY <1>7 DEF D, g
    <3>2. g[k] \cap D \subseteq LeadsTo(g, k) /\ \A x \in LeadsTo(g, k) : g[x] \cap D \subseteq LeadsTo(g, k)
      BY <1>7, <3>1, LeadsOn
    <3>3. k \notin g[k] /\ \A x \in S : k \notin g[x]
      BY <1>3, <3>1, <3>2, <1>7
    <3>4. QED
      BY <1>3, <1>6, <3>3
  <2>2. S \in SUBSET DOMAIN g
    BY <1>3, <1>7
  <2> HIDE DEF S
  <2>3. LeadsTo(g, k) \subseteq S
    BY <1>7, <2>1, <2>2 DEF LeadsTo
  <2>4. QED
    BY <2>3 DEF S
<1>9. QED
  BY <1>3, <1>4, <1>8 DEF g

-----------------------------------------------------------------------------
(* The filters of a report call.                                           *)

\* A derived dimension that is, or is above, one bound to a domain is above a
\* leaf: what the code relies on when it resolves a filter on it.
Anchored ==
    \A i \in Accepting :
        LET c == Catalogue(i)
        IN \A b \in Bound(c, DOMAIN c.domains) : \A k \in {b} \cup LeadsTo(ParentGraph(c), b) :
             IsDerived(c.dims[k]) =>
                \E l \in DOMAIN c.dims : IsLeaf(c.dims[l]) /\ k \in LeadsTo(ParentGraph(c), l)

\* In an accepted catalogue, Ancestors is what the parents lead to.
LEMMA AncestorsLead ==
    ASSUME NEW i \in Accepting, NEW k \in DOMAIN Catalogue(i).dims
    PROVE  Ancestors(Catalogue(i).dims, k) = LeadsTo(ParentGraph(Catalogue(i)), k)
<1> DEFINE c == Catalogue(i)
           g == ParentGraph(c)
<1>1. Valid(c)
  BY CatalogueIs
<1>2. /\ IsFiniteSet(DOMAIN c.dims)
      /\ \A x \in DOMAIN c.dims : IsSeq(c.dims[x].parents) /\ ~Repeats(c.dims[x].parents)
  BY InstancesAssumption
<1> HIDE DEF c
<1>3. DOMAIN g = DOMAIN c.dims /\ ~HasCycle(g) /\ \A x \in DOMAIN c.dims : Keys(c.dims[x].parents) \subseteq DOMAIN c.dims
  BY <1>1 DEF ParentGraph, Valid, DimensionsFit
<1>4. Parented(c.dims)
  BY <1>2, <1>3 DEF Parented
<1>5. g = Upwards(c.dims)
  BY DEF Upwards, ParentGraph
<1> HIDE DEF g
<1>6. k \notin LeadsTo(g, k)
  BY <1>2, <1>3, NoCycle DEF c
<1>7. QED
  BY <1>4, <1>5, <1>6, AncestorsAre DEF c, g

\* Bound dimensions are dimensions of the catalogue.
LEMMA BoundAre ==
    ASSUME NEW i \in Accepting, NEW ds
    PROVE  /\ Bound(Catalogue(i), ds) \subseteq DOMAIN Catalogue(i).dims
           /\ Bound(Catalogue(i), ds) \subseteq Bound(Catalogue(i), DOMAIN Catalogue(i).domains)
<1> DEFINE c == Catalogue(i)
<1>1. Valid(c)
  BY CatalogueIs
<1> HIDE DEF c
<1>2. \A n \in DOMAIN c.domains : \A cube \in Range(c.domains[n].cubes) : CubeFits(c, c.domains[n], cube)
  BY <1>1 DEF Valid
<1>3. \A n \in DOMAIN c.domains : \A cube \in Range(c.domains[n].cubes) :
        ~cube.source_inline => cube.key \in DOMAIN c.dims
  BY <1>2 DEF CubeFits
<1>4. QED
  BY <1>3 DEF Bound, c

\* The order of an accepted catalogue is one of its dimensions.
LEMMA OrderIs ==
    ASSUME NEW i \in Accepting
    PROVE  Range(Catalogue(i).order) = DOMAIN Catalogue(i).dims /\ IsSeq(Catalogue(i).order)
<1> DEFINE all == Listed(Instances[i].files, "dimensions")
           c == Assembled(Instances[i].files)
<1>1. Catalogue(i) = c
  BY CatalogueIs
<1>2. DOMAIN c.dims = Keys(all) /\ c.order = [n \in DOMAIN all |-> all[n].key]
  BY DEF Assembled, ByKey, Tabulated
<1>3. Range(c.order) = Keys(all)
  BY <1>2 DEF Range, Keys
<1>4. IsSeq(Catalogue(i).order)
  BY InstancesAssumption
<1>5. QED
  BY <1>1, <1>2, <1>3, <1>4

\* What the leaves are that a dimension's members are asked of.
LEMMA WaysAre ==
    ASSUME NEW i \in Accepting, NEW k \in DOMAIN Catalogue(i).dims, ~Catalogue(i).dims[k].ragged
    PROVE  LET c == Catalogue(i)
               leaves == {l \in DOMAIN c.dims : IsLeaf(c.dims[l]) /\ k \in LeadsTo(ParentGraph(c), l)}
               ways == Transitive(c, k)
           IN IF leaves = {} THEN ways = <<>>
              ELSE /\ ways # <<>> /\ ways[1].leaf \in leaves
                   /\ ways[1].table = c.dims[ways[1].leaf].source.table
                   /\ ways[1].key_column = c.dims[ways[1].leaf].source.key_column
<1> DEFINE c == Catalogue(i)
           leaves == {l \in DOMAIN c.dims : IsLeaf(c.dims[l]) /\ k \in LeadsTo(ParentGraph(c), l)}
           S == {l \in DOMAIN c.dims : IsLeaf(c.dims[l]) /\ k \in Ancestors(c.dims, l)}
           s == Those(c.order, S)
           link(l) == CHOOSE p \in Range(Walk(c.dims, l)) : p.key = k
           way(l, column) == [leaf |-> l, table |-> c.dims[l].source.table,
                              key_column |-> c.dims[l].source.key_column, column |-> column]
           direct == [n \in DOMAIN s |-> way(s[n], link(s[n]).source_column)]
<1>1. S = leaves
  BY AncestorsLead
<1>2. Range(c.order) = DOMAIN c.dims /\ IsSeq(c.order) /\ c = Catalogue(i)
  BY OrderIs
<1> HIDE DEF S, c
<1>3. IsSeq(s) /\ Range(s) = S
  <2>1. IsSeq(s) /\ Range(s) = Range(c.order) \cap S
    BY <1>2, ThoseAre
  <2>2. S \subseteq DOMAIN c.dims
    BY <1>1
  <2>3. QED
    BY <1>2, <2>1, <2>2
<1>4. Transitive(c, k) = direct
  BY DEF Transitive, WaysTo, LeavesUnder, S, c
<1> HIDE DEF s, leaves, link
<1>5. Len(s) \in Nat /\ DOMAIN s = 1 .. Len(s)
  BY <1>3, SeqBounds
<1>6. DOMAIN direct = DOMAIN s /\ DOMAIN <<>> = {}
  OBVIOUS
<1>7. CASE leaves = {}
  <2>1. DOMAIN s = {}
    BY <1>1, <1>3, <1>7 DEF Range
  <2>2. direct = <<>>
    BY <2>1
  <2>3. QED
    BY <1>4, <1>7, <2>2 DEF leaves, c
<1>8. CASE leaves # {}
  <2>1. DOMAIN s # {}
    BY <1>1, <1>3, <1>8 DEF Range
  <2>2. 1 \in DOMAIN s
    BY <1>5, <2>1
  <2>3. s[1] \in leaves
    BY <1>1, <1>3, <2>2 DEF Range
  <2>4. direct[1] = way(s[1], link(s[1]).source_column)
    BY <2>2
  <2>5. direct # <<>>
    BY <1>6, <2>1
  <2> HIDE DEF direct
  <2>6. /\ direct[1].leaf = s[1] /\ direct[1].table = c.dims[s[1]].source.table
        /\ direct[1].key_column = c.dims[s[1]].source.key_column
    BY <2>4
  <2>7. QED
    BY <1>4, <1>8, <2>3, <2>5, <2>6 DEF leaves, c
<1>9. QED
  BY <1>7, <1>8

\* A dimension of an accepted catalogue is a leaf, derived or ragged.
LEMMA KindsAre ==
    ASSUME NEW i \in Accepting, NEW k \in DOMAIN Catalogue(i).dims
    PROVE  LET c == Catalogue(i)
               d == c.dims[k]
           IN /\ IsLeaf(d) \/ IsDerived(d) \/ d.ragged
              /\ ~(IsLeaf(d) /\ IsDerived(d)) /\ ~(IsLeaf(d) /\ d.ragged) /\ ~(IsDerived(d) /\ d.ragged)
              /\ d.ragged => d.leaf_dimension \in DOMAIN c.dims /\ IsLeaf(c.dims[d.leaf_dimension])
<1> DEFINE c == Catalogue(i)
           d == c.dims[k]
           T == {t \in {<<1, IsLeaf(d)>>, <<2, IsDerived(d)>>, <<3, d.ragged>>} : t[2]}
<1>1. Valid(c)
  BY CatalogueIs
<1> HIDE DEF c
<1>2. DimensionFits(c, d) /\ RaggedFits(c, d)
  BY <1>1 DEF Valid, DimensionsFit, c
<1>3. Cardinality(T) = 1
  BY <1>2 DEF DimensionFits
<1>4. PICK t : T = {t}
  <2>1. IsFiniteSet(T)
    <3> DEFINE a == <<1, IsLeaf(d)>>
               b == <<2, IsDerived(d)>>
               e == <<3, d.ragged>>
    <3>1. IsFiniteSet({a, b, e})
      <4> HIDE DEF a, b, e
      <4>1. IsFiniteSet({a})
        BY FS_Singleton
      <4>2. IsFiniteSet({a} \cup {b})
        BY <4>1, FS_AddElement
      <4>3. IsFiniteSet(({a} \cup {b}) \cup {e})
        BY <4>2, FS_AddElement
      <4>4. {a, b, e} = ({a} \cup {b}) \cup {e}
        OBVIOUS
      <4>5. QED
        BY <4>3, <4>4
    <3>2. T \subseteq {a, b, e}
      OBVIOUS
    <3> HIDE DEF T, a, b, e
    <3>3. QED
      BY <3>1, <3>2, FS_Subset
  <2> HIDE DEF T
  <2>2. QED
    BY <1>3, <2>1, FS_Singleton
<1>5. /\ IsLeaf(d) => <<1, IsLeaf(d)>> \in T
      /\ IsDerived(d) => <<2, IsDerived(d)>> \in T
      /\ d.ragged => <<3, d.ragged>> \in T
  OBVIOUS
<1>6. T # {} => IsLeaf(d) \/ IsDerived(d) \/ d.ragged
  OBVIOUS
<1>7. /\ <<1, IsLeaf(d)>> # <<2, IsDerived(d)>> /\ <<1, IsLeaf(d)>> # <<3, d.ragged>>
      /\ <<2, IsDerived(d)>> # <<3, d.ragged>>
  OBVIOUS
<1> HIDE DEF T, d
<1>8. IsLeaf(d) \/ IsDerived(d) \/ d.ragged
  BY <1>4, <1>6
<1>9. ~(IsLeaf(d) /\ IsDerived(d))
  BY <1>4, <1>5, <1>7
<1>10. ~(IsLeaf(d) /\ d.ragged)
  BY <1>4, <1>5, <1>7
<1>11. ~(IsDerived(d) /\ d.ragged)
  BY <1>4, <1>5, <1>7
<1>12. d.ragged => d.leaf_dimension \in DOMAIN c.dims /\ IsLeaf(c.dims[d.leaf_dimension])
  BY <1>2 DEF RaggedFits
<1>13. QED
  BY <1>8, <1>9, <1>10, <1>11, <1>12 DEF d, c

\* What an answered report call keeps of its filters.
LEMMA KeptAreMeant ==
    ASSUME Anchored, NEW i \in Accepting, NEW ds, NEW filters, filters \subseteq DOMAIN Catalogue(i).dims
    PROVE  LET c == Catalogue(i)
               kept == CheckedFilters(c, filters, FilterKeys(c, ds)).kept
           IN /\ \A k \in filters : k \in kept <=> \E leaf \in Bound(c, ds) : Restricts(c, k, leaf)
              /\ \A k \in kept : FilterLeaf(c, k) # "" /\ Restricts(c, k, FilterLeaf(c, k))
<1> DEFINE c == Catalogue(i)
           g == ParentGraph(c)
           B == Bound(c, ds)
           kept == CheckedFilters(c, filters, FilterKeys(c, ds)).kept
<1>1. B \subseteq DOMAIN c.dims /\ B \subseteq Bound(c, DOMAIN c.domains)
  BY BoundAre
<1>2. \A b \in B : Ancestors(c.dims, b) = LeadsTo(g, b)
  BY <1>1, AncestorsLead
<1>3. kept = filters \cap DOMAIN c.dims \cap FilterKeys(c, ds)
  BY DEF CheckedFilters
<1>4. \A k \in filters : k \in kept <=> \E leaf \in B : Restricts(c, k, leaf)
  <2>1. FilterKeys(c, ds) = B \cup (UNION {Ancestors(c.dims, b) : b \in B}) \cup RaggedOver(c, B)
    BY DEF FilterKeys
  <2>2. \A k \in DOMAIN c.dims : k \in FilterKeys(c, ds) <=>
            \/ k \in B \/ \E b \in B : k \in LeadsTo(g, b)
            \/ c.dims[k].ragged /\ c.dims[k].leaf_dimension \in B
    <3> HIDE DEF B, g, c
    <3>1. QED
      BY <1>2, <2>1 DEF RaggedOver
  <2> HIDE DEF kept
  <2>3. \A k \in filters : k \in DOMAIN c.dims
    OBVIOUS
  <2> HIDE DEF B, c
  <2>4. QED
    BY <1>3, <2>2, <2>3 DEF Restricts, g
<1>5. ASSUME NEW k \in kept PROVE FilterLeaf(c, k) # "" /\ Restricts(c, k, FilterLeaf(c, k))
  <2>1. k \in filters /\ k \in DOMAIN c.dims
    BY <1>3, <1>5
  <2>2. "" \notin DOMAIN c.dims
    BY InstancesAssumption
  <2>3. /\ IsLeaf(c.dims[k]) \/ IsDerived(c.dims[k]) \/ c.dims[k].ragged
        /\ c.dims[k].ragged => c.dims[k].leaf_dimension \in DOMAIN c.dims
    BY <2>1, KindsAre
  <2>4. CASE IsLeaf(c.dims[k])
    BY <2>1, <2>2, <2>4 DEF FilterLeaf, Restricts
  <2>5. CASE ~IsLeaf(c.dims[k]) /\ c.dims[k].ragged
    BY <2>2, <2>3, <2>5 DEF FilterLeaf, Restricts
  <2>6. CASE ~IsLeaf(c.dims[k]) /\ ~c.dims[k].ragged
    <3>1. PICK b \in B : Restricts(c, k, b)
      BY <1>4, <1>5, <2>1
    <3>2. k \in {b} \cup LeadsTo(g, b)
      BY <2>6, <3>1 DEF Restricts
    <3>3. IsDerived(c.dims[k])
      BY <2>3, <2>6
    <3>4. \E l \in DOMAIN c.dims : IsLeaf(c.dims[l]) /\ k \in LeadsTo(g, l)
      BY <1>1, <3>2, <3>3 DEF Anchored
    <3> DEFINE leaves == {l \in DOMAIN c.dims : IsLeaf(c.dims[l]) /\ k \in LeadsTo(g, l)}
    <3>5. Transitive(c, k) # <<>> /\ Transitive(c, k)[1].leaf \in leaves
      BY <2>1, <2>6, <3>4, WaysAre
    <3>6. FilterLeaf(c, k) = Transitive(c, k)[1].leaf
      BY <2>6, <3>5 DEF FilterLeaf
    <3>7. QED
      BY <2>2, <3>5, <3>6 DEF Restricts
  <2>7. QED
    BY <2>4, <2>5, <2>6
<1>6. QED
  BY <1>4, <1>5

\* What is bound to domains is bound to one of them.
LEMMA BoundEach ==
    ASSUME NEW c, NEW ds, NEW k
    PROVE  (\E leaf \in Bound(c, ds) : Restricts(c, k, leaf))
             <=> \E d \in ds : \E leaf \in Bound(c, {d}) : Restricts(c, k, leaf)
<1> DEFINE inOne(leaf, d) == d \in DOMAIN c.domains /\ \E cube \in Range(c.domains[d].cubes) :
                                                        ~cube.source_inline /\ cube.key = leaf
<1>1. ASSUME NEW D PROVE \A leaf : leaf \in Bound(c, D) <=> \E d \in D : inOne(leaf, d)
  BY DEF Bound
<1>2. \A leaf : leaf \in Bound(c, ds) <=> \E d \in ds : inOne(leaf, d)
  BY <1>1
<1>3. \A d, leaf : leaf \in Bound(c, {d}) <=> inOne(leaf, d)
  <2>1. SUFFICES ASSUME NEW d, NEW leaf PROVE leaf \in Bound(c, {d}) <=> inOne(leaf, d)
    OBVIOUS
  <2>2. leaf \in Bound(c, {d}) <=> \E e \in {d} : inOne(leaf, e)
    BY <1>1
  <2> HIDE DEF inOne
  <2>3. QED
    BY <2>2
<1> HIDE DEF inOne
<1>4. QED
  BY <1>2, <1>3

\* The domains of a statement: one of those under each line that has any, and no
\* others.
LEMMA DomainsAre ==
    ASSUME NEW i \in Accepting, NEW c, c = Catalogue(i), NEW name \in DOMAIN c.statements,
           NEW ds \in StatementDomains(c, name)
    PROVE  LET lines == Names(ResolveStatement(c, name))
           IN /\ \A d \in ds : \E line \in lines : d \in DomainsUnder(c, line)
              /\ \A line \in lines : DomainsUnder(c, line) # {} => \E d \in DomainsUnder(c, line) : d \in ds
<1> DEFINE lines == Names(ResolveStatement(c, name))
           under == [k \in DOMAIN c.metrics |-> DomainsUnder(c, k)]
           based == {k \in DOMAIN c.metrics : under[k] # {}}
<1>1. PICK domain \in MetricDomains(c) : ds = {domain[k] : k \in lines \cap DOMAIN domain}
  BY DEF StatementDomains
<1>2. Tabulated(under) = under
  BY DEF Tabulated
<1>3. DOMAIN domain = based /\ \A k \in based : domain[k] \in under[k]
  <2>1. MetricDomains(c) =
          {f \in [based -> UNION Range(under)] :
             \A k \in based : /\ f[k] \in under[k]
                              /\ c.metrics[k].derived => \E m \in Refs(c.metrics[k]) \cap based : f[k] = f[m]}
    <3> DEFINE t == Tabulated(under)
               b == {k \in DOMAIN c.metrics : t[k] # {}}
    <3>1. MetricDomains(c) =
            {f \in [b -> UNION Range(t)] :
               \A k \in b : /\ f[k] \in t[k]
                            /\ c.metrics[k].derived => \E m \in Refs(c.metrics[k]) \cap b : f[k] = f[m]}
      BY DEF MetricDomains
    <3>2. t = under /\ b = based
      <4>1. t = under
        BY <1>2
      <4> HIDE DEF t, under
      <4>2. QED
        BY <4>1
    <3> HIDE DEF t, b, under, based
    <3>3. QED
      BY <3>1, <3>2
  <2> HIDE DEF based, under
  <2>2. QED
    BY <2>1
<1>4. lines \subseteq DOMAIN c.metrics
  <2>1. StatementsFit(c)
    BY CatalogueIs DEF Valid
  <2>2. IsFiniteSet(DOMAIN c.statements)
    BY InstancesAssumption
  <2>3. \A n \in DOMAIN c.statements :
          IsSeq(ParseStatement(c.statements[n]).lines) /\ IsSeq(ParseStatement(c.statements[n]).concat)
    BY InstancesAssumption
  <2>4. QED
    BY <2>1, <2>2, <2>3, LinesAreMetrics
<1>5. \A k \in DOMAIN c.metrics : under[k] = DomainsUnder(c, k)
  OBVIOUS
<1>6. \A k \in lines : k \in based <=> DomainsUnder(c, k) # {}
  BY <1>4
<1> HIDE DEF lines, under, based
<1>7. \A d \in ds : \E line \in lines : d \in DomainsUnder(c, line)
  <2>1. SUFFICES ASSUME NEW d \in ds PROVE \E line \in lines : d \in DomainsUnder(c, line)
    OBVIOUS
  <2>2. PICK k \in lines : k \in based /\ d = domain[k]
    BY <1>1, <1>3
  <2>3. QED
    BY <1>3, <1>4, <1>5, <2>2
<1>8. \A line \in lines : DomainsUnder(c, line) # {} => \E d \in DomainsUnder(c, line) : d \in ds
  <2>1. SUFFICES ASSUME NEW line \in lines, DomainsUnder(c, line) # {} PROVE \E d \in DomainsUnder(c, line) : d \in ds
    OBVIOUS
  <2>2. line \in based
    BY <1>6, <2>1
  <2>3. domain[line] \in ds /\ domain[line] \in DomainsUnder(c, line)
    BY <1>1, <1>3, <1>4, <1>5, <2>2
  <2>4. QED
    BY <2>3
<1>9. QED
  BY <1>7, <1>8 DEF lines

\* FiltersHonoured: whichever domain a metric over several is taken to be of, a
\* filter kept restricts what a domain under the statement is bound to, by the
\* members, through the parents or by a hierarchy, and is resolved to a leaf it
\* restricts; one dropped restricts, of each line, nothing of some domain under
\* it (context_validation, filter_resolver).  No assumption on overlapping jobs.
THEOREM FiltersAreHonoured ==
    ASSUME Anchored
    PROVE  DeploymentSpec => []FiltersHonoured
<1> DEFINE J == served \in Accepting \cup {0}
<1>1. DeploymentInit => FiltersHonoured
  <2>1. Range(<<>>) = {}
    BY DEF Range
  <2>2. QED
    BY <2>1 DEF DeploymentInit, FiltersHonoured
<1>2. ASSUME J, FiltersHonoured, [DeploymentNext]_deploymentVars PROVE FiltersHonoured'
  <2>1. Range(<<>>) = {}
    BY DEF Range
  <2>2. CASE answer' = <<>>
    BY <2>1, <2>2 DEF FiltersHonoured
  <2>3. CASE UNCHANGED deploymentVars
    BY <1>2, <2>3 DEF FiltersHonoured, deploymentVars
  <2>4. ASSUME NEW call \in Calls, Ask(call) PROVE FiltersHonoured'
    <3> DEFINE c == Catalogue(served)
    <3>12. PICK ds \in StatementDomains(c, call.statement) : \E domain :
            LET checked == CheckedFilters(c, call.filters, FilterKeys(c, ds))
            IN answer' = <<[tool |-> "report", of |-> served, call |-> call, domain |-> domain, kept |-> checked.kept,
                            refused |-> checked.failed \/ AxesRefused(c, call.axes)]>>
      BY <2>4 DEF Ask
    <3>1. PICK domain :
            LET checked == CheckedFilters(c, call.filters, FilterKeys(c, ds))
            IN answer' = <<[tool |-> "report", of |-> served, call |-> call, domain |-> domain, kept |-> checked.kept,
                            refused |-> checked.failed \/ AxesRefused(c, call.axes)]>>
      BY <3>12
    <3> DEFINE checked == CheckedFilters(c, call.filters, FilterKeys(c, ds))
               lines == Names(ResolveStatement(c, call.statement))
               applies(k, d) == \E leaf \in Bound(c, {d}) : Restricts(c, k, leaf)
    <3> DEFINE a == [tool |-> "report", of |-> served, call |-> call, domain |-> domain, kept |-> checked.kept,
                     refused |-> checked.failed \/ AxesRefused(c, call.axes)]
    <3>2. Range(answer') = {a}
      <4> HIDE DEF a
      <4>1. answer' = <<a>>
        BY <3>1 DEF a
      <4>2. DOMAIN <<a>> = {1} /\ <<a>>[1] = a
        OBVIOUS
      <4>3. QED
        BY <4>1, <4>2 DEF Range
    <3>3. served \in Accepting
      BY <1>2, <2>4 DEF Ask
    <3>4. a.tool = "report" /\ a.of = served /\ a.call = call /\ a.kept = checked.kept /\ (~a.refused => ~checked.failed)
      OBVIOUS
    <3>5. checked.kept \subseteq call.filters /\ (~checked.failed => call.filters \subseteq DOMAIN c.dims)
      BY DEF CheckedFilters
    <3> HIDE DEF a
    <3>6. call.filters \subseteq DOMAIN c.dims =>
            /\ \A k \in call.filters : k \in checked.kept <=> \E leaf \in Bound(c, ds) : Restricts(c, k, leaf)
            /\ \A k \in checked.kept : FilterLeaf(c, k) # "" /\ Restricts(c, k, FilterLeaf(c, k))
      BY <3>3, KeptAreMeant
    <3>7. /\ \A d \in ds : \E line \in lines : d \in DomainsUnder(c, line)
          /\ \A line \in lines : DomainsUnder(c, line) # {} => \E d \in DomainsUnder(c, line) : d \in ds
      <4>1. PICK cat : cat = c
        OBVIOUS
      <4>2. cat = Catalogue(served) /\ call.statement \in DOMAIN cat.statements /\ ds \in StatementDomains(cat, call.statement)
        BY <2>4, <4>1 DEF Ask
      <4>3. LET names == Names(ResolveStatement(cat, call.statement))
            IN /\ \A d \in ds : \E line \in names : d \in DomainsUnder(cat, line)
               /\ \A line \in names : DomainsUnder(cat, line) # {} => \E d \in DomainsUnder(cat, line) : d \in ds
        BY <3>3, <4>2, DomainsAre
      <4> HIDE DEF c
      <4>4. QED
        BY <4>1, <4>3
    <3> HIDE DEF checked
    <3>8. \A k : (\E leaf \in Bound(c, ds) : Restricts(c, k, leaf)) <=> \E d \in ds : applies(k, d)
      BY BoundEach
    <3>9. ~a.refused =>
            /\ \A k \in a.kept :
                 /\ k \in call.filters
                 /\ \E line \in lines : \E d \in DomainsUnder(c, line) : applies(k, d)
                 /\ FilterLeaf(c, k) # "" /\ Restricts(c, k, FilterLeaf(c, k))
            /\ \A k \in call.filters \ a.kept :
                 \A line \in lines :
                    DomainsUnder(c, line) # {} => \E d \in DomainsUnder(c, line) : ~applies(k, d)
      <4>1. SUFFICES ASSUME ~a.refused
                     PROVE  /\ \A k \in a.kept :
                                 /\ k \in call.filters
                                 /\ \E line \in lines : \E d \in DomainsUnder(c, line) : applies(k, d)
                                 /\ FilterLeaf(c, k) # "" /\ Restricts(c, k, FilterLeaf(c, k))
                            /\ \A k \in call.filters \ a.kept :
                                 \A line \in lines :
                                    DomainsUnder(c, line) # {} => \E d \in DomainsUnder(c, line) : ~applies(k, d)
        OBVIOUS
      <4>2. \A k \in call.filters : k \in a.kept <=> \E d \in ds : applies(k, d)
        BY <3>4, <3>5, <3>6, <3>8, <4>1
      <4> HIDE DEF applies, lines
      <4>3. ASSUME NEW k \in a.kept
            PROVE  k \in call.filters /\ \E line \in lines : \E d \in DomainsUnder(c, line) : applies(k, d)
        BY <3>4, <3>5, <3>7, <4>2
      <4>4. ASSUME NEW k \in call.filters \ a.kept, NEW line \in lines, DomainsUnder(c, line) # {}
            PROVE  \E d \in DomainsUnder(c, line) : ~applies(k, d)
        BY <3>7, <4>2, <4>4
      <4>5. \A k \in a.kept : FilterLeaf(c, k) # "" /\ Restricts(c, k, FilterLeaf(c, k))
        BY <3>4, <3>5, <3>6, <4>1
      <4>6. QED
        BY <4>3, <4>4, <4>5
    <3>10. \A b \in Range(answer') : b = a
      BY <3>2
    <3>11. QED
      BY <3>4, <3>9, <3>10 DEF FiltersHonoured
  <2>5. ASSUME NEW search \in Searches, Search(search) PROVE FiltersHonoured'
    <3>1. PICK found : answer' = <<[tool |-> "search", of |-> served, search |-> search, found |-> found]>>
      BY <2>5 DEF Search
    <3> DEFINE a == [tool |-> "search", of |-> served, search |-> search, found |-> found]
    <3>2. Range(answer') = {a}
      <4> HIDE DEF a
      <4>1. answer' = <<a>>
        BY <3>1 DEF a
      <4>2. DOMAIN <<a>> = {1} /\ <<a>>[1] = a
        OBVIOUS
      <4>3. QED
        BY <4>1, <4>2 DEF Range
    <3>3. a.tool = "search"
      OBVIOUS
    <3> HIDE DEF a
    <3>4. QED
      BY <3>2, <3>3 DEF FiltersHonoured
  <2>6. QED
    BY <1>2, <2>2, <2>3, <2>4, <2>5 DEF DeploymentNext, NoCall, ColdStart, Reload, Edit, Provision, RefreshCommand,
       Publish, CreateTable, CreateView, SeedScenarios, ReadCatalogue, BuildClosure, ReplaceClosure, Complete, Stop, Answered
<1>3. DeploymentSpec => []J
  BY ServedAccepted
<1>4. QED
  BY <1>1, <1>2, <1>3, PTL DEF DeploymentSpec

-----------------------------------------------------------------------------
(* The node lists and the mappings there are.                              *)

\* The statements that make a hierarchy's node list, and its rollup.
NodesOf(c, k) == Hierarchy(c, k).nodes
RollupOf(c, k) == Hierarchy(c, k).rollup

\* What the statements of a hierarchy are.
StatementsOf(c, k) == {EdgesOf(c, k), NodesOf(c, k), ClosureOf(c, k), RollupOf(c, k)}

\* The statements for hierarchies are theirs.
LEMMA HierarchiesAre ==
    ASSUME NEW c, IsFiniteSet(DOMAIN c.dims), NEW refreshOnly \in BOOLEAN
    PROVE  Range(HierarchyStatements(c, refreshOnly)) \subseteq UNION {StatementsOf(c, k) : k \in RaggedDims(c)}
<1> DEFINE h(x) == Hierarchy(c, x)
           D == RaggedDims(c)
           S == UNION {{h(x).edges, h(x).nodes, h(x).closure, h(x).rollup} : x \in D}
           of(x) == IF refreshOnly THEN <<h(x).closure>> ELSE <<h(x).edges, h(x).nodes, h(x).closure, h(x).rollup>>
           order == SetToSeq(D)
           N == Cardinality(D)
           s == [n \in DOMAIN order |-> of(order[n])]
           F == FlattenSeq(s)
<1>1. HierarchyStatements(c, refreshOnly) = F
  BY DEF HierarchyStatements
<1>2. IsFiniteSet(D)
  BY FS_Subset DEF RaggedDims
<1>3. N \in Nat /\ order \in [1 .. N -> D]
  <2> HIDE DEF D
  <2>1. QED
    BY <1>2, EnumeratesSet
<1>4. \A x \in D : of(x) \in Seq(S)
  <2>1. SUFFICES ASSUME NEW x \in D PROVE of(x) \in Seq(S)
    OBVIOUS
  <2>2. {h(x).edges, h(x).nodes, h(x).closure, h(x).rollup} \subseteq S
    OBVIOUS
  <2> HIDE DEF S, h
  <2>3. <<h(x).closure>> \in Seq(S) /\ <<h(x).edges, h(x).nodes, h(x).closure, h(x).rollup>> \in Seq(S)
    BY <2>2
  <2>4. QED
    BY <2>3
<1>5. S = UNION {StatementsOf(c, k) : k \in D}
  BY DEF StatementsOf, EdgesOf, NodesOf, ClosureOf, RollupOf
<1> HIDE DEF order, N, D, S
<1>6. s \in Seq(Seq(S))
  <2> HIDE DEF of
  <2>1. s \in [1 .. N -> Seq(S)]
    BY <1>3, <1>4
  <2>2. QED
    BY <2>1, <1>3
<1>7. F \in Seq(S)
  BY <1>6, Flattened
<1> HIDE DEF F
<1>8. Range(F) \subseteq S
  BY <1>7 DEF Range
<1>9. QED
  BY <1>1, <1>5, <1>8 DEF D

\* All of them are statements of the semantic layer.
LEMMA HierarchiesOfLayer ==
    ASSUME NEW i \in Accepting
    PROVE  \A k \in RaggedDims(Catalogue(i)) : StatementsOf(Catalogue(i), k) \subseteq Semantics(i)
<1> DEFINE c == Catalogue(i)
           a == FileViews(Instances[i].dims)
           b == PassthroughStatements(c, i)
           h == HierarchyStatements(c, FALSE)
           v == FileViews(Instances[i].views)
<1>1. i \in DOMAIN Instances /\ IsFiniteSet(DOMAIN c.dims) /\ IsSeq(Instances[i].dims) /\ IsSeq(Instances[i].views)
  BY InstancesAssumption DEF Accepting
<1>2. IsSeq(a) /\ IsSeq(v)
  BY <1>1, FileViewsAre DEF OnlyViews
<1>3. IsSeq(b)
  BY PassthroughsAre DEF OnlyViews
<1>4. IsSeq(h)
  <2> HIDE DEF c
  <2>1. FALSE \in BOOLEAN
    OBVIOUS
  <2>2. QED
    BY <1>1, <2>1, HierarchySteps DEF Rebuilds
<1>5. SemanticStatements(i) = ((a \o b) \o h) \o v
  BY DEF SemanticStatements
<1>6. Rebuilds(SemanticStatements(i), c, TRUE)
  BY SemanticSteps
<1>7. Range(h) \subseteq Semantics(i)
  <2> HIDE DEF a, b, h, v
  <2>1. IsSeq(a \o b)
    BY <1>2, <1>3, RangeJoined
  <2>2. IsSeq((a \o b) \o h) /\ Range((a \o b) \o h) = Range(a \o b) \cup Range(h)
    BY <1>4, <2>1, RangeJoined
  <2>3. Range(((a \o b) \o h) \o v) = Range((a \o b) \o h) \cup Range(v)
    BY <1>2, <2>2, RangeJoined
  <2>4. QED
    BY <1>5, <2>2, <2>3 DEF Semantics
<1>8. ASSUME NEW k \in RaggedDims(c) PROVE StatementsOf(c, k) \subseteq Semantics(i)
  <2>1. {EdgesOf(c, k), NodesOf(c, k), RollupOf(c, k)} \subseteq Range(h)
    <3> HIDE DEF c
    <3>1. QED
      BY <1>1, HierarchiesMake DEF EdgesOf, NodesOf, RollupOf
  <2>2. ClosureOf(c, k) \in Semantics(i)
    BY <1>6 DEF Rebuilds, Semantics, Range
  <2> HIDE DEF h
  <2>3. QED
    BY <1>7, <2>1, <2>2 DEF StatementsOf
<1>9. QED
  BY <1>8

\* A hierarchy's node list is the present catalogue's, or a job makes it so.
NodesCurrent(k) == NodesOf(Now, k).makes \in DOMAIN store => store[NodesOf(Now, k).makes] = disk
Relists(statement, k) == statement.act = "view" /\ statement.makes = NodesOf(Now, k).makes
Relisted(work, k) == NodesCurrent(k) \/ \E n \in DOMAIN work.todo : Relists(work.todo[n], k)

\* With every definition covered the node lists are the present ones.
Lists ==
    Fits(disk) =>
      /\ Covered({}) => \A k \in RaggedDims(Now) : NodesCurrent(k)
      /\ \A w \in Workers : Busy(w) /\ Covered(jobs[w].covers) =>
           \A k \in RaggedDims(Now) : Relisted(jobs[w], k)

\* The views and the mappings a job makes are of some directory's layer.
OfLayers(s) ==
    \A n \in DOMAIN s : s[n].act \in {"view", "closure"} => \E i \in Accepting : s[n] \in Semantics(i)
Sourced == \A w \in Workers : Busy(w) => OfLayers(jobs[w].todo)

\* A rollup reads a mapping that has been made.
Made ==
    \A i \in Accepting : \A k \in RaggedDims(Catalogue(i)) :
        LET c == Catalogue(i)
        IN /\ RollupOf(c, k).makes \in DOMAIN store => ClosureOf(c, k).makes \in DOMAIN store
           /\ ClosureOf(c, k).makes \in DOMAIN store => ClosureOf(c, k).makes[2] \in DOMAIN closures

\* The inductive invariant behind SearchTells, with the books.
MembersInv == Lists /\ Sourced /\ Made

\* What no name of another's takes: a relation that stands for a mapping is
\* made as one, and one that stands for a rollup over that mapping.
NamesOwn ==
    \A i \in Accepting : \A k \in RaggedDims(Catalogue(i)) :
        LET c == Catalogue(i)
        IN /\ <<"semantic", "scenarios">> \notin {ClosureOf(c, k).makes, RollupOf(c, k).makes}
           /\ \A j \in Accepting : \A s \in Semantics(j) :
                /\ s.makes = ClosureOf(c, k).makes => s.act = "closure"
                /\ s.makes = RollupOf(c, k).makes => ClosureOf(c, k).makes \in s.needs

\* The parts of a job that starts or goes on, with the others idle.
LEMMA MembersKept ==
    ASSUME JobsInv, NEW w \in Workers, NEW j, jobs' = [jobs EXCEPT ![w] = j],
           \A v \in Workers : v # w => ~Busy(v), disk' = disk,
           Fits(disk) /\ Covered({})' => \A k \in RaggedDims(Now) : NodesCurrent(k)',
           j = Idle \/ (Fits(disk) /\ Covered(j.covers)' => \A k \in RaggedDims(Now) : Relisted(j, k)'),
           j = Idle \/ OfLayers(j.todo), Made'
    PROVE  MembersInv'
<1>1. /\ DOMAIN jobs' = Workers /\ jobs'[w] = j
      /\ \A v \in Workers : v # w => jobs'[v] = Idle
  BY JobsAre
<1>2. \A v \in Workers : Busy(v)' => v = w /\ jobs'[v] = j /\ j # Idle
  BY <1>1 DEF Busy
<1>3. Now' = Now
  BY DEF Now
<1>4. Sourced'
  BY <1>2 DEF Sourced, OfLayers
<1>5. ASSUME Fits(disk), NEW v \in Workers, Busy(v)', Covered(jobs[v].covers)', NEW k \in RaggedDims(Now)
      PROVE  Relisted(jobs[v], k)'
  <2>1. jobs'[v] = j /\ j # Idle
    BY <1>2, <1>5
  <2>2. Covered(j.covers)'
    BY <1>5, <2>1 DEF Covered
  <2>3. Relisted(j, k)'
    BY <1>5, <2>1, <2>2
  <2>4. QED
    BY <2>1, <2>3 DEF Relisted
<1>6. Lists'
  BY <1>3, <1>5 DEF Lists, Fits
<1>7. QED
  BY <1>4, <1>6 DEF MembersInv

\* What is made stays made.
LEMMA MadeStays ==
    ASSUME Made, UNCHANGED <<store, closures>>
    PROVE  Made'
BY DEF Made

\* Steps that touch no job and no relation.
LEMMA MembersElsewhere ==
    ASSUME MembersInv, UNCHANGED <<disk, store, closures, jobs, owed>>
    PROVE  MembersInv'
<1>1. Now' = Now
  BY DEF Now
<1>2. \A k : NodesCurrent(k)' = NodesCurrent(k)
  BY <1>1 DEF NodesCurrent
<1>3. \A covers : Covered(covers)' = Covered(covers)
  BY DEF Covered
<1>4. \A work, k : Relisted(work, k)' = Relisted(work, k)
  BY <1>1, <1>2 DEF Relisted, Relists
<1>5. Lists'
  BY <1>1, <1>2, <1>3, <1>4 DEF MembersInv, Lists, Fits, Busy
<1>6. Sourced' /\ Made'
  BY DEF MembersInv, Sourced, Made, Busy
<1>7. QED
  BY <1>5, <1>6 DEF MembersInv

\* A job that starts, or reads the directory: it makes the node lists whose
\* definitions it covers, and what it makes is of a layer.
LEMMA StartMembers ==
    ASSUME DeploymentInv, MembersInv, NEW w \in Workers, NEW j, jobs' = [jobs EXCEPT ![w] = j],
           \A v \in Workers : v # w => ~Busy(v), UNCHANGED <<disk, store, closures>>,
           \A x : Covered(x)' = Covered(x),
           j = Idle \/ OfLayers(j.todo),
           \/ j = Idle \/ (Covered(j.covers) => Covered({}))
           \/ \A k \in RaggedDims(Now) : \E n \in DOMAIN j.todo : j.todo[n] = NodesOf(Now, k)
    PROVE  MembersInv'
<1>1. Now' = Now
  BY DEF Now
<1>2. \A k : NodesCurrent(k)' = NodesCurrent(k)
  BY <1>1 DEF NodesCurrent
<1>3. Fits(disk) /\ Covered({})' => \A k \in RaggedDims(Now) : NodesCurrent(k)'
  BY <1>2 DEF MembersInv, Lists
<1>4. ASSUME j # Idle, Fits(disk), Covered(j.covers)', NEW k \in RaggedDims(Now) PROVE Relisted(j, k)'
  <2>1. CASE Covered(j.covers) => Covered({})
    <3>1. NodesCurrent(k)'
      BY <1>3, <1>4, <2>1
    <3>2. QED
      BY <3>1 DEF Relisted
  <2>2. CASE \A x \in RaggedDims(Now) : \E n \in DOMAIN j.todo : j.todo[n] = NodesOf(Now, x)
    <3>1. PICK n \in DOMAIN j.todo : j.todo[n] = NodesOf(Now, k)
      BY <1>4, <2>2
    <3>2. Relists(j.todo[n], k)'
      BY <1>1, <3>1, HierarchyParts DEF Relists, NodesOf
    <3>3. QED
      BY <3>1, <3>2 DEF Relisted
  <2>3. QED
    BY <1>4, <2>1, <2>2
<1>5. Made'
  BY MadeStays DEF MembersInv
<1>6. QED
  BY <1>3, <1>4, <1>5, MembersKept DEF DeploymentInv

\* A statement done is one less left to do.
LEMMA AdvanceMembers ==
    ASSUME DeploymentInv, Serialised, MembersInv, NEW w \in Workers, Busy(w), NEW work, work = jobs[w],
           work.todo # <<>>, jobs' = Advanced(w), UNCHANGED <<disk, owed>>,
           ASSUME Fits(disk), Covered(work.covers), NEW k \in RaggedDims(Now)
           PROVE  NodesCurrent(k) \/ Relists(work.todo[1], k) => NodesCurrent(k)',
           Made'
    PROVE  MembersInv'
<1>1. JobsInv /\ IsJob(work) /\ \A v \in Workers : v # w => ~Busy(v)
  BY Alone DEF DeploymentInv, JobsInv
<1>2. PICK j : j = Moved(work)
  OBVIOUS
<1>3. jobs' = [jobs EXCEPT ![w] = j]
  <2>1. jobs' = [jobs EXCEPT ![w] = [work EXCEPT !.todo = Tail(@), !.rows = <<>>]]
    BY DEF Advanced
  <2>2. QED
    BY <2>1, <1>1, <1>2, JobFields
<1>4. IsSeq(work.todo)
  BY <1>1 DEF JobsInv, Preparing, OnlyTables, Rebuilding, RebuildsOnly
<1>5. j.covers = work.covers /\ j.todo = Tail(work.todo)
  BY <1>2 DEF Moved
<1>6. /\ \A n \in DOMAIN j.todo : n + 1 \in DOMAIN work.todo /\ j.todo[n] = work.todo[n + 1]
      /\ \A n \in DOMAIN work.todo : n = 1 \/ (n - 1 \in DOMAIN j.todo /\ j.todo[n - 1] = work.todo[n])
  BY <1>4, <1>5, TailIsSeq
<1>7. OfLayers(j.todo)
  BY <1>6 DEF MembersInv, Sourced, OfLayers
<1>8. /\ Now' = Now /\ \A x : Covered(x)' = Covered(x)
      /\ Covered({}) => Covered(work.covers)
  BY DEF Now, Covered
<1>9. Fits(disk) /\ Covered({})' => \A k \in RaggedDims(Now) : NodesCurrent(k)'
  BY <1>8 DEF MembersInv, Lists
<1>10. ASSUME Fits(disk), Covered(j.covers)', NEW k \in RaggedDims(Now) PROVE Relisted(j, k)'
  <2>1. Covered(work.covers)
    BY <1>5, <1>8, <1>10
  <2>2. Relisted(work, k)
    BY <1>10, <2>1 DEF MembersInv, Lists
  <2>3. NodesCurrent(k) \/ Relists(work.todo[1], k) => NodesCurrent(k)'
    BY <1>10, <2>1
  <2>4. CASE NodesCurrent(k)'
    BY <2>4 DEF Relisted
  <2>5. CASE ~NodesCurrent(k)'
    <3>1. PICK n \in DOMAIN work.todo : Relists(work.todo[n], k)
      BY <2>2, <2>3, <2>5 DEF Relisted
    <3>2. n - 1 \in DOMAIN j.todo /\ Relists(j.todo[n - 1], k)'
      BY <1>6, <1>8, <2>3, <2>5, <3>1 DEF Relists
    <3>3. QED
      BY <3>2 DEF Relisted
  <2>6. QED
    BY <2>4, <2>5
<1>11. QED
  BY <1>1, <1>3, <1>7, <1>9, <1>10, MembersKept

\* What hierarchies make is apart from what else there is.
LEMMA ListsApart ==
    ASSUME NEW i \in Accepting, NEW c, c = Catalogue(i)
    PROVE  \A k, l \in RaggedDims(c) :
             /\ ClosureOf(c, k).makes # NodesOf(c, l).makes
             /\ NodesOf(c, l).makes # <<"semantic", "scenarios">>
             /\ NodesOf(c, l).makes[1] = "semantic" /\ RollupOf(c, l).makes[1] = "semantic"
<1>1. NamesApart(c)
  BY InstancesAssumption
<1>2. \A l : NodesOf(c, l).makes[1] = "semantic" /\ RollupOf(c, l).makes[1] = "semantic"
  BY DEF NodesOf, RollupOf, Hierarchy, Makes
<1>3. \A k, l \in RaggedDims(c) :
        {ClosureOf(c, k).makes, <<"semantic", "scenarios">>} \cap {NodesOf(c, l).makes} = {}
  BY <1>1 DEF NamesApart, ClosureOf, NodesOf
<1>5. QED
  BY <1>2, <1>3

\* One more relation made.
LEMMA MadeAdds ==
    ASSUME Made, NEW x, DOMAIN store' = DOMAIN store \cup {x}, DOMAIN closures \subseteq DOMAIN closures',
           ASSUME NEW i \in Accepting, NEW k \in RaggedDims(Catalogue(i))
           PROVE  /\ x = RollupOf(Catalogue(i), k).makes => ClosureOf(Catalogue(i), k).makes \in DOMAIN store
                  /\ x = ClosureOf(Catalogue(i), k).makes =>
                       ClosureOf(Catalogue(i), k).makes[2] \in DOMAIN closures'
    PROVE  Made'
<1>1. SUFFICES ASSUME NEW i \in Accepting, NEW k \in RaggedDims(Catalogue(i)), NEW c, c = Catalogue(i)
               PROVE  /\ RollupOf(c, k).makes \in DOMAIN store' => ClosureOf(c, k).makes \in DOMAIN store'
                      /\ ClosureOf(c, k).makes \in DOMAIN store' => ClosureOf(c, k).makes[2] \in DOMAIN closures'
  BY DEF Made
<1>2. /\ RollupOf(c, k).makes \in DOMAIN store => ClosureOf(c, k).makes \in DOMAIN store
      /\ ClosureOf(c, k).makes \in DOMAIN store => ClosureOf(c, k).makes[2] \in DOMAIN closures
  BY <1>1 DEF Made
<1>3. /\ x = RollupOf(c, k).makes => ClosureOf(c, k).makes \in DOMAIN store
      /\ x = ClosureOf(c, k).makes => ClosureOf(c, k).makes[2] \in DOMAIN closures'
  BY <1>1
<1>4. QED
  BY <1>2, <1>3

\* A table made where there was none leaves the node lists as they are.
LEMMA ListsEnsured ==
    ASSUME NEW k, NEW x, store' = Ensured(store, x, 0), disk' = disk,
           NodesOf(Now, k).makes # x, NodesCurrent(k)
    PROVE  NodesCurrent(k)'
<1>1. PICK e : e = NodesOf(Now, k).makes
  OBVIOUS
<1>2. e \in DOMAIN store => store[e] = disk
  BY <1>1 DEF NodesCurrent
<1>3. e \in DOMAIN store' => e \in DOMAIN store /\ store'[e] = store[e]
  BY <1>1 DEF Ensured, Replaced
<1>4. Now' = Now
  BY DEF Now
<1>5. QED
  BY <1>1, <1>2, <1>3, <1>4 DEF NodesCurrent

\* CREATE TABLE IF NOT EXISTS.
LEMMA TableMembers ==
    ASSUME DeploymentInv, Serialised, MembersInv, NamesOwn, NEW w \in Workers, CreateTable(w)
    PROVE  MembersInv'
<1>1. PICK work : work = jobs[w]
  OBVIOUS
<1>2. PICK x : x = Due(w).makes
  OBVIOUS
<1>3. /\ Busy(w) /\ work.todo # <<>> /\ Due(w).act = "table" /\ store' = Ensured(store, x, 0)
      /\ jobs' = Advanced(w) /\ UNCHANGED <<disk, closures, owed>>
  BY <1>1, <1>2 DEF CreateTable, Runs
<1>4. Due(w) = work.todo[1] /\ (x[1] \in {"live", "staging"} \/ x = <<"semantic", "scenarios">>)
  <2>1. \A k : ClosureOf(Catalogue(work.read), k).act # "table"
    BY HierarchyParts
  <2>2. Due(w) = work.todo[1]
    BY <1>1, <1>3, FirstOf
  <2>3. work.todo[1].act = "table"
    BY <1>3, <2>2
  <2>4. QED
    BY <1>1, <1>2, <1>3, <2>1, <2>2, <2>3, FirstOf
<1>5. ASSUME Fits(disk), NEW k \in RaggedDims(Now)
      PROVE  NodesCurrent(k) \/ Relists(work.todo[1], k) => NodesCurrent(k)'
  <2>1. /\ NodesOf(Now, k).makes # <<"semantic", "scenarios">>
        /\ NodesOf(Now, k).makes[1] = "semantic"
    BY <1>5, ListsApart DEF Fits, Now
  <2>2. NodesOf(Now, k).makes # x
    BY <1>4, <2>1
  <2>3. ~Relists(work.todo[1], k)
    BY <1>3, <1>4 DEF Relists
  <2>4. QED
    BY <1>3, <2>2, <2>3, ListsEnsured
<1>6. ASSUME NEW i \in Accepting, NEW k \in RaggedDims(Catalogue(i))
      PROVE  x # RollupOf(Catalogue(i), k).makes /\ x # ClosureOf(Catalogue(i), k).makes
  <2>1. <<"semantic", "scenarios">> \notin {ClosureOf(Catalogue(i), k).makes, RollupOf(Catalogue(i), k).makes}
    BY <1>6 DEF NamesOwn
  <2>2. RollupOf(Catalogue(i), k).makes[1] = "semantic" /\ ClosureOf(Catalogue(i), k).makes[1] = "semantic"
    BY ListsApart, HierarchyParts
  <2>3. QED
    BY <1>4, <2>1, <2>2
<1>7. Made'
  <2>1. CASE x \in DOMAIN store
    <3>1. store' = store
      BY <1>3, <2>1 DEF Ensured
    <3>2. QED
      BY <1>3, <3>1, MadeStays DEF MembersInv
  <2>2. CASE x \notin DOMAIN store
    <3>1. DOMAIN store' = DOMAIN store \cup {x}
      BY <1>3, <2>2 DEF Ensured, Replaced
    <3>2. DOMAIN closures \subseteq DOMAIN closures' /\ Made
      BY <1>3 DEF MembersInv
    <3>3. ASSUME NEW i \in Accepting, NEW k \in RaggedDims(Catalogue(i))
          PROVE  /\ x = RollupOf(Catalogue(i), k).makes => ClosureOf(Catalogue(i), k).makes \in DOMAIN store
                 /\ x = ClosureOf(Catalogue(i), k).makes =>
                      ClosureOf(Catalogue(i), k).makes[2] \in DOMAIN closures'
      BY <1>6, <3>3
    <3>4. QED
      BY <3>1, <3>2, <3>3, MadeAdds
  <2>3. QED
    BY <2>1, <2>2
<1>8. QED
  BY <1>1, <1>3, <1>5, <1>7, AdvanceMembers

\* The first statement of a job that makes a view or a mapping is of a layer.
LEMMA FirstOfLayer ==
    ASSUME DeploymentInv, MembersInv, NEW w \in Workers, Busy(w), NEW work, work = jobs[w], work.todo # <<>>,
           Due(w).act \in {"view", "closure"}
    PROVE  Due(w) = work.todo[1] /\ \E i \in Accepting : Due(w) \in Semantics(i)
<1>1. Due(w) = work.todo[1] /\ IsJob(work) /\ (Preparing(work) \/ Rebuilding(work))
  BY FirstOf DEF DeploymentInv, JobsInv
<1>2. 1 \in DOMAIN work.todo
  BY <1>1, TailIsSeq DEF Preparing, OnlyTables, Rebuilding, RebuildsOnly
<1>3. QED
  BY <1>1, <1>2 DEF MembersInv, Sourced, OfLayers

\* CREATE OR REPLACE VIEW.
LEMMA ViewMembers ==
    ASSUME DeploymentInv, Serialised, MembersInv, NamesOwn, NEW w \in Workers, CreateView(w)
    PROVE  MembersInv'
<1>1. PICK work : work = jobs[w]
  OBVIOUS
<1>2. PICK x : x = Due(w).makes
  OBVIOUS
<1>3. /\ Busy(w) /\ work.todo # <<>> /\ Due(w).act = "view" /\ store' = Replaced(store, x, work.read)
      /\ Due(w).needs \subseteq DOMAIN store
      /\ jobs' = Advanced(w) /\ UNCHANGED <<disk, closures, owed>>
  BY <1>1, <1>2 DEF CreateView, Runs
<1>4. Due(w) = work.todo[1] /\ Rebuilding(work)
  BY <1>1, <1>3, FirstOf
<1>5. PICK j \in Accepting : Due(w) \in Semantics(j)
  BY <1>1, <1>3, FirstOfLayer
<1>6. DOMAIN store' = DOMAIN store \cup {x} /\ store'[x] = work.read
      /\ \A y \in DOMAIN store : y # x => store'[y] = store[y]
  BY <1>3 DEF Replaced
<1>7. ASSUME Fits(disk), Covered(work.covers), NEW k \in RaggedDims(Now)
      PROVE  NodesCurrent(k) \/ Relists(work.todo[1], k) => NodesCurrent(k)'
  <2>1. work.read = disk /\ Now' = Now
    BY <1>3, <1>4, <1>7 DEF Rebuilding, Now
  <2>2. PICK e : e = NodesOf(Now, k).makes
    OBVIOUS
  <2>3. NodesCurrent(k) => (e \in DOMAIN store => store[e] = disk)
    BY <2>2 DEF NodesCurrent
  <2>4. Relists(work.todo[1], k) => e = x
    BY <1>2, <1>4, <2>2 DEF Relists
  <2>5. NodesCurrent(k) \/ e = x => (e \in DOMAIN store' => store'[e] = disk)
    BY <1>6, <2>1, <2>3
  <2>6. (e \in DOMAIN store' => store'[e] = disk') => NodesCurrent(k)'
    BY <2>1, <2>2 DEF NodesCurrent
  <2>7. QED
    BY <1>3, <2>4, <2>5, <2>6
<1>8. ASSUME NEW i \in Accepting, NEW k \in RaggedDims(Catalogue(i))
      PROVE  /\ x = RollupOf(Catalogue(i), k).makes => ClosureOf(Catalogue(i), k).makes \in DOMAIN store
             /\ x # ClosureOf(Catalogue(i), k).makes
  <2>1. /\ x = ClosureOf(Catalogue(i), k).makes => Due(w).act = "closure"
        /\ x = RollupOf(Catalogue(i), k).makes => ClosureOf(Catalogue(i), k).makes \in Due(w).needs
    BY <1>2, <1>5, <1>8 DEF NamesOwn
  <2>2. QED
    BY <1>3, <2>1
<1>9. Made'
  <2>1. DOMAIN closures \subseteq DOMAIN closures' /\ Made
    BY <1>3 DEF MembersInv
  <2>2. DOMAIN store' = DOMAIN store \cup {x}
    BY <1>6
  <2>3. ASSUME NEW i \in Accepting, NEW k \in RaggedDims(Catalogue(i))
        PROVE  /\ x = RollupOf(Catalogue(i), k).makes => ClosureOf(Catalogue(i), k).makes \in DOMAIN store
               /\ x = ClosureOf(Catalogue(i), k).makes =>
                    ClosureOf(Catalogue(i), k).makes[2] \in DOMAIN closures'
    BY <1>8, <2>3
  <2>4. QED
    BY <2>1, <2>2, <2>3, MadeAdds
<1>10. QED
  BY <1>1, <1>3, <1>7, <1>9, AdvanceMembers

\* A mapping's rows put in place of the old ones.
LEMMA ReplaceMembers ==
    ASSUME DeploymentInv, Serialised, MembersInv, NamesOwn, NEW w \in Workers, ReplaceClosure(w)
    PROVE  MembersInv'
<1>1. PICK work : work = jobs[w]
  OBVIOUS
<1>2. PICK x : x = Due(w).makes
  OBVIOUS
<1>3. /\ Busy(w) /\ work.todo # <<>> /\ Due(w).act = "closure" /\ Due(w).needs \subseteq DOMAIN store
      /\ closures' = Replaced(closures, x[2], work.rows[1]) /\ work.rows # <<>>
      /\ store' = Ensured(store, x, 0)
      /\ jobs' = Advanced(w) /\ UNCHANGED <<disk, owed>>
  BY <1>1, <1>2 DEF ReplaceClosure, Runs
<1>4. Due(w) = work.todo[1] /\ Rebuilding(work)
  BY <1>1, <1>3, FirstOf
<1>5. PICK j \in Accepting : Due(w) \in Semantics(j)
  BY <1>1, <1>3, FirstOfLayer
<1>6. ASSUME Fits(disk), Covered(work.covers), NEW k \in RaggedDims(Now)
      PROVE  NodesCurrent(k) \/ Relists(work.todo[1], k) => NodesCurrent(k)'
  <2>1. disk \in Accepting
    BY <1>6 DEF Fits
  <2>2. PICK l \in RaggedDims(Now) : work.todo[1] = ClosureOf(Now, l)
    BY <1>3, <1>4, <1>6 DEF Rebuilding, Now
  <2>3. NodesOf(Now, k).makes # x
    BY <1>2, <1>4, <2>1, <2>2, ListsApart DEF Now
  <2>4. ~Relists(work.todo[1], k)
    BY <1>3, <1>4 DEF Relists
  <2>5. QED
    BY <1>3, <2>3, <2>4, ListsEnsured
<1>7. DOMAIN closures' = DOMAIN closures \cup {x[2]}
  BY <1>3 DEF Replaced
<1>8. ASSUME NEW i \in Accepting, NEW k \in RaggedDims(Catalogue(i))
      PROVE  /\ x = RollupOf(Catalogue(i), k).makes => ClosureOf(Catalogue(i), k).makes \in DOMAIN store
             /\ x = ClosureOf(Catalogue(i), k).makes => ClosureOf(Catalogue(i), k).makes[2] \in DOMAIN closures'
  <2>1. x = RollupOf(Catalogue(i), k).makes => ClosureOf(Catalogue(i), k).makes \in Due(w).needs
    BY <1>2, <1>5, <1>8 DEF NamesOwn
  <2>2. QED
    BY <1>3, <1>7, <2>1
<1>9. DOMAIN store' = DOMAIN store \cup {x}
  BY <1>3 DEF Ensured, Replaced
<1>10. Made'
  BY <1>7, <1>8, <1>9, MadeAdds DEF MembersInv
<1>11. QED
  BY <1>1, <1>3, <1>6, <1>10, AdvanceMembers

\* A job that ends before its work is done.
LEMMA EndMembers ==
    ASSUME DeploymentInv, Serialised, MembersInv, NEW w \in Workers, Busy(w), jobs' = [jobs EXCEPT ![w] = Idle],
           UNCHANGED <<disk, store, closures, owed>>
    PROVE  MembersInv'
<1>1. PICK j : j = Idle
  OBVIOUS
<1>2. JobsInv /\ jobs' = [jobs EXCEPT ![w] = j] /\ \A v \in Workers : v # w => ~Busy(v)
  BY <1>1, Alone DEF DeploymentInv
<1>3. \A x : Covered(x)' = Covered(x)
  BY DEF Covered
<1>4. QED
  BY <1>1, <1>2, <1>3, StartMembers

\* The scenarios of a file seeded.
LEMMA SeedMembers ==
    ASSUME DeploymentInv, Serialised, MembersInv, NEW w \in Workers, SeedScenarios(w)
    PROVE  MembersInv'
<1>1. PICK work : work = jobs[w]
  OBVIOUS
<1>2. /\ Busy(w) /\ work.todo # <<>> /\ Due(w).act = "seed"
      /\ jobs' = [jobs EXCEPT ![w] = Idle] \/ jobs' = Advanced(w)
      /\ UNCHANGED <<disk, store, closures, owed>>
  BY <1>1 DEF SeedScenarios, Runs
<1>3. CASE jobs' = [jobs EXCEPT ![w] = Idle]
  BY <1>2, <1>3, EndMembers
<1>4. CASE jobs' = Advanced(w)
  <2>1. Due(w) = work.todo[1]
    BY <1>1, <1>2, FirstOf
  <2>2. ASSUME NEW k \in RaggedDims(Now)
        PROVE  NodesCurrent(k) \/ Relists(work.todo[1], k) => NodesCurrent(k)'
    BY <1>2, <2>1 DEF Relists, NodesCurrent, Now
  <2>3. Made'
    BY <1>2, MadeStays DEF MembersInv
  <2>4. QED
    BY <1>1, <1>2, <1>4, <2>2, <2>3, AdvanceMembers
<1>5. QED
  BY <1>2, <1>3, <1>4

\* A mapping's rows computed: the work is the same.
LEMMA BuildMembers ==
    ASSUME DeploymentInv, Serialised, MembersInv, NEW w \in Workers, BuildClosure(w)
    PROVE  MembersInv'
<1>1. PICK work : work = jobs[w]
  OBVIOUS
<1>2. PICK r : r = <<Built(Catalogue(work.read), Due(w))>>
  OBVIOUS
<1>3. PICK j : j = [kind |-> work.kind, of |-> work.of, read |-> work.read, todo |-> work.todo,
                    covers |-> work.covers, rows |-> r]
  OBVIOUS
<1>4. /\ Busy(w) /\ UNCHANGED <<disk, store, closures, owed>>
      /\ jobs' = [jobs EXCEPT ![w].rows = r]
  BY <1>1, <1>2 DEF BuildClosure, Runs
<1>5. JobsInv /\ IsJob(work) /\ \A v \in Workers : v # w => ~Busy(v)
  BY <1>1, <1>4, Alone DEF DeploymentInv, JobsInv
<1>6. jobs' = [jobs EXCEPT ![w] = j]
  <2>1. jobs' = [jobs EXCEPT ![w] = [work EXCEPT !.rows = r]]
    BY <1>1, <1>4
  <2>2. [work EXCEPT !.rows = r] = j
    BY <1>3, <1>5, JobFields
  <2>3. QED
    BY <2>1, <2>2
<1>7. j.todo = work.todo /\ j.covers = work.covers
  BY <1>3
<1>8. Now' = Now /\ (\A x : Covered(x)' = Covered(x)) /\ \A k : NodesCurrent(k)' = NodesCurrent(k)
  <2>1. Now' = Now /\ \A x : Covered(x)' = Covered(x)
    BY <1>4 DEF Now, Covered
  <2>2. QED
    BY <1>4, <2>1 DEF NodesCurrent
<1>9. Fits(disk) /\ Covered({})' => \A k \in RaggedDims(Now) : NodesCurrent(k)'
  BY <1>8 DEF MembersInv, Lists
<1>10. ASSUME Fits(disk), Covered(j.covers)', NEW k \in RaggedDims(Now) PROVE Relisted(j, k)'
  <2>1. Covered(work.covers)
    BY <1>7, <1>8, <1>10
  <2>2. Relisted(work, k)
    BY <1>1, <1>4, <1>10, <2>1 DEF MembersInv, Lists
  <2>3. QED
    BY <1>7, <1>8, <2>2 DEF Relisted, Relists
<1>11. OfLayers(j.todo) /\ Made'
  <2>1. OfLayers(work.todo)
    BY <1>1, <1>4 DEF MembersInv, Sourced
  <2>2. Made'
    BY <1>4, MadeStays DEF MembersInv
  <2>3. QED
    BY <1>7, <2>1, <2>2
<1>12. QED
  BY <1>4, <1>5, <1>6, <1>9, <1>10, <1>11, MembersKept

\* A job that ends, and what it covered is not owed any more.
LEMMA CompleteMembers ==
    ASSUME DeploymentInv, Serialised, MembersInv, NEW w \in Workers, Complete(w)
    PROVE  MembersInv'
<1>1. PICK j : j = Idle
  OBVIOUS
<1>2. PICK work : work = jobs[w]
  OBVIOUS
<1>3. /\ JobsInv /\ Busy(w) /\ jobs' = [jobs EXCEPT ![w] = j] /\ \A v \in Workers : v # w => ~Busy(v)
      /\ work.todo = <<>> /\ owed' = owed \ work.covers
      /\ UNCHANGED <<disk, store, closures>>
  BY <1>1, <1>2, Alone DEF DeploymentInv, Complete
<1>4. Covered({})' => Covered(work.covers)
  BY <1>3 DEF Covered
<1>5. DOMAIN work.todo = {}
  BY <1>3
<1>6. ASSUME Fits(disk), Covered({})', NEW k \in RaggedDims(Now) PROVE NodesCurrent(k)'
  <2>1. Relisted(work, k)
    BY <1>2, <1>3, <1>4, <1>6 DEF MembersInv, Lists
  <2>2. NodesCurrent(k)
    BY <1>5, <2>1 DEF Relisted
  <2>3. QED
    BY <1>3, <2>2 DEF NodesCurrent, Now
<1>7. Made'
  BY <1>3, MadeStays DEF MembersInv
<1>8. QED
  BY <1>1, <1>3, <1>6, <1>7, MembersKept

\* The directory replaced: its definitions are owed.
LEMMA EditMembers ==
    ASSUME DeploymentInv, Serialised, MembersInv, NEW i \in Instances[disk].later, Edit(i)
    PROVE  MembersInv'
<1> DEFINE item == <<"definitions", edits + 1>>
<1>1. /\ disk' = i /\ edits' = edits + 1 /\ owed' = owed \cup {item}
      /\ jobs' = [w \in Workers |-> IF Busy(w) THEN [jobs[w] EXCEPT !.of = 0] ELSE jobs[w]]
      /\ UNCHANGED <<store, closures>>
  BY DEF Edit
<1>2. edits \in Nat
  BY DEF DeploymentInv, Numbers
<1>3. ASSUME NEW x, Numbered(x) PROVE ~Covered(x)'
  <2>1. item \notin x
    BY <1>2, <1>3 DEF Numbered
  <2>2. QED
    BY <1>1, <2>1 DEF Covered
<1>4. ~Covered({})'
  BY <1>3 DEF Numbered
<1>5. ASSUME NEW w \in Workers, Busy(w)'
      PROVE  Busy(w) /\ jobs'[w].todo = jobs[w].todo /\ jobs'[w].covers = jobs[w].covers
  <2>1. jobs'[w] = IF Busy(w) THEN [jobs[w] EXCEPT !.of = 0] ELSE jobs[w]
    BY <1>1
  <2>2. Busy(w)
    BY <1>5, <2>1 DEF Busy
  <2>3. PICK work : work = jobs[w]
    OBVIOUS
  <2>4. IsJob(work)
    BY <2>2, <2>3 DEF DeploymentInv, JobsInv
  <2>5. jobs'[w] = [kind |-> work.kind, of |-> 0, read |-> work.read, todo |-> work.todo,
                    covers |-> work.covers, rows |-> work.rows]
    <3>1. jobs'[w] = [work EXCEPT !.of = 0]
      BY <2>1, <2>2, <2>3
    <3>2. QED
      BY <2>4, <3>1, JobFields
  <2>6. QED
    BY <2>2, <2>3, <2>5
<1>6. Lists'
  <2>1. ASSUME NEW w \in Workers, Busy(w)' PROVE ~Covered(jobs[w].covers)'
    <3>1. Busy(w) /\ jobs'[w].covers = jobs[w].covers
      BY <1>5, <2>1
    <3>2. ~Covered(jobs[w].covers)' <=> ~\A o \in owed' : o[1] = "definitions" => o \in jobs'[w].covers
      BY DEF Covered
    <3>3. PICK x : x = jobs[w].covers
      OBVIOUS
    <3>4. Numbered(x)
      BY <3>1, <3>3 DEF DeploymentInv, Numbers
    <3>5. ~Covered(x)'
      BY <1>3, <3>4
    <3>6. QED
      BY <3>1, <3>2, <3>3, <3>5 DEF Covered
  <2>2. QED
    BY <1>4, <2>1 DEF Lists
<1>7. Sourced'
  <2>1. ASSUME NEW w \in Workers, Busy(w)' PROVE OfLayers(jobs[w].todo)'
    <3>1. Busy(w) /\ jobs'[w].todo = jobs[w].todo
      BY <1>5, <2>1
    <3>2. OfLayers(jobs[w].todo)
      BY <3>1 DEF MembersInv, Sourced
    <3>3. QED
      BY <3>1, <3>2 DEF OfLayers
  <2>2. QED
    BY <2>1 DEF Sourced
<1>8. Made'
  BY <1>1, MadeStays DEF MembersInv
<1>9. QED
  BY <1>6, <1>7, <1>8 DEF MembersInv

\* A provisioning that starts has not read the directory.
LEMMA ProvisionMembers ==
    ASSUME DeploymentInv, Serialised, MembersInv, Provision
    PROVE  MembersInv'
<1>1. PICK j : j = Job("provision", 0,
             LiveStatements(disk) \o ScenarioStatements \o <<Makes("catalogue", <<>>, {})>>, {})
  OBVIOUS
<1>2. /\ "provisioner" \in Workers /\ JobsInv /\ jobs' = [jobs EXCEPT !["provisioner"] = j]
      /\ UNCHANGED <<disk, store, closures, owed>>
  BY <1>1 DEF Workers, Provision, DeploymentInv
<1>3. \A v \in Workers : v # "provisioner" => ~Busy(v)
  BY <1>2, Alone DEF Provision
<1>4. OnlyTables(j.todo) /\ j.covers = {}
  BY <1>1, TableSteps DEF Job, DeploymentInv, Directory
<1>5. OfLayers(j.todo)
  BY <1>4 DEF OfLayers, OnlyTables
<1>6. \A x : Covered(x)' = Covered(x)
  BY <1>2 DEF Covered
<1>7. Covered(j.covers) => Covered({})
  BY <1>4
<1>8. QED
  BY <1>2, <1>3, <1>5, <1>6, <1>7, StartMembers

\* The statements of a layer are of a layer.
LEMMA LayersAre ==
    ASSUME disk \in Accepting, NEW refreshOnly \in BOOLEAN
    PROVE  OfLayers(HierarchyStatements(Now, refreshOnly)) /\ OfLayers(SemanticStatements(disk))
<1>1. IsFiniteSet(DOMAIN Now.dims)
  BY InstancesAssumption DEF Now
<1>2. Range(HierarchyStatements(Now, refreshOnly)) \subseteq UNION {StatementsOf(Now, k) : k \in RaggedDims(Now)}
  BY <1>1, HierarchiesAre
<1>3. \A k \in RaggedDims(Now) : StatementsOf(Now, k) \subseteq Semantics(disk)
  BY HierarchiesOfLayer DEF Now
<1>4. Range(HierarchyStatements(Now, refreshOnly)) \subseteq Semantics(disk)
  BY <1>2, <1>3
<1>5. \A s : Range(s) \subseteq Semantics(disk) => OfLayers(s)
  BY DEF OfLayers, Range
<1>6. QED
  BY <1>4, <1>5 DEF Semantics

\* The node lists are among what a provisioning and a refresh with --provision
\* make.
LEMMA ListsAreMade ==
    ASSUME disk \in Accepting, NEW k \in RaggedDims(Now)
    PROVE  /\ \E n \in DOMAIN HierarchyStatements(Now, FALSE) : HierarchyStatements(Now, FALSE)[n] = NodesOf(Now, k)
           /\ \E n \in DOMAIN SemanticStatements(disk) : SemanticStatements(disk)[n] = NodesOf(Now, k)
<1>1. IsFiniteSet(DOMAIN Now.dims)
  BY InstancesAssumption DEF Now
<1>2. NodesOf(Now, k) \in Range(HierarchyStatements(Now, FALSE))
  BY <1>1, HierarchiesMake DEF NodesOf
<1>3. NodesOf(Now, k) \in Range(SemanticStatements(disk))
  BY HierarchiesOfLayer DEF Now, StatementsOf, Semantics
<1>4. QED
  BY <1>2, <1>3 DEF Range

\* A refresh that starts.
LEMMA RefreshMembers ==
    ASSUME DeploymentInv, Serialised, MembersInv, NEW provision \in BOOLEAN, RefreshCommand(provision)
    PROVE  MembersInv'
<1> DEFINE due == IF provision THEN owed ELSE RowsOnly(owed)
<1>1. PICK j : j = Job("refresh", disk, HierarchyStatements(Catalogue(disk), ~provision), due)
  OBVIOUS
<1>2. /\ "operator" \in Workers /\ JobsInv /\ jobs' = [jobs EXCEPT !["operator"] = j]
      /\ UNCHANGED <<disk, store, closures, owed>> /\ disk \in Accepting
  BY <1>1 DEF Workers, RefreshCommand, DeploymentInv, Fits
<1>3. \A v \in Workers : v # "operator" => ~Busy(v)
  BY <1>2, Alone DEF RefreshCommand
<1>4. j.covers = due /\ j.todo = HierarchyStatements(Now, ~provision)
  BY <1>1 DEF Job, Now
<1>5. OfLayers(j.todo)
  BY <1>2, <1>4, LayersAre
<1>6. \A x : Covered(x)' = Covered(x)
  BY <1>2 DEF Covered
<1>7. \/ Covered(j.covers) => Covered({})
      \/ \A k \in RaggedDims(Now) : \E n \in DOMAIN j.todo : j.todo[n] = NodesOf(Now, k)
  <2>1. CASE provision = FALSE
    BY <1>4, <2>1 DEF Covered, RowsOnly
  <2>2. CASE provision = TRUE
    <3>1. j.todo = HierarchyStatements(Now, FALSE)
      BY <1>4, <2>2
    <3>2. QED
      BY <1>2, <3>1, ListsAreMade
  <2>3. QED
    BY <2>1, <2>2
<1> HIDE DEF due
<1>8. QED
  BY <1>2, <1>3, <1>5, <1>6, <1>7, StartMembers

\* Rows published.
LEMMA PublishMembers ==
    ASSUME DeploymentInv, Serialised, MembersInv, NEW w \in Loaders, NEW t \in DOMAIN Data, Publish(w, t)
    PROVE  MembersInv'
<1> DEFINE item == <<t, contents[t] + 1>>
<1>1. /\ w \in Workers /\ MayStart(w) /\ JobsInv /\ owed' = owed \cup {item}
      /\ UNCHANGED <<disk, store, closures>>
  BY DEF Publish, Workers, DeploymentInv
<1>2. item[1] # "definitions"
  BY DataAssumption
<1>3. \A x : Covered(x)' = Covered(x)
  BY <1>1, <1>2 DEF Covered
<1>4. \A v \in Workers : v # w => ~Busy(v)
  BY <1>1 DEF MayStart
<1>5. CASE ~Fits(disk)
  <2>1. jobs' = jobs /\ \A v \in Workers : ~Busy(v)
    BY <1>1, <1>5 DEF Publish, MayStart
  <2>2. \A v \in Workers : ~Busy(v)'
    BY <2>1 DEF Busy
  <2>3. ~Fits(disk)'
    BY <1>1, <1>5 DEF Fits
  <2>4. Made'
    BY <1>1, MadeStays DEF MembersInv
  <2>5. QED
    BY <2>2, <2>3, <2>4 DEF MembersInv, Lists, Sourced
<1>6. CASE Fits(disk)
  <2>1. PICK j : j = Job("load", disk, HierarchyStatements(Catalogue(disk), TRUE), RowsOnly(owed'))
    OBVIOUS
  <2>2. jobs' = [jobs EXCEPT ![w] = j]
    BY <1>6, <2>1 DEF Publish
  <2>3. j.todo = HierarchyStatements(Now, TRUE) /\ j.covers = RowsOnly(owed')
    BY <2>1 DEF Job, Now
  <2>4. OfLayers(j.todo)
    BY <1>6, <2>3, LayersAre DEF Fits
  <2>5. Covered(j.covers) => Covered({})
    BY <1>1, <2>3 DEF Covered, RowsOnly
  <2> HIDE DEF item
  <2>6. QED
    BY <1>1, <1>3, <1>4, <2>2, <2>4, <2>5, StartMembers
<1>7. QED
  BY <1>5, <1>6

\* The directory read by a provisioning.
LEMMA ReadMembers ==
    ASSUME DeploymentInv, Serialised, MembersInv, NEW w \in Workers, ReadCatalogue(w)
    PROVE  MembersInv'
<1>1. CASE ~Fits(disk)
  BY <1>1, EndMembers DEF ReadCatalogue, Runs
<1>2. CASE Fits(disk)
  <2>1. Busy(w) /\ JobsInv /\ IsJob(jobs[w])
    BY DEF ReadCatalogue, Runs, DeploymentInv, JobsInv
  <2>2. PICK old : old = jobs[w]
    OBVIOUS
  <2>3. PICK j : j = [kind |-> old.kind, of |-> old.of, read |-> disk, todo |-> SemanticStatements(disk),
                      covers |-> owed, rows |-> old.rows]
    OBVIOUS
  <2>4. jobs' = [jobs EXCEPT ![w] = j]
    <3>1. jobs' = [jobs EXCEPT ![w] = [jobs[w] EXCEPT !.todo = SemanticStatements(disk), !.read = disk, !.covers = owed]]
      BY <1>2 DEF ReadCatalogue
    <3>2. \A s, i, c : [old EXCEPT !.todo = s, !.read = i, !.covers = c] =
             [kind |-> old.kind, of |-> old.of, read |-> i, todo |-> s, covers |-> c, rows |-> old.rows]
      <4>1. IsJob(old)
        BY <2>1, <2>2
      <4>2. QED
        BY <4>1, JobFields, Zenon
    <3>3. [old EXCEPT !.todo = SemanticStatements(disk), !.read = disk, !.covers = owed] = j
      BY <2>3, <3>2, Zenon
    <3>4. QED
      BY <2>2, <3>1, <3>3, Zenon
  <2>5. j.todo = SemanticStatements(disk) /\ disk \in Accepting
    BY <1>2, <2>3 DEF Fits
  <2>6. OfLayers(j.todo)
    <3>1. TRUE \in BOOLEAN
      OBVIOUS
    <3>2. QED
      BY <2>5, <3>1, LayersAre
  <2>7. UNCHANGED <<disk, store, closures, owed>>
    BY DEF ReadCatalogue
  <2>8. \A x : Covered(x)' = Covered(x)
    BY <2>7 DEF Covered
  <2>9. \A v \in Workers : v # w => ~Busy(v)
    BY <2>1, Alone
  <2>10. \A k \in RaggedDims(Now) : \E n \in DOMAIN j.todo : j.todo[n] = NodesOf(Now, k)
    BY <2>5, ListsAreMade
  <2>11. QED
    BY <2>4, <2>6, <2>7, <2>8, <2>9, <2>10, StartMembers
<1>3. QED
  BY <1>1, <1>2

\* Every step keeps the node lists and the mappings.
LEMMA MembersInductive ==
    ASSUME Serialised, NamesOwn
    PROVE  /\ DeploymentInit => MembersInv
           /\ DeploymentInv /\ MembersInv /\ [DeploymentNext]_deploymentVars => MembersInv'
<1>1. ASSUME DeploymentInit PROVE MembersInv
  <2>1. store = <<>> /\ closures = <<>> /\ jobs = [w \in Workers |-> Idle]
    BY <1>1 DEF DeploymentInit
  <2>2. \A w \in Workers : ~Busy(w)
    BY <2>1 DEF Busy
  <2>3. DOMAIN store = {}
    BY <2>1
  <2>4. QED
    BY <2>2, <2>3 DEF MembersInv, Lists, Sourced, Made, NodesCurrent
<1>2. ASSUME DeploymentInv, MembersInv, DeploymentNext PROVE MembersInv'
  <2>1. CASE \/ ColdStart \/ Reload \/ (\E call \in Calls : Ask(call))
             \/ (\E search \in Searches : Search(search)) \/ Answered
    BY <1>2, <2>1, MembersElsewhere DEF ColdStart, Reload, Ask, Search, Answered
  <2>2. CASE Provision
    BY <1>2, <2>2, ProvisionMembers
  <2>3. CASE \E i \in Instances[disk].later : Edit(i)
    BY <1>2, <2>3, EditMembers
  <2>4. CASE \E provision \in BOOLEAN : RefreshCommand(provision)
    BY <1>2, <2>4, RefreshMembers
  <2>5. CASE \E w \in Loaders, t \in DOMAIN Data : Publish(w, t)
    BY <1>2, <2>5, PublishMembers
  <2>6. CASE \E w \in Workers : CreateTable(w)
    BY <1>2, <2>6, TableMembers
  <2>7. CASE \E w \in Workers : CreateView(w)
    BY <1>2, <2>7, ViewMembers
  <2>8. CASE \E w \in Workers : SeedScenarios(w)
    BY <1>2, <2>8, SeedMembers
  <2>9. CASE \E w \in Workers : ReadCatalogue(w)
    BY <1>2, <2>9, ReadMembers
  <2>10. CASE \E w \in Workers : BuildClosure(w)
    BY <1>2, <2>10, BuildMembers
  <2>11. CASE \E w \in Workers : ReplaceClosure(w)
    BY <1>2, <2>11, ReplaceMembers
  <2>12. CASE \E w \in Workers : Complete(w)
    BY <1>2, <2>12, CompleteMembers
  <2>13. CASE \E w \in Workers : Stop(w)
    BY <1>2, <2>13, EndMembers DEF Stop
  <2>14. QED
    BY <1>2, <2>1, <2>2, <2>3, <2>4, <2>5, <2>6, <2>7, <2>8, <2>9, <2>10, <2>11, <2>12, <2>13 DEF DeploymentNext
<1>3. ASSUME MembersInv, UNCHANGED deploymentVars PROVE MembersInv'
  BY <1>3, MembersElsewhere DEF deploymentVars
<1>4. QED
  BY <1>1, <1>2, <1>3

-----------------------------------------------------------------------------
(* What a search has found.                                                *)

\* The members a search finds.
FoundNow(c, search) ==
    UNION {LeafMembers(c, search, k) \cup DerivedMembers(c, search, k) \cup HierarchyNodes(c, search, k) :
             k \in Searched(c, search)}

\* A search has found what it would find now, in a catalogue that was accepted.
SearchAnswered ==
    \A a \in Range(answer) :
        a.tool = "search" => a.of \in Accepting /\ a.found = FoundNow(Catalogue(a.of), a.search)

\* What a search finds is a matter of the warehouse.
LEMMA FoundKept ==
    ASSUME UNCHANGED <<store, contents, closures>>
    PROVE  \A c, search : FoundNow(c, search)' = FoundNow(c, search)
<1>1. \A relation : Exists(relation)' = Exists(relation)
  BY DEF Exists
<1>2. \A ref : RowsOf(ref)' = RowsOf(ref)
  BY DEF RowsOf
<1>3. \A c, search, k : LeafMembers(c, search, k)' = LeafMembers(c, search, k)
  BY <1>1, <1>2 DEF LeafMembers
<1>4. \A c, search, k : DerivedMembers(c, search, k)' = DerivedMembers(c, search, k)
  BY <1>1, <1>2 DEF DerivedMembers
<1>5. \A c, k, v : RaggedLeaves(c, k, v)' = RaggedLeaves(c, k, v)
  BY <1>1 DEF RaggedLeaves
<1>6. \A c, search, k, nodes : ShownNodes(c, search, k, nodes)' = ShownNodes(c, search, k, nodes)
  BY <1>5 DEF ShownNodes
<1>7. \A c, k : NodesNow(c, k)' = NodesNow(c, k)
  BY <1>2 DEF NodesNow
<1>8. \A c, search, k : HierarchyNodes(c, search, k)' = HierarchyNodes(c, search, k)
  BY <1>1, <1>6, <1>7 DEF HierarchyNodes
<1>9. QED
  BY <1>3, <1>4, <1>8 DEF FoundNow

\* An answer is of the warehouse as it is, for no step is taken before the
\* caller has it.
LEMMA SearchAnswers == DeploymentSpec => []SearchAnswered
<1> DEFINE J == served \in Accepting \cup {0}
<1>1. DeploymentInit => SearchAnswered
  <2>1. Range(<<>>) = {}
    BY DEF Range
  <2>2. QED
    BY <2>1 DEF DeploymentInit, SearchAnswered
<1>2. ASSUME J, SearchAnswered, [DeploymentNext]_deploymentVars PROVE SearchAnswered'
  <2>1. Range(<<>>) = {} /\ \A x : Range(<<x>>) = {x}
    BY DEF Range
  <2>2. CASE answer' = <<>>
    BY <2>1, <2>2 DEF SearchAnswered
  <2>3. CASE UNCHANGED deploymentVars
    <3>1. \A c, search : FoundNow(c, search)' = FoundNow(c, search)
      BY <2>3, FoundKept DEF deploymentVars
    <3>2. QED
      BY <1>2, <2>3, <3>1 DEF SearchAnswered, deploymentVars
  <2>4. ASSUME NEW call \in Calls, Ask(call) PROVE SearchAnswered'
    <3>1. PICK domain, kept, refused :
            answer' = <<[tool |-> "report", of |-> served, call |-> call, domain |-> domain, kept |-> kept,
                         refused |-> refused]>>
      BY <2>4 DEF Ask
    <3>2. PICK a : a = [tool |-> "report", of |-> served, call |-> call, domain |-> domain, kept |-> kept,
                        refused |-> refused]
      OBVIOUS
    <3>3. Range(answer') = {a} /\ a.tool # "search"
      BY <2>1, <3>1, <3>2
    <3>4. QED
      BY <3>3 DEF SearchAnswered
  <2>5. ASSUME NEW search \in Searches, Search(search) PROVE SearchAnswered'
    <3>1. /\ answer' = <<[tool |-> "search", of |-> served, search |-> search,
                          found |-> FoundNow(Catalogue(served), search)]>>
          /\ served \in Accepting /\ UNCHANGED <<store, contents, closures>>
      BY <1>2, <2>5 DEF Search, FoundNow
    <3>2. PICK c : c = Catalogue(served)
      OBVIOUS
    <3>3. PICK found : found = FoundNow(c, search)
      OBVIOUS
    <3>4. PICK a : a = [tool |-> "search", of |-> served, search |-> search, found |-> found]
      OBVIOUS
    <3>5. answer' = <<a>> /\ a.of = served /\ a.search = search /\ a.found = found
      BY <3>1, <3>2, <3>3, <3>4
    <3>6. Range(answer') = {a}
      BY <2>1, <3>5
    <3>7. FoundNow(c, search)' = found
      BY <3>1, <3>3, FoundKept
    <3>8. a.of \in Accepting /\ Catalogue(a.of) = c
      BY <3>1, <3>2, <3>5
    <3>9. a.found = FoundNow(Catalogue(a.of), a.search)'
      <4>1. FoundNow(Catalogue(a.of), a.search)' = FoundNow(c, search)'
        BY <3>5, <3>8
      <4>2. QED
        BY <3>5, <3>7, <4>1
    <3>10. QED
      BY <3>6, <3>8, <3>9 DEF SearchAnswered
  <2>6. QED
    BY <1>2, <2>2, <2>3, <2>4, <2>5 DEF DeploymentNext, NoCall, ColdStart, Reload, Edit, Provision, RefreshCommand,
       Publish, CreateTable, CreateView, SeedScenarios, ReadCatalogue, BuildClosure, ReplaceClosure, Complete, Stop, Answered
<1>3. DeploymentSpec => []J
  BY ServedAccepted
<1>4. QED
  BY <1>1, <1>2, <1>3, PTL DEF DeploymentSpec

\* A single filter can be used when one of its leaves is permitted.
LEMMA UsableIs ==
    ASSUME NEW c, NEW k \in DOMAIN c.dims, NEW v, NEW leaf, NEW search
    PROVE  LET res == Resolved(c, {<<k, v>>}, "pnl")
           IN (~res.failed /\ \E l \in UNION Range(res.columns) : Permitted(search, leaf, l))
                <=> \E l \in LeavesOf(c, k, v) : Permitted(search, leaf, l)
<1> DEFINE res == Resolved(c, {<<k, v>>}, "pnl")
           f == <<k, v>>
           name == ViewColumn(c, "pnl", k)
<1>1. PICK L : L = LeavesOf(c, k, v)
  OBVIOUS
<1>2. res.failed <=> L = {}
  BY <1>1 DEF Resolved
<1>3. UNION Range(res.columns) = L
  <2>1. res.columns = [x \in {ViewColumn(c, "pnl", g[1]) : g \in {f}} |->
                         {u \in UNION {LeavesOf(c, g[1], g[2]) : g \in {f}} :
                            \A g \in {f} : ViewColumn(c, "pnl", g[1]) = x => u \in LeavesOf(c, g[1], g[2])}]
    BY DEF Resolved
  <2>2. f[1] = k /\ f[2] = v
    OBVIOUS
  <2> HIDE DEF f
  <2>3. {ViewColumn(c, "pnl", g[1]) : g \in {f}} = {name} /\ UNION {LeavesOf(c, g[1], g[2]) : g \in {f}} = L
    BY <1>1, <2>2
  <2>4. {u \in L : \A g \in {f} : ViewColumn(c, "pnl", g[1]) = name => u \in LeavesOf(c, g[1], g[2])} = L
    BY <1>1, <2>2
  <2> HIDE DEF name
  <2>5. DOMAIN res.columns = {name} /\ res.columns[name] = L
    BY <2>1, <2>3, <2>4
  <2> HIDE DEF res
  <2>6. QED
    BY <2>5 DEF Range
<1> HIDE DEF res
<1>4. QED
  BY <1>1, <1>2, <1>3 DEF res

\* The nodes listed for a hierarchy, but for the root.
ListedNodes(c, k) == {n \in NodesNow(Catalogue(store[NodesOf(c, k).makes]), k) : n.type # "all"}

\* A hierarchy's nodes that are found.
LEMMA HierarchyFound ==
    ASSUME NEW c, NEW search, NEW x, NEW k, NEW v
    PROVE  <<k, v>> \in HierarchyNodes(c, search, x) <=>
             /\ c.dims[x].ragged /\ Exists(NodesOf(c, x).makes)
             /\ \E n \in ShownNodes(c, search, x, ListedNodes(c, x)) :
                  /\ n.id = v
                  /\ k = IF n.type = c.dims[x].leaf_dimension THEN c.dims[x].leaf_dimension ELSE x
<1> DEFINE leaf == c.dims[x].leaf_dimension
           shown == ShownNodes(c, search, x, ListedNodes(c, x))
           pairs == {IF n.type = leaf THEN <<leaf, n.id>> ELSE <<x, n.id>> : n \in shown}
<1>1. HierarchyNodes(c, search, x) = IF c.dims[x].ragged /\ Exists(NodesOf(c, x).makes) THEN pairs ELSE {}
  BY DEF HierarchyNodes, ListedNodes, NodesOf
<1> HIDE DEF shown, leaf
<1>2. <<k, v>> \in pairs <=> \E n \in shown : n.id = v /\ k = IF n.type = leaf THEN leaf ELSE x
  OBVIOUS
<1> HIDE DEF pairs
<1>3. QED
  BY <1>1, <1>2 DEF shown, leaf

\* What is searched is a dimension, the one a member found is of among them.
LEMMA SearchedAre ==
    ASSUME NEW i \in Accepting, NEW search, NEW k \in Searched(Catalogue(i), search)
    PROVE  k \in DOMAIN Catalogue(i).dims
BY DEF Searched, RaggedOver

\* A member is found where its dimension is asked, or a hierarchy over it.
LEMMA FoundIs ==
    ASSUME NEW i \in Accepting, NEW search, NEW c, c = Catalogue(i), NEW k \in Searched(c, search), NEW v
    PROVE  <<k, v>> \in FoundNow(c, search) <=>
             \/ <<k, v>> \in LeafMembers(c, search, k) \/ <<k, v>> \in DerivedMembers(c, search, k)
             \/ \E x \in Searched(c, search) : <<k, v>> \in HierarchyNodes(c, search, x)
<1>1. ASSUME NEW x, <<k, v>> \in LeafMembers(c, search, x) \cup DerivedMembers(c, search, x) PROVE x = k
  <2>1. CASE <<k, v>> \in LeafMembers(c, search, x)
    BY <2>1 DEF LeafMembers
  <2>2. CASE <<k, v>> \in DerivedMembers(c, search, x)
    <3>1. PICK w : <<k, v>> = <<x, w>>
      BY <2>2 DEF DerivedMembers
    <3>2. QED
      BY <3>1
  <2>3. QED
    BY <1>1, <2>1, <2>2
<1>2. <<k, v>> \in FoundNow(c, search) <=>
        \E x \in Searched(c, search) :
           \/ <<k, v>> \in LeafMembers(c, search, x) \cup DerivedMembers(c, search, x)
           \/ <<k, v>> \in HierarchyNodes(c, search, x)
  BY DEF FoundNow
<1>3. QED
  BY <1>1, <1>2

\* A derived dimension's members.
LEMMA DerivedFound ==
    ASSUME NEW i \in Accepting, NEW search, NEW c, c = Catalogue(i), NEW k \in Searched(c, search), NEW v,
           IsDerived(c.dims[k])
    PROVE  <<k, v>> \in FoundNow(c, search)
             <=> \E l \in LeavesOf(c, k, v) : Permitted(search, FilterLeaf(c, k), l)
<1>1. k \in DOMAIN c.dims /\ ~IsLeaf(c.dims[k]) /\ ~c.dims[k].ragged
  BY SearchedAre, KindsAre
<1>2. <<k, v>> \notin LeafMembers(c, search, k)
  BY <1>1 DEF LeafMembers
<1>3. ASSUME NEW x \in Searched(c, search) PROVE <<k, v>> \notin HierarchyNodes(c, search, x)
  <2>1. c.dims[x].ragged => IsLeaf(c.dims[c.dims[x].leaf_dimension])
    BY SearchedAre, KindsAre
  <2>2. <<k, v>> \in HierarchyNodes(c, search, x) => c.dims[x].ragged /\ k \in {c.dims[x].leaf_dimension, x}
    BY HierarchyFound
  <2>3. QED
    BY <1>1, <2>1, <2>2
<1>4. <<k, v>> \in FoundNow(c, search) <=> <<k, v>> \in DerivedMembers(c, search, k)
  BY <1>2, <1>3, FoundIs
<1>5. LeavesOf(c, k, v) = DerivedLeaves(c, k, v)
  BY <1>1 DEF LeavesOf
<1>6. PICK way : way = Transitive(c, k)[1]
  OBVIOUS
<1>7. PICK R : R = RowsOf(way.table)
  OBVIOUS
<1>8. CASE Transitive(c, k) = <<>> \/ ~Exists(way.table)
  <2>1. DerivedMembers(c, search, k) = {}
    BY <1>6, <1>8 DEF DerivedMembers
  <2>2. DerivedLeaves(c, k, v) = {}
    BY <1>6, <1>8 DEF DerivedLeaves
  <2>3. QED
    BY <1>4, <1>5, <2>1, <2>2
<1>9. CASE Transitive(c, k) # <<>> /\ Exists(way.table)
  <2> DEFINE id(r) == <<"", r[way.key_column]>>
             value(r) == <<"", r[way.column]>>
  <2>1. DerivedMembers(c, search, k) = {<<k, value(r)>> : r \in {x \in R : Permitted(search, way.leaf, id(x))}}
    BY <1>6, <1>7, <1>9 DEF DerivedMembers
  <2>2. DerivedLeaves(c, k, v) = {id(r) : r \in {x \in R : value(x) = v}}
    BY <1>6, <1>7, <1>9 DEF DerivedLeaves, LeafNodes
  <2>3. FilterLeaf(c, k) = way.leaf
    BY <1>1, <1>6, <1>9 DEF FilterLeaf
  <2> HIDE DEF id, value
  <2>4. <<k, v>> \in {<<k, value(r)>> : r \in {x \in R : Permitted(search, way.leaf, id(x))}}
          <=> \E r \in R : Permitted(search, way.leaf, id(r)) /\ value(r) = v
    OBVIOUS
  <2>5. (\E l \in {id(r) : r \in {x \in R : value(x) = v}} : Permitted(search, way.leaf, l))
          <=> \E r \in R : value(r) = v /\ Permitted(search, way.leaf, id(r))
    OBVIOUS
  <2>6. QED
    BY <1>4, <1>5, <2>1, <2>2, <2>3, <2>4, <2>5
<1>10. QED
  BY <1>8, <1>9

\* No edge of a hierarchy leads up to one of its leaves, in whatever states the
\* tables are: the rows do not give a node a leaf's identity.
LeavesAreLast ==
    \A i \in Accepting : \A k \in RaggedDims(Catalogue(i)) :
        LET c == Catalogue(i)
            d == c.dims[k]
            leaf == c.dims[d.leaf_dimension].source
        IN \A rows \in Range(Data[leaf.table[2]]) :
             IF d.ragged_source.type = "provided"
             THEN \A links \in Range(Data[d.ragged_source.edge_table[2]]) :
                    \A e \in ProvidedEdges(links, d.ragged_source) : e[2] \notin LeafNodes(rows, leaf.key_column)
             ELSE \A e \in GeneratedEdges(rows, Levels(c.dims, d)) : e[2] \notin LeafNodes(rows, leaf.key_column)

\* The levels of a generated hierarchy are not called like the root, and the
\* leaf is one of them only at the end.
LevelsNamed ==
    \A i \in Accepting : \A k \in RaggedDims(Catalogue(i)) :
        LET c == Catalogue(i)
            d == c.dims[k]
            levels == Levels(c.dims, d)
        IN d.ragged_source.type = "generated" =>
             \A n \in DOMAIN levels : /\ levels[n].type # "all"
                                      /\ levels[n].type = d.leaf_dimension => n = Len(levels)

\* The rows of a hierarchy's tables are some of the deployment's.
LEMMA RowsAre ==
    ASSUME Directory, NEW i \in Accepting, NEW k \in RaggedDims(Catalogue(i)), NEW ref \in TablesOf(Catalogue(i), k)
    PROVE  RowsOf(ref) \in Range(Data[ref[2]])
<1>1. ref[2] \in DOMAIN Data
  BY InstancesAssumption
<1>2. contents[ref[2]] \in DOMAIN Data[ref[2]]
  BY <1>1 DEF Directory
<1>3. QED
  BY <1>2 DEF RowsOf, Range

\* No edge of now leads up to a leaf.
LEMMA EdgesEndBelow ==
    ASSUME Directory, LeavesAreLast, NEW i \in Accepting, NEW c, c = Catalogue(i), NEW k \in RaggedDims(c)
    PROVE  \A e \in EdgesNow(c, k) : e[2] \notin LeavesNow(c, k)
<1> DEFINE d == c.dims[k]
           leaf == c.dims[d.leaf_dimension].source
           links == RowsOf(d.ragged_source.edge_table)
           rows == RowsOf(leaf.table)
<1>1. rows \in Range(Data[leaf.table[2]])
  <2>1. leaf.table \in TablesOf(c, k)
    BY DEF TablesOf
  <2>2. QED
    BY <2>1, RowsAre
<1>2. LeavesNow(c, k) = LeafNodes(rows, leaf.key_column)
  BY DEF LeavesNow
<1>3. CASE d.ragged_source.type = "provided"
  <2>1. links \in Range(Data[d.ragged_source.edge_table[2]])
    <3>1. d.ragged_source.edge_table \in TablesOf(c, k)
      BY <1>3 DEF TablesOf
    <3>2. QED
      BY <3>1, RowsAre
  <2>2. EdgesNow(c, k) = ProvidedEdges(links, d.ragged_source)
    BY <1>3 DEF EdgesNow
  <2>3. \A e \in ProvidedEdges(links, d.ragged_source) : e[2] \notin LeafNodes(rows, leaf.key_column)
    <3> HIDE DEF rows, links
    <3>1. QED
      BY <1>1, <1>3, <2>1 DEF LeavesAreLast
  <2>4. QED
    BY <1>2, <2>2, <2>3
<1>4. CASE d.ragged_source.type # "provided"
  <2>1. EdgesNow(c, k) = GeneratedEdges(rows, Levels(c.dims, d))
    BY <1>4 DEF EdgesNow
  <2>2. \A e \in GeneratedEdges(rows, Levels(c.dims, d)) : e[2] \notin LeafNodes(rows, leaf.key_column)
    <3> HIDE DEF rows
    <3>1. QED
      BY <1>1, <1>4 DEF LeavesAreLast
  <2>3. QED
    BY <1>2, <2>1, <2>2
<1>5. QED
  BY <1>3, <1>4

\* A leaf no edge leads up to is above itself and no other.
LEMMA LeafAlone ==
    ASSUME NEW E, NEW L, NEW v \in L, \A e \in E : e[2] \notin L, NEW u, <<v, u>> \in Under(E, L)
    PROVE  u = v
<1> DEFINE all == L \cup UNION {Ends(e) : e \in E}
           S == all \ {v}
           closed == {T \in SUBSET all : \A e \in E : e[1] \in T => e[2] \in T}
<1>1. u \in L /\ \A T \in closed : u \in T => v \in T
  BY DEF Under
<1>2. \A e \in E : e[2] \in S
  BY DEF Ends
<1>3. S \in closed
  BY <1>2
<1>4. u \in all
  BY <1>1
<1> HIDE DEF closed, all
<1>5. QED
  BY <1>1, <1>3, <1>4

\* What there is in a settled warehouse that the preflight passes.
LEMMA SettledHas ==
    ASSUME DeploymentInv, MembersInv, Settled, PreflightPasses(disk)
    PROVE  /\ disk \in Accepting /\ Now = Catalogue(disk)
           /\ \A l \in DOMAIN Now.dims : IsLeaf(Now.dims[l]) => Exists(Now.dims[l].source.table)
           /\ \A k \in RaggedDims(Now) :
                /\ Exists(NodesOf(Now, k).makes) /\ Catalogue(store[NodesOf(Now, k).makes]) = Now
                /\ \A v, u : u \in RaggedLeaves(Now, k, v)
                               <=> <<v, u>> \in Under(EdgesNow(Now, k), LeavesNow(Now, k))
<1>1. disk \in Accepting /\ Now = Catalogue(disk) /\ owed = {} /\ CheckedObjects(Now) \subseteq DOMAIN store
  BY DEF Settled, Fits, Now, PreflightPasses
<1>2. ASSUME NEW l \in DOMAIN Now.dims, IsLeaf(Now.dims[l]) PROVE Exists(Now.dims[l].source.table)
  <2>1. PICK t : t = Now.dims[l].source.table
    OBVIOUS
  <2>2. t = <<"semantic", t[2]>>
    BY <1>1, <1>2, <2>1, LeafTables
  <2>3. t[1] = "semantic"
    BY <2>2
  <2>4. t \in CheckedObjects(Now)
    BY <1>2, <2>1, <2>3 DEF CheckedObjects
  <2>5. QED
    BY <1>1, <2>1, <2>4 DEF Exists
<1>3. ASSUME NEW k \in RaggedDims(Now)
      PROVE  /\ Exists(NodesOf(Now, k).makes) /\ Catalogue(store[NodesOf(Now, k).makes]) = Now
             /\ \A v, u : u \in RaggedLeaves(Now, k, v)
                            <=> <<v, u>> \in Under(EdgesNow(Now, k), LeavesNow(Now, k))
  <2>1. /\ NodesOf(Now, k).makes = <<"semantic", RaggedName(Now, k) \o "">>
        /\ RollupOf(Now, k).makes = <<"semantic", RaggedName(Now, k) \o "_rollup">>
    BY DEF NodesOf, RollupOf, Hierarchy, Makes
  <2>2. {NodesOf(Now, k).makes, RollupOf(Now, k).makes} \subseteq RaggedObjects(Now, k)
    BY <2>1 DEF RaggedObjects
  <2>3. RaggedObjects(Now, k) \subseteq CheckedObjects(Now)
    BY DEF CheckedObjects
  <2>4. NodesOf(Now, k).makes \in DOMAIN store /\ RollupOf(Now, k).makes \in DOMAIN store
    BY <1>1, <2>2, <2>3
  <2>5. NodesCurrent(k)
    <3>1. Covered({})
      BY <1>1 DEF Covered
    <3>2. QED
      BY <1>1, <3>1 DEF MembersInv, Lists, Fits
  <2>6. Catalogue(store[NodesOf(Now, k).makes]) = Now
    BY <1>1, <2>4, <2>5 DEF NodesCurrent
  <2>7. ClosureOf(Now, k).makes[2] \in DOMAIN closures
    BY <1>1, <2>4 DEF MembersInv, Made
  <2>8. PICK rows : rows = closures[ClosureOf(Now, k).makes[2]]
    OBVIOUS
  <2>9. rows = Under(EdgesNow(Now, k), LeavesNow(Now, k))
    BY <2>7, <2>8, SettledFollows DEF SettledClosuresAreCurrent, Now, ClosureOf
  <2>10. \A v : RaggedLeaves(Now, k, v) = {pair[2] : pair \in {x \in rows : x[1] = v}}
    BY <2>4, <2>8 DEF RaggedLeaves, Exists, RollupOf, ClosureOf
  <2>11. \A pair \in rows : pair = <<pair[1], pair[2]>>
    BY <2>9 DEF Under
  <2>12. \A v, u : u \in RaggedLeaves(Now, k, v) <=> <<v, u>> \in rows
    BY <2>10, <2>11
  <2>13. QED
    BY <2>4, <2>6, <2>9, <2>12 DEF Exists
<1>4. QED
  BY <1>1, <1>2, <1>3

\* A leaf's members, which a hierarchy over it may find too.
LEMMA LeafFound ==
    ASSUME DeploymentInv, MembersInv, Settled, PreflightPasses(disk), LeavesAreLast,
           NEW search, NEW k \in Searched(Now, search), IsLeaf(Now.dims[k]), NEW v \in Candidates(Now, k)
    PROVE  <<k, v>> \in FoundNow(Now, search)
             <=> \E l \in LeavesOf(Now, k, v) : Permitted(search, FilterLeaf(Now, k), l)
<1> DEFINE source == Now.dims[k].source
           members == LeafNodes(RowsOf(source.table), source.key_column)
<1>1. disk \in Accepting /\ Now = Catalogue(disk) /\ k \in DOMAIN Now.dims /\ Exists(source.table)
  BY SettledHas, SearchedAre
<1>2. FilterLeaf(Now, k) = k /\ v \in members
  BY DEF FilterLeaf, Candidates
<1>3. LeavesOf(Now, k, v) = members \cap {v}
  BY <1>1 DEF LeavesOf, LeafLeaves
<1> HIDE DEF members
<1>4. <<k, v>> \in LeafMembers(Now, search, k) <=> Permitted(search, k, v)
  <2>1. LeafMembers(Now, search, k) = {<<k, w>> : w \in {x \in members : Permitted(search, k, x)}}
    BY <1>1 DEF LeafMembers, members
  <2>2. <<k, v>> \in {<<k, w>> : w \in {x \in members : Permitted(search, k, x)}} <=> Permitted(search, k, v)
    BY <1>2
  <2>3. QED
    BY <2>1, <2>2
<1>5. <<k, v>> \notin DerivedMembers(Now, search, k)
  <2>1. ~IsDerived(Now.dims[k])
    BY <1>1, KindsAre
  <2>2. QED
    BY <2>1 DEF DerivedMembers
<1>6. ASSUME NEW x \in Searched(Now, search), <<k, v>> \in HierarchyNodes(Now, search, x)
      PROVE  Permitted(search, k, v)
  <2>1. Now.dims[x].ragged /\ x \in DOMAIN Now.dims /\ k \in {Now.dims[x].leaf_dimension, x}
    BY <1>1, <1>6, HierarchyFound, SearchedAre
  <2>2. k = Now.dims[x].leaf_dimension /\ x \in RaggedDims(Now)
    <3>1. ~Now.dims[k].ragged
      BY <1>1, KindsAre
    <3>2. QED
      BY <2>1, <3>1 DEF RaggedDims
  <2>3. PICK n \in ShownNodes(Now, search, x, ListedNodes(Now, x)) : n.id = v
    BY <1>6, HierarchyFound
  <2>4. CASE k \notin DOMAIN search.permitted
    BY <2>4 DEF Permitted
  <2>5. CASE k \in DOMAIN search.permitted
    <3>1. PICK u \in search.permitted[k] : u \in RaggedLeaves(Now, x, v)
      BY <2>2, <2>3, <2>5 DEF ShownNodes
    <3>2. <<v, u>> \in Under(EdgesNow(Now, x), LeavesNow(Now, x))
      BY <2>2, <3>1, SettledHas
    <3>3. v \in LeavesNow(Now, x)
      BY <1>2, <2>2 DEF LeavesNow, members
    <3>4. \A e \in EdgesNow(Now, x) : e[2] \notin LeavesNow(Now, x)
      BY <1>1, <2>2, EdgesEndBelow DEF DeploymentInv
    <3>5. u = v
      BY <3>2, <3>3, <3>4, LeafAlone
    <3>6. QED
      BY <3>1, <3>5 DEF Permitted
  <2>6. QED
    BY <2>4, <2>5
<1>7. <<k, v>> \in FoundNow(Now, search) <=> Permitted(search, k, v)
  <2>1. <<k, v>> \in FoundNow(Now, search) <=>
             \/ <<k, v>> \in LeafMembers(Now, search, k) \/ <<k, v>> \in DerivedMembers(Now, search, k)
             \/ \E x \in Searched(Now, search) : <<k, v>> \in HierarchyNodes(Now, search, x)
    BY <1>1, FoundIs
  <2>2. QED
    BY <1>4, <1>5, <1>6, <2>1
<1>8. QED
  BY <1>2, <1>3, <1>7

\* A node leads to a leaf; one is listed as neither the root nor a leaf.
LeadsToLeaf(c, k, v) == \E u : <<v, u>> \in Under(EdgesNow(c, k), LeavesNow(c, k))
ListedInside(c, k, v) ==
    \E n \in NodesNow(c, k) : n.id = v /\ n.type # "all" /\ n.type # c.dims[k].leaf_dimension

\* An inner node of a hierarchy made from its leaf's levels, unless an orphan, is
\* listed just where it leads to a leaf.
LEMMA InnerListed ==
    ASSUME LevelsNamed, NEW i \in Accepting, NEW c, c = Catalogue(i), NEW k \in RaggedDims(c),
           c.dims[k].ragged_source.type = "generated", NEW v, v # Root, v \notin LeavesNow(c, k)
    PROVE  LeadsToLeaf(c, k, v) /\ v \notin Orphans(c, k) <=> ListedInside(c, k, v)
<1> DEFINE d == c.dims[k]
           leaf == c.dims[d.leaf_dimension].source
           R == RowsOf(leaf.table)
           L == Levels(c.dims, d)
           N == Len(L)
<1>1. d.ragged_source.type # "provided"
  OBVIOUS
<1>2. LeadsToLeaf(c, k, v) <=> v \in Mapped(c, k)
  <2> DEFINE pairs == Under(EdgesNow(c, k), LeavesNow(c, k))
  <2>1. \A pair \in pairs : pair = <<pair[1], pair[2]>>
    BY DEF Under
  <2>2. LeadsToLeaf(c, k, v) <=> \E u : <<v, u>> \in pairs
    BY DEF LeadsToLeaf
  <2>3. v \in Mapped(c, k) <=> \E pair \in pairs : pair[1] = v
    BY DEF Mapped
  <2> HIDE DEF pairs
  <2>4. (\E u : <<v, u>> \in pairs) => \E pair \in pairs : pair[1] = v
    <3>1. SUFFICES ASSUME NEW u, <<v, u>> \in pairs PROVE \E pair \in pairs : pair[1] = v
      OBVIOUS
    <3>2. <<v, u>>[1] = v
      OBVIOUS
    <3>3. QED
      BY <3>1, <3>2
  <2>5. (\E pair \in pairs : pair[1] = v) => \E u : <<v, u>> \in pairs
    <3>1. SUFFICES ASSUME NEW pair \in pairs, pair[1] = v PROVE \E u : <<v, u>> \in pairs
      OBVIOUS
    <3>2. pair = <<v, pair[2]>>
      BY <2>1, <3>1
    <3>3. QED
      BY <3>2
  <2>6. QED
    BY <2>2, <2>3, <2>4, <2>5
<1>3. LeadsToLeaf(c, k, v) /\ v \notin Orphans(c, k) <=> v \in {n.id : n \in NodesNow(c, k)}
  BY <1>2, MappedListed
<1>4. \A id, type : Node(id, type).id = id /\ Node(id, type).type = type
  BY DEF Node
<1>5. ASSUME NEW n \in NodesNow(c, k), n.id = v PROVE n.type # "all" /\ n.type # d.leaf_dimension
  <2>1. \/ n = Node(Root, "all")
        \/ \E r \in R, m \in DOMAIN L : HasMember(r, L[m]) /\ n = Node(NodeAt(r, L[m]), L[m].type)
    <3>1. PICK rows : rows = R
      OBVIOUS
    <3>2. PICK levels : levels = L
      OBVIOUS
    <3>3. ListNode(n, rows, levels)
      BY <1>1, <1>5, <3>1, <3>2, NodesAre
    <3> HIDE DEF R, L
    <3>4. QED
      BY <3>1, <3>2, <3>3 DEF ListNode
  <2>2. PICK r \in R, m \in DOMAIN L : v = NodeAt(r, L[m]) /\ n.type = L[m].type
    BY <1>4, <1>5, <2>1
  <2>3. n.type # "all" /\ (n.type = d.leaf_dimension => m = N)
    BY <2>2 DEF LevelsNamed
  <2>4. m # N
    <3>1. Last(L) = L[N] /\ Last(L).prefix = "" /\ Last(L).column = leaf.key_column
      BY <1>1, LevelsEnd DEF Last
    <3>2. NodeAt(r, L[N]) \in LeavesNow(c, k)
      BY <3>1 DEF NodeAt, LeavesNow, LeafNodes
    <3>3. QED
      BY <2>2, <3>2
  <2>5. QED
    BY <2>3, <2>4
<1>6. v \in {n.id : n \in NodesNow(c, k)} <=> ListedInside(c, k, v)
  BY <1>5 DEF ListedInside
<1>7. QED
  BY <1>3, <1>6

\* The inner nodes of a hierarchy made from its leaf's levels.
LEMMA InnerFound ==
    ASSUME DeploymentInv, MembersInv, Settled, PreflightPasses(disk), LevelsNamed,
           NEW search, NEW k \in Searched(Now, search), Now.dims[k].ragged, NEW v \in Candidates(Now, k)
    PROVE  <<k, v>> \in FoundNow(Now, search)
             <=> /\ v \notin Orphans(Now, k)
                 /\ \E l \in LeavesOf(Now, k, v) : Permitted(search, FilterLeaf(Now, k), l)
<1> DEFINE d == Now.dims[k]
           leaf == d.leaf_dimension
<1>1. disk \in Accepting /\ Now = Catalogue(disk) /\ k \in DOMAIN Now.dims /\ k \in RaggedDims(Now)
  BY SettledHas, SearchedAre DEF RaggedDims
<1>2. ~IsLeaf(d) /\ ~IsDerived(d) /\ leaf \in DOMAIN Now.dims /\ IsLeaf(Now.dims[leaf])
  BY <1>1, KindsAre
<1>3. FilterLeaf(Now, k) = leaf /\ LeavesOf(Now, k, v) = RaggedLeaves(Now, k, v)
  BY <1>2 DEF FilterLeaf, LeavesOf
<1>4. /\ d.ragged_source.type = "generated" /\ v # Root
      /\ v \notin LeavesNow(Now, k)
  BY <1>2, <1>3 DEF Candidates, LeavesNow
<1>5. \A x \in Searched(Now, search) :
        <<k, v>> \in HierarchyNodes(Now, search, x) => x = k
  <2>1. SUFFICES ASSUME NEW x \in Searched(Now, search), <<k, v>> \in HierarchyNodes(Now, search, x) PROVE x = k
    OBVIOUS
  <2>2. Now.dims[x].ragged /\ x \in DOMAIN Now.dims /\ k \in {Now.dims[x].leaf_dimension, x}
    BY <1>1, <2>1, HierarchyFound, SearchedAre
  <2>3. IsLeaf(Now.dims[Now.dims[x].leaf_dimension])
    BY <1>1, <2>2, KindsAre
  <2>4. QED
    BY <1>2, <2>2, <2>3
<1>6. <<k, v>> \in FoundNow(Now, search) <=> <<k, v>> \in HierarchyNodes(Now, search, k)
  <2>1. <<k, v>> \notin LeafMembers(Now, search, k) /\ <<k, v>> \notin DerivedMembers(Now, search, k)
    BY <1>2 DEF LeafMembers, DerivedMembers
  <2>2. QED
    BY <1>1, <1>5, <2>1, FoundIs
<1>7. PICK shown : shown = ShownNodes(Now, search, k, ListedNodes(Now, k))
  OBVIOUS
<1>8. <<k, v>> \in HierarchyNodes(Now, search, k) <=> \E n \in shown : n.id = v /\ n.type # leaf
  <2>1. Exists(NodesOf(Now, k).makes)
    BY <1>1, SettledHas
  <2>2. k # leaf
    BY <1>2
  <2>3. QED
    BY <1>7, <2>1, <2>2, HierarchyFound
<1>9. ListedNodes(Now, k) = {n \in NodesNow(Now, k) : n.type # "all"}
  <2>1. Catalogue(store[NodesOf(Now, k).makes]) = Now
    BY <1>1, SettledHas
  <2>2. QED
    BY <2>1 DEF ListedNodes
<1>10. PICK U : U = RaggedLeaves(Now, k, v)
  OBVIOUS
<1>15. PICK orphan \in BOOLEAN : orphan <=> v \in Orphans(Now, k)
  OBVIOUS
<1>11. (\E u : u \in U) /\ ~orphan <=> \E n \in ListedNodes(Now, k) : n.id = v /\ n.type # leaf
  <2>1. \A u : u \in U <=> <<v, u>> \in Under(EdgesNow(Now, k), LeavesNow(Now, k))
    BY <1>1, <1>10, SettledHas
  <2>2. (\E u : <<v, u>> \in Under(EdgesNow(Now, k), LeavesNow(Now, k))) /\ ~orphan
          <=> \E n \in NodesNow(Now, k) : n.id = v /\ n.type # "all" /\ n.type # leaf
    <3>1. PICK c : c = Now
      OBVIOUS
    <3>2. disk \in Accepting /\ c = Catalogue(disk) /\ k \in RaggedDims(c)
      BY <1>1, <3>1
    <3>3. c.dims[k].ragged_source.type = "generated" /\ v # Root /\ v \notin LeavesNow(c, k)
      BY <1>4, <3>1
    <3>4. LeadsToLeaf(c, k, v) /\ v \notin Orphans(c, k) <=> ListedInside(c, k, v)
      BY <3>2, <3>3, InnerListed
    <3>5. QED
      BY <1>15, <3>1, <3>4 DEF LeadsToLeaf, ListedInside
  <2>3. QED
    BY <1>9, <2>1, <2>2
<1>12. CASE leaf \notin DOMAIN search.permitted
  <2>1. shown = ListedNodes(Now, k)
    BY <1>7, <1>12 DEF ShownNodes
  <2>2. \A l : Permitted(search, leaf, l)
    BY <1>12 DEF Permitted
  <2> HIDE DEF leaf, d
  <2>3. QED
    BY <1>3, <1>6, <1>8, <1>10, <1>11, <1>15, <2>1, <2>2
<1>13. CASE leaf \in DOMAIN search.permitted
  <2>1. \A n : n \in shown /\ n.id = v <=> n \in ListedNodes(Now, k) /\ n.id = v /\ \E u \in search.permitted[leaf] : u \in U
    BY <1>7, <1>10, <1>13 DEF ShownNodes
  <2>2. \A l : Permitted(search, leaf, l) <=> l \in search.permitted[leaf]
    BY <1>13 DEF Permitted
  <2> HIDE DEF leaf, d
  <2>3. QED
    BY <1>3, <1>6, <1>8, <1>10, <1>11, <1>15, <2>1, <2>2
<1>14. QED
  BY <1>12, <1>13

\* A search of a settled warehouse tells what can be used.
LEMMA SettledTells ==
    ASSUME DeploymentInv, MembersInv, SearchAnswered, LevelsNamed, LeavesAreLast
    PROVE  SearchTells
<1>1. SUFFICES ASSUME NEW a \in Range(answer), a.tool = "search", Settled, a.of = disk, PreflightPasses(disk),
                      NEW k \in Searched(Now, a.search), NEW v \in Candidates(Now, k)
               PROVE  <<k, v>> \in a.found <=>
                        LET res == Resolved(Now, {<<k, v>>}, "pnl")
                        IN (Now.dims[k].ragged => v \notin Orphans(Now, k)) /\ ~res.failed /\ \E l \in UNION Range(res.columns) :
                                             Permitted(a.search, FilterLeaf(Now, k), l)
  BY DEF SearchTells, Now
<1>2. PICK search : search = a.search
  OBVIOUS
<1>3. disk \in Accepting /\ Now = Catalogue(disk) /\ k \in Searched(Now, search)
  BY <1>1, <1>2, SettledHas
<1>4. a.found = FoundNow(Now, search)
  BY <1>1, <1>2 DEF SearchAnswered, Now
<1>5. k \in DOMAIN Now.dims
  BY <1>3, SearchedAre
<1>6. <<k, v>> \in FoundNow(Now, search)
        <=> /\ Now.dims[k].ragged => v \notin Orphans(Now, k)
            /\ \E l \in LeavesOf(Now, k, v) : Permitted(search, FilterLeaf(Now, k), l)
  <2>1. CASE IsLeaf(Now.dims[k])
    <3>1. ~Now.dims[k].ragged
      BY <1>3, <1>5, <2>1, KindsAre
    <3>2. QED
      BY <1>1, <1>3, <2>1, <3>1, LeafFound
  <2>2. CASE IsDerived(Now.dims[k])
    <3>1. ~Now.dims[k].ragged
      BY <1>3, <1>5, <2>2, KindsAre
    <3>2. QED
      BY <1>3, <2>2, <3>1, DerivedFound
  <2>3. CASE Now.dims[k].ragged
    BY <1>1, <1>3, <2>3, InnerFound
  <2>4. QED
    BY <1>3, <1>5, <2>1, <2>2, <2>3, KindsAre
<1>7. LET res == Resolved(Now, {<<k, v>>}, "pnl")
      IN (~res.failed /\ \E l \in UNION Range(res.columns) : Permitted(search, FilterLeaf(Now, k), l))
           <=> \E l \in LeavesOf(Now, k, v) : Permitted(search, FilterLeaf(Now, k), l)
  BY <1>5, UsableIs
<1>8. QED
  BY <1>2, <1>4, <1>6, <1>7

\* FiltersTell: besides what a report keeps of its filters, in a settled
\* warehouse that the preflight passes a search finds a member exactly when a
\* filter on it comes down to a leaf the caller may see, orphans of a hierarchy
\* aside, whatever was published, replaced or stopped half-way before
\* (search_hierarchy, filter_resolver).  For
\* jobs that do not overlap, names no other statement takes, levels with names
\* of their own, and rows that give no inner node a leaf's identity.
THEOREM FiltersTellTheSame ==
    ASSUME Serialised, Anchored, NamesOwn, LevelsNamed, LeavesAreLast
    PROVE  DeploymentSpec => []FiltersTell
<1> DEFINE I == DeploymentInv /\ MembersInv
<1>1. DeploymentInit => I
  BY DeploymentInductive, MembersInductive
<1>2. I /\ [DeploymentNext]_deploymentVars => I'
  BY DeploymentInductive, MembersInductive
<1>3. DeploymentSpec => []FiltersHonoured
  BY FiltersAreHonoured
<1>4. DeploymentSpec => []SearchAnswered
  BY SearchAnswers
<1>5. I /\ SearchAnswered => SearchTells
  BY SettledTells
<1>6. FiltersHonoured /\ SearchTells => FiltersTell
  BY DEF FiltersTell
<1> HIDE DEF I
<1>7. QED
  BY <1>1, <1>2, <1>3, <1>4, <1>5, <1>6, PTL DEF DeploymentSpec
=============================================================================
