------------------------------ MODULE Triggers ------------------------------
(***************************************************************************)
(* What starts loads: the cron scheduler, the file watcher and the API     *)
(* server (push and upload), as processes that share nothing but           *)
(* load_history, the per-binding advisory locks and the drop store.        *)
(*                                                                         *)
(* run_binding is reduced to what a trigger sees of it: its row is         *)
(* inserted, it gets the lock or not, it ends or raises.  LoadPipeline     *)
(* has the rest.                                                           *)
(***************************************************************************)
EXTENDS Integers, Sequences, FiniteSets

CONSTANTS
    Schedulers, Watchers, Servers,   \* processes
    Cron, Watched,   \* bindings by schedule.mode; push reaches both
    Strategy,        \* [Cron -> {"lookback", "watermark"}]
    Lookback,        \* lookback_periods
    Fallback,        \* watermark_fallback_periods
    Files,           \* names in the drop store, each for one watched binding
    FileBinding,     \* [Files -> Watched]
    FilePeriod,      \* [Files -> Nat]
    Unmatched,       \* files whose period cannot be inferred
    Broken,          \* files that the format reader cannot parse
    Requests,        \* push requests: [binding, period], each with its key
    FirstWindow,     \* bound: the cron window in which a behaviour begins
    WindowsPerMonth,
    Settings         \* deployments: which processes run, and how far it goes

Processes == Schedulers \union Watchers \union Servers
Bindings == Cron \union Watched

\* Windows and the months selected in them are UTC's.  Periods are a total
\* order, as their text orders them: the calendar month m is 2m, an adjustment
\* period that follows it ('2026-13') is 2m + 1.
Month(window) == window \div WindowsPerMonth
Calendar(m) == 2 * m
IsCalendar(p) == p % 2 = 0

ASSUME ProcessesAssumption ==
    /\ Schedulers \intersect Watchers = {} /\ Schedulers \intersect Servers = {}
    /\ Watchers \intersect Servers = {}
ASSUME BindingsAssumption == Cron \intersect Watched = {}
ASSUME StrategyAssumption == Strategy \in [Cron -> {"lookback", "watermark"}]
ASSUME FilesAssumption ==
    /\ FileBinding \in [Files -> Watched]
    /\ FilePeriod \in [Files -> Nat]
    /\ Unmatched \union Broken \subseteq Files
ASSUME RequestsAssumption == Requests \subseteq [binding : Bindings, period : Nat]
ASSUME ClockAssumption ==
    /\ {FirstWindow, WindowsPerMonth, Lookback, Fallback} \subseteq Nat \ {0}
    /\ Lookback <= Month(FirstWindow) + 1 /\ Fallback <= Month(FirstWindow) + 1

\* The daemons are services of their own: a deployment runs the processes in
\* `runs`, and its clients push the requests in `clients`.  The other fields bound a behaviour: the window in which time stops,
\* requests to the API, failed inserts, listings, puts and raising loads, and
\* processes that die.
ASSUME SettingsAssumption ==
    Settings \subseteq [runs : SUBSET Processes, clients : SUBSET Requests, last : Nat,
                        pushes : Nat, uploads : Nat, failures : Nat, crashes : Nat]

VARIABLES
    setting,   \* the deployment, in Settings
    clock,     \* the current cron window
    rows,      \* load_history, oldest first
    lock,      \* [Bindings -> the process whose load holds the lock, or "free"]
    files,     \* the drop store
    proc,      \* [Processes -> what it is doing]
    pushed,    \* [Servers -> [Requests -> the row remembered for its key, 0: none]]
    seen,      \* [Servers -> the uploads whose key is remembered]
    spent,     \* how much of each bound is used up
    fired      \* history: what became of each period the schedulers took on

vars == <<setting, clock, rows, lock, files, proc, pushed, seen, spent, fired>>

-----------------------------------------------------------------------------
(* Processes *)

Idle == [at |-> "idle", now |-> 0, left |-> {}, binding |-> "none",
         todo |-> {}, row |-> 0]

\* What run_binding is called with: a period, and the file that caused it.
Order(period, file) == [period |-> period, file |-> file]

Become(p, at) == proc' = [proc EXCEPT ![p].at = at]
Spend(what) == spent' = [spent EXCEPT ![what] = @ + 1]
Failing == spent.failures < setting.failures /\ Spend("failures")

Kind(p) == IF p \in Schedulers THEN "schedule"
           ELSE IF p \in Watchers THEN "watch" ELSE "push"

\* A period a scheduler has taken on in the firing of the window it read: the
\* row inserted for it, or 0 when it is given up.
TakenOn(p, o, row) ==
    IF p \in Schedulers
    THEN {[binding |-> proc[p].binding, of |-> proc[p].now, period |-> o.period, row |-> row]}
    ELSE {}

\* Mutant of Thrown: the exception ends the scheduler's firing as well.
ThrownOut(p) ==
    proc' = [proc EXCEPT ![p] = IF p \in Schedulers THEN [@ EXCEPT !.at = "dispatch", !.row = 0, !.todo = {}]
                                ELSE Idle]

\* Where a process goes on when a load, or the attempt at one, has raised:
\* the scheduler catches it per period; it ends the watcher's tick and the
\* server's request.
Thrown(p) ==
    proc' = [proc EXCEPT ![p] = IF p \in Schedulers THEN [@ EXCEPT !.at = "dispatch", !.row = 0]
                                ELSE Idle]

Init ==
    /\ setting \in Settings
    /\ clock = FirstWindow
    /\ rows = <<>>
    /\ lock = [b \in Bindings |-> "free"]
    /\ files = {}
    /\ proc = [p \in Processes |-> Idle]
    /\ pushed = [a \in Servers |-> [q \in Requests |-> 0]]
    /\ seen = [a \in Servers |-> {}]
    /\ spent = [pushes |-> 0, uploads |-> 0, failures |-> 0, crashes |-> 0]
    /\ fired = {}

Advance ==
    /\ clock < setting.last
    /\ clock' = clock + 1
    /\ UNCHANGED <<setting, rows, lock, files, proc, pushed, seen, spent, fired>>

-----------------------------------------------------------------------------
(* The daemons' ticks *)

\* tick(): the scheduler reads the clock once for all its bindings.
Tick(p) ==
    /\ proc[p].at = "idle"
    /\ p \in setting.runs \ Servers
    /\ proc' = [proc EXCEPT ![p] = [Idle EXCEPT !.at = "inspect",
                    !.now = IF p \in Schedulers THEN clock ELSE 0,
                    !.left = IF p \in Schedulers THEN Cron ELSE Watched]]
    /\ UNCHANGED <<setting, clock, rows, lock, files, pushed, seen, spent, fired>>

TickDone(p) ==
    /\ proc[p].at = "inspect"
    /\ proc[p].left = {}
    /\ proc' = [proc EXCEPT ![p] = Idle]
    /\ UNCHANGED <<setting, clock, rows, lock, files, pushed, seen, spent, fired>>

Scheduled(b) == {i \in DOMAIN rows : rows[i].kind = "schedule" /\ rows[i].binding = b}
Succeeded(b) == {i \in DOMAIN rows : rows[i].binding = b /\ rows[i].status = "success"}

\* Mutant of Due: the last attempt counts only when it succeeded.
DueUnlessSucceeded(b, now) ==
    \A i \in Scheduled(b) \intersect Succeeded(b) : rows[i].window < now

\* The next fire time after the last scheduled attempt has come.
Due(b, now) == \A i \in Scheduled(b) : rows[i].window < now

ShouldFire(s) ==
    /\ s \in Schedulers
    /\ proc[s].at = "inspect"
    /\ \E b \in proc[s].left :
          proc' = [proc EXCEPT ![s].left = @ \ {b},
                               ![s].binding = b,
                               ![s].at = IF Due(b, proc[s].now) THEN "select" ELSE "inspect"]
    /\ UNCHANGED <<setting, clock, rows, lock, files, pushed, seen, spent, fired>>

\* latest_successful_period, over every trigger's loads; 0 for none.
Latest(b) ==
    IF Succeeded(b) = {} THEN 0
    ELSE CHOOSE p \in {rows[i].period : i \in Succeeded(b)} :
             \A i \in Succeeded(b) : rows[i].period <= p

Trailing(month, n) == {Calendar(m) : m \in (month - n + 1) .. month}

\* The periods of a lookback or watermark binding.
Selected(b, now) ==
    IF Strategy[b] = "lookback" THEN Trailing(Month(now), Lookback)
    ELSE IF Latest(b) = 0 THEN Trailing(Month(now), Fallback)
    ELSE {Calendar(m) : m \in (Latest(b) \div 2 + 1) .. Month(now)}

\* select_periods; it raises when the watermark is an adjustment period, and
\* the binding is left alone in this tick.
SelectPeriods(s) ==
    /\ proc[s].at = "select"
    /\ LET b == proc[s].binding
           raises == Strategy[b] = "watermark" /\ ~IsCalendar(Latest(b))
           periods == Selected(b, proc[s].now)
       IN proc' = [proc EXCEPT ![s].at = IF raises THEN "inspect" ELSE "dispatch",
                               ![s].todo = IF raises THEN {}
                                           ELSE {Order(p, "none") : p \in periods}]
    /\ fired' = {f \in fired : f.binding # proc[s].binding \/ f.of # proc[s].now}
    /\ UNCHANGED <<setting, clock, rows, lock, files, pushed, seen, spent>>

\* The watcher lists the files of a binding.
ListKeys(w) ==
    /\ w \in Watchers
    /\ proc[w].at = "inspect"
    /\ \E b \in proc[w].left :
          proc' = [proc EXCEPT ![w].left = @ \ {b},
                               ![w].binding = b,
                               ![w].at = "listed",
                               ![w].todo = {Order(FilePeriod[f], f) :
                                             f \in {g \in files : FileBinding[g] = b}}]
    /\ UNCHANGED <<setting, clock, rows, lock, files, pushed, seen, spent, fired>>

ListFails(w) ==
    /\ w \in Watchers
    /\ proc[w].at = "inspect"
    /\ \E b \in proc[w].left : proc' = [proc EXCEPT ![w].left = @ \ {b}]
    /\ Failing
    /\ UNCHANGED <<setting, clock, rows, lock, files, pushed, seen, fired>>

\* Mutant of Processed: only successful loads count.
ProcessedBySuccess(b) == {rows[i].file : i \in Succeeded(b)}

\* Mutant of Processed: a file is taken as processed with another of its period.
ProcessedByPeriod(b) ==
    {f \in Files : \E i \in DOMAIN rows : rows[i].kind = "watch" /\ rows[i].period = FilePeriod[f]}

\* processed_watch_keys_for_binding: whatever became of the attempt.
Processed(b) ==
    {rows[i].file : i \in {j \in DOMAIN rows : rows[j].kind = "watch" /\ rows[j].binding = b}}

\* A second query; the files whose period cannot be inferred drop out.
ReadProcessed(w) ==
    /\ proc[w].at = "listed"
    /\ proc' = [proc EXCEPT ![w].at = "dispatch",
                    ![w].todo = {o \in @ : o.file \notin Processed(proc[w].binding) \union Unmatched}]
    /\ UNCHANGED <<setting, clock, rows, lock, files, pushed, seen, spent, fired>>

\* Period inference raises something else than PeriodInferenceError: the tick
\* is over, with what it had yet to do.
InferenceRaises(w) ==
    /\ w \in Watchers
    /\ proc[w].at = "dispatch"
    /\ \E o \in proc[w].todo : o.file \in Broken
    /\ proc' = [proc EXCEPT ![w] = Idle]
    /\ UNCHANGED <<setting, clock, rows, lock, files, pushed, seen, spent, fired>>

-----------------------------------------------------------------------------
(* run_binding, as its callers see it *)

\* Scheduled periods go oldest first.
NextOrders(p) ==
    IF p \in Schedulers
    THEN {o \in proc[p].todo : \A n \in proc[p].todo : o.period <= n.period}
    ELSE {o \in proc[p].todo : o.file \notin Broken}

\* The load_history row, stamped with the time it is inserted.
InsertAttempt(p) ==
    /\ proc[p].at = "dispatch"
    /\ \E o \in NextOrders(p) :
          /\ rows' = Append(rows, [binding |-> proc[p].binding, period |-> o.period,
                                   file |-> o.file, kind |-> Kind(p), by |-> p,
                                   window |-> clock, status |-> "running"])
          /\ proc' = [proc EXCEPT ![p].todo = @ \ {o}, ![p].at = "lock",
                                  ![p].row = Len(rows) + 1]
          /\ fired' = fired \union TakenOn(p, o, Len(rows) + 1)
    /\ UNCHANGED <<setting, clock, lock, files, pushed, seen, spent>>

InsertFails(p) ==
    /\ proc[p].at = "dispatch"
    /\ \E o \in NextOrders(p) :
          /\ proc' = [proc EXCEPT ![p] = IF p \in Schedulers THEN [proc[p] EXCEPT !.todo = @ \ {o}]
                                         ELSE Idle]
          /\ fired' = fired \union TakenOn(p, o, 0)
    /\ Failing
    /\ UNCHANGED <<setting, clock, rows, lock, files, pushed, seen>>

Acquire(p) ==
    /\ proc[p].at = "lock"
    /\ lock[proc[p].binding] = "free"
    /\ lock' = [lock EXCEPT ![proc[p].binding] = p]
    /\ Become(p, "load")
    /\ UNCHANGED <<setting, clock, rows, files, pushed, seen, spent, fired>>

\* The lock is busy for longer than a second: failed_other.
Conflict(p) ==
    /\ proc[p].at = "lock"
    /\ lock[proc[p].binding] # "free"
    /\ rows' = [rows EXCEPT ![proc[p].row].status = "failed"]
    /\ Become(p, "return")
    /\ UNCHANGED <<setting, clock, lock, files, pushed, seen, spent, fired>>

\* The load is finalised and its lock released.
Finish(p) ==
    /\ proc[p].at = "load"
    /\ \E s \in {"success", "failed"} : rows' = [rows EXCEPT ![proc[p].row].status = s]
    /\ lock' = [lock EXCEPT ![proc[p].binding] = "free"]
    /\ Become(p, "return")
    /\ UNCHANGED <<setting, clock, files, pushed, seen, spent, fired>>

\* An exception of the lock or of load_history leaves run_binding: its row
\* stays in 'running'.
Raise(p) ==
    /\ proc[p].at \in {"lock", "load"}
    /\ lock' = [b \in Bindings |-> IF lock[b] = p THEN "free" ELSE lock[b]]
    /\ Thrown(p)
    /\ Failing
    /\ UNCHANGED <<setting, clock, rows, files, pushed, seen, fired>>

\* Back in the caller.  The push route remembers the load for its key,
\* whatever its status, and answers.
Return(p) ==
    /\ proc[p].at = "return"
    /\ IF p \in Servers
       THEN LET r == rows[proc[p].row]
                q == [binding |-> r.binding, period |-> r.period]
            IN /\ pushed' = [pushed EXCEPT ![p][q] = proc[p].row]
               /\ proc' = [proc EXCEPT ![p] = Idle]
       ELSE /\ proc' = [proc EXCEPT ![p].at = "dispatch", ![p].row = 0]
            /\ UNCHANGED pushed
    /\ UNCHANGED <<setting, clock, rows, lock, files, seen, spent, fired>>

\* All loads of the binding are through.
Dispatched(p) ==
    /\ proc[p].at = "dispatch"
    /\ p \notin Servers
    /\ proc[p].todo = {}
    /\ Become(p, "inspect")
    /\ UNCHANGED <<setting, clock, rows, lock, files, pushed, seen, spent, fired>>

-----------------------------------------------------------------------------
(* The API server: one request at a time.  An upload awaits the reading of *)
(* its body, but nothing from the look at its key to the end.              *)

\* A push whose key is not remembered; one whose key is, is answered with
\* the load remembered for it and changes nothing.
Push(a) ==
    /\ proc[a].at = "idle"
    /\ a \in Servers \intersect setting.runs
    /\ spent.pushes < setting.pushes
    /\ \E q \in setting.clients :
          /\ pushed[a][q] = 0
          /\ proc' = [proc EXCEPT ![a].at = "dispatch", ![a].binding = q.binding,
                                  ![a].todo = {Order(q.period, "none")}]
    /\ Spend("pushes")
    /\ UNCHANGED <<setting, clock, rows, lock, files, pushed, seen, fired>>

\* The key is remembered, then the file is put into the store; an upload whose
\* key is remembered changes nothing.
Upload(a) ==
    /\ proc[a].at = "idle"
    /\ a \in Servers \intersect setting.runs
    /\ spent.uploads < setting.uploads
    /\ \E f \in Files \ seen[a] :
          /\ seen' = [seen EXCEPT ![a] = @ \union {f}]
          /\ proc' = [proc EXCEPT ![a].at = "put", ![a].todo = {Order(FilePeriod[f], f)}]
    /\ Spend("uploads")
    /\ UNCHANGED <<setting, clock, rows, lock, files, pushed, fired>>

Put(a) ==
    /\ proc[a].at = "put"
    /\ files' = files \union {o.file : o \in proc[a].todo}
    /\ proc' = [proc EXCEPT ![a] = Idle]
    /\ UNCHANGED <<setting, clock, rows, lock, pushed, seen, spent, fired>>

PutFails(a) ==
    /\ proc[a].at = "put"
    /\ proc' = [proc EXCEPT ![a] = Idle]
    /\ Failing
    /\ UNCHANGED <<setting, clock, rows, lock, files, pushed, seen, fired>>

-----------------------------------------------------------------------------
(* Crashes *)

\* A process dies; Postgres frees its lock, its memory is gone.
Crash(p) ==
    /\ p \in setting.runs
    /\ proc[p].at # "down"
    /\ spent.crashes < setting.crashes
    /\ proc' = [proc EXCEPT ![p] = [Idle EXCEPT !.at = "down"]]
    /\ lock' = [b \in Bindings |-> IF lock[b] = p THEN "free" ELSE lock[b]]
    /\ pushed' = [a \in Servers |-> IF a = p THEN [q \in Requests |-> 0] ELSE pushed[a]]
    /\ seen' = [a \in Servers |-> IF a = p THEN {} ELSE seen[a]]
    /\ fired' = fired \union UNION {TakenOn(p, o, 0) : o \in proc[p].todo}
    /\ Spend("crashes")
    /\ UNCHANGED <<setting, clock, rows, files>>

Restart(p) ==
    /\ proc[p].at = "down"
    /\ Become(p, "idle")
    /\ UNCHANGED <<setting, clock, rows, lock, files, pushed, seen, spent, fired>>

-----------------------------------------------------------------------------
(* Specification *)

\* What a process does once it has started something.
Work(p) ==
    \/ TickDone(p) \/ ShouldFire(p) \/ SelectPeriods(p)
    \/ ListKeys(p) \/ ListFails(p) \/ ReadProcessed(p) \/ InferenceRaises(p)
    \/ InsertAttempt(p) \/ InsertFails(p) \/ Acquire(p) \/ Conflict(p)
    \/ Finish(p) \/ Raise(p) \/ Return(p) \/ Dispatched(p)
    \/ Put(p) \/ PutFails(p)

Next ==
    \/ Advance
    \/ \E p \in Processes :
          \/ Tick(p) \/ Work(p) \/ Crash(p) \/ Restart(p)
          \/ Push(p) \/ Upload(p)

Spec == Init /\ [][Next]_vars

\* The daemons tick for ever and are restarted when they die; time goes on.
\* Nothing makes a client send a request.
Fairness ==
    /\ WF_vars(Advance)
    /\ \A p \in Processes : WF_vars(Tick(p)) /\ WF_vars(Work(p)) /\ WF_vars(Restart(p))

FairSpec == Spec /\ Fairness

-----------------------------------------------------------------------------
(* Properties *)

\* scheduler.py: a restart never double-fires a window that already ran, nor
\* replays a missed one.  One scheduler loads a period at most once in a
\* window, whatever crashes, and never in the name of an earlier window.
NoDoubleFire ==
    \A b \in Cron : \A i, j \in Scheduled(b) :
        i < j => rows[i].period # rows[j].period \/ rows[i].window < rows[j].window

\* watcher.py: every cycle re-queries load_history for the processed set, so
\* restarts do not replay files.  One watcher fires a file once.
FileFiresOnce ==
    \A i, j \in DOMAIN rows :
        (i # j /\ rows[i].kind = "watch" /\ rows[j].kind = "watch")
            => rows[i].file # rows[j].file

\* The firing of window w covers its trailing periods, but for what a death or
\* a failed insert has taken from it.
Whole(b, w) ==
    \A p \in Trailing(Month(w), Lookback) :
        \E f \in fired : f.binding = b /\ f.of = w /\ f.period = p

\* A row of this firing counts as the window's attempt.
StandsFor(f, window) == f.row # 0 /\ rows[f.row].window = window

\* A lookback binding has each of its trailing periods loaded in the window in
\* which time stops, however often its scheduler dies, its loads raise or a
\* window passes unseen.  The firing that stands for the window is its own, or
\* that of an earlier window whose tick was still loading in this one; it is
\* whole either way, and short only of periods given up in it.
CronKeepsUp ==
    \A s \in Schedulers, b \in Cron :
        (s \in setting.runs /\ Strategy[b] = "lookback")
            => <>(/\ \E f \in fired : f.binding = b /\ StandsFor(f, setting.last)
                  /\ \A f \in fired : f.binding = b /\ StandsFor(f, setting.last) => Whole(b, f.of))

Fired(f) == \E i \in DOMAIN rows : rows[i].kind = "watch" /\ rows[i].file = f

\* A file whose period can be inferred is fired in the end, unless another one
\* turns up that ends every tick.
EachFileFires ==
    \A f \in Files \ (Unmatched \union Broken) :
        (f \in files /\ Watchers \intersect setting.runs # {})
            ~> Fired(f) \/ files \intersect Broken # {}

\* Whatever starts loads gets to them.
TriggersKeepUp == CronKeepsUp /\ EachFileFires
=============================================================================
