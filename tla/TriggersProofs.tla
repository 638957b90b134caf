---------------------------- MODULE TriggersProofs ----------------------------
(***************************************************************************)
(* What starts loads starts each of them once, in every deployment that    *)
(* runs one scheduler and one watcher.                                     *)
(***************************************************************************)
EXTENDS Triggers, SequenceTheorems, TLAPS

-----------------------------------------------------------------------------
(* The inductive invariants.                                               *)

Orders == [period : Int, file : Files \union {"none"}]
Row == [binding : Bindings, period : Int, file : Files \union {"none"},
        kind : {"schedule", "watch", "push"}, by : Processes, window : Nat,
        status : {"running", "success", "failed"}]

\* Where a process is from the time it has its orders.
Loading == {"dispatch", "lock", "load", "return"}

\* What holds of one process, whatever the others do.
Local(p) ==
    LET c == proc[p] IN
    /\ DOMAIN c = DOMAIN Idle
    /\ c.now \in Nat /\ c.now <= clock /\ c.todo \subseteq Orders
    /\ c.at \notin {"idle", "down"} => p \in setting.runs
    /\ p \in Schedulers =>
         /\ c.left \subseteq Cron /\ c.at \notin {"listed", "put"}
         /\ c.at \in Loading \union {"select"} => c.binding \in Cron
         /\ c.at \in Loading => \A o \in c.todo : o.file = "none"
    /\ p \in Watchers =>
         /\ c.left \subseteq Watched /\ c.at \notin {"select", "put"}
         /\ c.at \in Loading \union {"listed"} =>
              /\ c.binding \in Watched
              /\ \A o \in c.todo : /\ o.file \in Files /\ FileBinding[o.file] = c.binding
                                   /\ o.period = FilePeriod[o.file]
    /\ p \in Servers =>
         /\ c.at \notin {"inspect", "select", "listed"}
         /\ c.at \in Loading => c.binding \in Bindings
         /\ c.at = "put" => \A o \in c.todo : o.file \in Files

TypeInv ==
    /\ setting \in Settings /\ clock \in Nat /\ rows \in Seq(Row) /\ files \subseteq Files
    /\ DOMAIN proc = Processes /\ \A p \in Processes : Local(p)

\* What a scheduler is about to load is due: a row of its binding is of an
\* earlier window, or of a period that it has loaded in this tick.
StillDue(s) ==
    LET c == proc[s]
    IN c.at \in Loading \union {"select"} =>
         \A i \in Scheduled(c.binding) :
            \/ rows[i].window < c.now
            \/ c.at # "select" /\ \A o \in c.todo : o.period # rows[i].period

\* What a watcher is about to fire has not been fired.
StillNew(w) ==
    proc[w].at \in Loading =>
        \A o \in proc[w].todo : \A i \in DOMAIN rows : rows[i].kind = "watch" => rows[i].file # o.file

\* The row of a fired file names the file's binding.
FiredHere ==
    \A i \in DOMAIN rows :
        rows[i].kind = "watch" => rows[i].file \in Files /\ rows[i].binding = FileBinding[rows[i].file]

ScheduleInv == NoDoubleFire /\ \A s \in Schedulers : StillDue(s)
WatchInv == FileFiresOnce /\ FiredHere /\ \A w \in Watchers : StillNew(w)

\* At most one process of a kind runs in a deployment.
OneOf(Kinds) == \A d \in Settings : \A p, q \in d.runs \intersect Kinds : p = q

-----------------------------------------------------------------------------
(* One process moves.                                                      *)

\* A step of one process leaves the others where they are.
Moves(p) == DOMAIN proc' = Processes /\ \A q \in Processes \ {p} : proc'[q] = proc[q]

\* The rows are the same, up to their status.
Kept ==
    /\ DOMAIN rows' = DOMAIN rows
    /\ \A i \in DOMAIN rows :
         /\ rows'[i].kind = rows[i].kind /\ rows'[i].binding = rows[i].binding
         /\ rows'[i].period = rows[i].period /\ rows'[i].file = rows[i].file
         /\ rows'[i].window = rows[i].window

LEMMA RowsKept ==
    ASSUME TypeInv, rows' = rows \/ \E k, s : /\ s \in {"success", "failed"}
                                              /\ rows' = [rows EXCEPT ![k].status = s]
    PROVE  Kept /\ rows' \in Seq(Row)
<1>1. rows \in Seq(Row)
  BY DEF TypeInv
<1>2. DOMAIN rows = 1 .. Len(rows) /\ Len(rows) \in Nat /\ \A i \in DOMAIN rows : rows[i] \in Row
  BY <1>1
<1>3. CASE rows' = rows
  BY <1>1, <1>3 DEF Kept
<1>4. ASSUME NEW k, NEW s \in {"success", "failed"}, rows' = [rows EXCEPT ![k].status = s]
      PROVE  Kept /\ rows' \in Seq(Row)
  <2>1. DOMAIN rows' = DOMAIN rows /\ \A i \in DOMAIN rows : i # k => rows'[i] = rows[i]
    BY <1>4
  <2>2. ASSUME k \in DOMAIN rows
        PROVE  /\ rows'[k] \in Row /\ rows'[k].kind = rows[k].kind /\ rows'[k].binding = rows[k].binding
               /\ rows'[k].period = rows[k].period /\ rows'[k].file = rows[k].file
               /\ rows'[k].window = rows[k].window
    <3>1. rows'[k] = [rows[k] EXCEPT !.status = s] /\ rows[k] \in Row
      BY <1>2, <1>4, <2>2
    <3> QED
      BY <3>1 DEF Row
  <2>3. \A i \in DOMAIN rows : rows'[i] \in Row
    BY <1>2, <2>1, <2>2
  <2>4. rows' \in [1 .. Len(rows) -> Row]
    BY <1>2, <1>4, <2>1, <2>3
  <2>5. rows' \in Seq(Row)
    BY <1>2, <2>4, SeqDef
  <2> QED
    BY <2>1, <2>2, <2>5 DEF Kept
<1> QED
  BY <1>3, <1>4

\* What a step of one process must show.
LEMMA TypeMoves ==
    ASSUME TypeInv, NEW p \in Processes, Moves(p), setting' = setting, clock' = clock,
           rows' \in Seq(Row), files' \subseteq Files, Local(p)'
    PROVE  TypeInv'
<1>1. ASSUME NEW q \in Processes \ {p} PROVE Local(q)'
  BY <1>1 DEF TypeInv, Local, Moves
<1> QED
  BY <1>1 DEF TypeInv, Moves

LEMMA ScheduleMoves ==
    ASSUME TypeInv, ScheduleInv, NEW p \in Processes, Moves(p), Kept, p \in Schedulers => StillDue(p)'
    PROVE  ScheduleInv'
<1>1. \A b : Scheduled(b)' = Scheduled(b)
  BY DEF Kept, Scheduled
<1>2. NoDoubleFire'
  <2> SUFFICES ASSUME NEW b \in Cron, NEW i \in Scheduled(b)', NEW j \in Scheduled(b)', i < j
               PROVE  rows'[i].period # rows'[j].period \/ rows'[i].window < rows'[j].window
    BY DEF NoDoubleFire
  <2>1. i \in Scheduled(b) /\ j \in Scheduled(b) /\ i \in DOMAIN rows /\ j \in DOMAIN rows
    BY <1>1 DEF Scheduled
  <2> QED
    BY <2>1 DEF Kept, ScheduleInv, NoDoubleFire
<1>3. ASSUME NEW s \in Schedulers \ {p} PROVE StillDue(s)'
  <2>1. proc'[s] = proc[s] /\ StillDue(s)
    BY DEF Moves, Processes, ScheduleInv
  <2>2. \A b : \A i \in Scheduled(b) : rows'[i].window = rows[i].window /\ rows'[i].period = rows[i].period
    BY DEF Kept, Scheduled
  <2> QED
    BY <1>1, <2>1, <2>2 DEF StillDue
<1> QED
  BY <1>2, <1>3 DEF ScheduleInv

LEMMA WatchMoves ==
    ASSUME TypeInv, WatchInv, NEW p \in Processes, Moves(p), Kept, p \in Watchers => StillNew(p)'
    PROVE  WatchInv'
<1>1. FileFiresOnce' /\ FiredHere'
  BY DEF Kept, WatchInv, FileFiresOnce, FiredHere
<1>2. ASSUME NEW w \in Watchers \ {p} PROVE StillNew(w)'
  <2>1. proc'[w] = proc[w] /\ StillNew(w)
    BY DEF Moves, Processes, WatchInv
  <2> QED
    BY <2>1 DEF Kept, StillNew
<1> QED
  BY <1>1, <1>2 DEF WatchInv

\* A step that leaves time and the deployment alone, and of the rows changes at
\* most a status.
Still == setting' = setting /\ clock' = clock /\ (rows' = rows \/ \E k, s :
            s \in {"success", "failed"} /\ rows' = [rows EXCEPT ![k].status = s])

\* Where a step leaves its process: at rest, back at its list of bindings, or
\* further along with what it had to do, or less.
Good(p) ==
    /\ Moves(p) /\ Local(p)'
    /\ p \in Schedulers /\ StillDue(p) => StillDue(p)'
    /\ p \in Watchers /\ FiredHere /\ StillNew(p) => StillNew(p)'

LEMMA ToRest ==
    ASSUME TypeInv, NEW p \in Processes, setting' = setting, clock' = clock,
           NEW c, c = Idle \/ c = [Idle EXCEPT !.at = "down"], proc' = [proc EXCEPT ![p] = c]
    PROVE  Good(p)
<1>1. Moves(p) /\ proc'[p] = c
  BY DEF TypeInv, Moves
<1>2. /\ DOMAIN c = DOMAIN Idle /\ c.at \in {"idle", "down"} /\ c.now = 0 /\ c.left = {} /\ c.todo = {}
      /\ c.at \notin Loading \union {"select", "listed", "put", "inspect"}
  BY DEF Idle, Loading
<1>3. Local(p)'
  BY <1>1, <1>2 DEF Local, TypeInv
<1>4. StillDue(p)' /\ StillNew(p)'
  BY <1>1, <1>2 DEF StillDue, StillNew
<1> QED
  BY <1>1, <1>3, <1>4 DEF Good

LEMMA ToInspect ==
    ASSUME TypeInv, NEW p \in Processes \ Servers, setting' = setting, clock' = clock, Moves(p),
           proc[p].at \notin {"idle", "down"}, DOMAIN proc'[p] = DOMAIN Idle, proc'[p].at = "inspect",
           proc'[p].left \subseteq proc[p].left, proc'[p].now = proc[p].now,
           proc'[p].todo \subseteq proc[p].todo
    PROVE  Good(p)
<1>1. "inspect" \notin Loading \union {"select", "listed", "put", "idle", "down"}
  BY DEF Loading
<1>2. Local(p)
  BY DEF TypeInv
<1>3. Local(p)'
  BY <1>1, <1>2 DEF Local
<1>4. StillDue(p)' /\ StillNew(p)'
  BY <1>1 DEF StillDue, StillNew
<1> QED
  BY <1>3, <1>4 DEF Good

LEMMA ToLoading ==
    ASSUME TypeInv, NEW p \in Processes, Still, Moves(p),
           proc[p].at \in Loading, DOMAIN proc'[p] = DOMAIN Idle, proc'[p].at \in Loading,
           proc'[p].left = proc[p].left, proc'[p].now = proc[p].now, proc'[p].binding = proc[p].binding,
           proc'[p].todo \subseteq proc[p].todo
    PROVE  Good(p)
<1>1. \A at \in Loading : at \notin {"select", "listed", "put", "idle", "down", "inspect"}
  BY DEF Loading
<1>2. Local(p) /\ Kept
  BY RowsKept DEF TypeInv, Still
<1>3. Local(p)'
  BY <1>1, <1>2 DEF Local, Still
<1>4. ASSUME StillDue(p) PROVE StillDue(p)'
  <2>1. \A b : Scheduled(b)' = Scheduled(b)
    BY <1>2 DEF Kept, Scheduled
  <2>2. \A b : \A i \in Scheduled(b) : rows'[i].window = rows[i].window /\ rows'[i].period = rows[i].period
    BY <1>2 DEF Kept, Scheduled
  <2> QED
    BY <1>1, <1>4, <2>1, <2>2 DEF StillDue
<1>5. ASSUME StillNew(p) PROVE StillNew(p)'
  BY <1>2, <1>5 DEF StillNew, Kept
<1> QED
  BY <1>3, <1>4, <1>5 DEF Good

-----------------------------------------------------------------------------
(* The steps of a process, one by one.                                     *)

LEMMA KindsApart ==
    ASSUME NEW p \in Processes
    PROVE  /\ p \in Schedulers => p \notin Watchers /\ p \notin Servers
           /\ p \in Watchers => p \notin Schedulers /\ p \notin Servers
           /\ p \in Servers => p \notin Schedulers /\ p \notin Watchers
BY ProcessesAssumption DEF Processes

LEMMA TickSteps ==
    ASSUME TypeInv, NEW p \in Processes, Tick(p)
    PROVE  Still /\ Good(p)
<1>1. Still
  BY DEF Tick, Still
<1> DEFINE c == [Idle EXCEPT !.at = "inspect", !.now = IF p \in Schedulers THEN clock ELSE 0,
                             !.left = IF p \in Schedulers THEN Cron ELSE Watched]
<1>2. Moves(p) /\ proc'[p] = c /\ p \in setting.runs /\ p \notin Servers
  BY DEF TypeInv, Moves, Tick
<1>3. /\ DOMAIN c = DOMAIN Idle /\ c.at = "inspect" /\ c.now = (IF p \in Schedulers THEN clock ELSE 0)
      /\ c.left = (IF p \in Schedulers THEN Cron ELSE Watched) /\ c.todo = {}
  BY DEF Idle
<1>4. "inspect" \notin Loading \union {"select", "listed", "put", "idle", "down"}
  BY DEF Loading
<1>5. Local(p)'
  BY <1>1, <1>2, <1>3, <1>4, KindsApart DEF Local, TypeInv, Still
<1>6. StillDue(p)' /\ StillNew(p)'
  BY <1>2, <1>3, <1>4 DEF StillDue, StillNew
<1> QED
  BY <1>1, <1>2, <1>5, <1>6 DEF Good

LEMMA RestSteps ==
    ASSUME TypeInv, NEW p \in Processes,
           TickDone(p) \/ InferenceRaises(p) \/ Put(p) \/ PutFails(p) \/ Crash(p)
    PROVE  Still /\ Good(p)
<1>1. Still /\ \E c \in {Idle, [Idle EXCEPT !.at = "down"]} : proc' = [proc EXCEPT ![p] = c]
  BY DEF TickDone, InferenceRaises, Put, PutFails, Crash, Still
<1> QED
  BY <1>1, ToRest DEF Still

LEMMA RestartSteps ==
    ASSUME TypeInv, NEW p \in Processes, Restart(p)
    PROVE  Still /\ Good(p)
<1>1. Still /\ proc' = [proc EXCEPT ![p].at = "idle"] /\ Local(p)
  BY DEF Restart, Become, Still, TypeInv
<1>2. /\ Moves(p) /\ DOMAIN proc'[p] = DOMAIN Idle /\ proc'[p].at = "idle" /\ proc'[p].now = proc[p].now
      /\ proc'[p].left = proc[p].left /\ proc'[p].todo = proc[p].todo
  BY <1>1 DEF TypeInv, Moves, Local, Idle
<1>3. "idle" \notin Loading \union {"select", "listed", "put", "inspect"}
  BY DEF Loading
<1>4. Local(p)'
  BY <1>1, <1>2, <1>3 DEF Local, Still
<1> QED
  BY <1>1, <1>2, <1>3, <1>4 DEF Good, StillDue, StillNew

LEMMA OnwardSteps ==
    ASSUME TypeInv, NEW p \in Processes,
           Acquire(p) \/ Conflict(p) \/ Finish(p) \/ (Return(p) /\ p \notin Servers)
    PROVE  Still /\ Good(p)
<1>1. Still
  BY DEF Acquire, Conflict, Finish, Return, Still
<1>2. /\ proc[p].at \in Loading
      /\ \/ \E at \in Loading : proc' = [proc EXCEPT ![p].at = at]
         \/ proc' = [proc EXCEPT ![p].at = "dispatch", ![p].row = 0]
  BY DEF Acquire, Conflict, Finish, Return, Become, Loading
<1>3. DOMAIN proc[p] = DOMAIN Idle /\ DOMAIN proc = Processes
  BY DEF TypeInv, Local
<1>4. /\ Moves(p) /\ DOMAIN proc'[p] = DOMAIN Idle /\ proc'[p].at \in Loading
      /\ proc'[p].left = proc[p].left /\ proc'[p].now = proc[p].now
      /\ proc'[p].binding = proc[p].binding /\ proc'[p].todo = proc[p].todo
  <2>1. CASE \E at \in Loading : proc' = [proc EXCEPT ![p].at = at]
    BY <1>3, <2>1 DEF Moves, Idle
  <2>2. CASE proc' = [proc EXCEPT ![p].at = "dispatch", ![p].row = 0]
    <3>1. "dispatch" \in Loading
      BY DEF Loading
    <3>2. proc' = [proc EXCEPT ![p] = [proc[p] EXCEPT !.at = "dispatch", !.row = 0]]
      BY <1>3, <2>2
    <3> QED
      BY <1>3, <3>1, <3>2 DEF Moves, Idle
  <2> QED
    BY <1>2, <2>1, <2>2
<1> QED
  BY <1>1, <1>2, <1>4, ToLoading

LEMMA ServedSteps ==
    ASSUME TypeInv, NEW p \in Servers, Return(p)
    PROVE  Still /\ Good(p)
<1>1. Still /\ proc' = [proc EXCEPT ![p] = Idle] /\ p \in Processes
  BY DEF Return, Still, Processes
<1> QED
  BY <1>1, ToRest DEF Still

LEMMA FailedSteps ==
    ASSUME TypeInv, NEW p \in Processes, InsertFails(p) \/ Raise(p)
    PROVE  Still /\ Good(p)
<1>1. Still /\ proc[p].at \in Loading
  BY DEF InsertFails, Raise, Still, Loading
<1>2. CASE p \notin Schedulers
  <2>1. proc' = [proc EXCEPT ![p] = Idle]
    BY <1>2 DEF InsertFails, Raise, Thrown
  <2> QED
    BY <1>1, <2>1, ToRest DEF Still
<1>3. CASE p \in Schedulers
  <2>1. DOMAIN proc[p] = DOMAIN Idle /\ DOMAIN proc = Processes
    BY DEF TypeInv, Local
  <2>2. \/ \E o : proc' = [proc EXCEPT ![p] = [proc[p] EXCEPT !.todo = proc[p].todo \ {o}]]
        \/ proc' = [proc EXCEPT ![p] = [proc[p] EXCEPT !.at = "dispatch", !.row = 0]]
    <3>1. CASE InsertFails(p)
      <4>1. PICK o \in NextOrders(p) :
              proc' = [proc EXCEPT ![p] = IF p \in Schedulers THEN [proc[p] EXCEPT !.todo = @ \ {o}] ELSE Idle]
        BY <3>1, Zenon DEF InsertFails
      <4>2. proc' = [proc EXCEPT ![p] = [proc[p] EXCEPT !.todo = proc[p].todo \ {o}]]
        BY <1>3, <2>1, <4>1
      <4> QED
        BY <4>2
    <3>2. CASE Raise(p)
      BY <1>3, <2>1, <3>2 DEF Raise, Thrown
    <3> QED
      BY <3>1, <3>2
  <2>3. "dispatch" \in Loading
    BY DEF Loading
  <2>4. /\ Moves(p) /\ DOMAIN proc'[p] = DOMAIN Idle /\ proc'[p].at \in Loading
        /\ proc'[p].left = proc[p].left /\ proc'[p].now = proc[p].now
        /\ proc'[p].binding = proc[p].binding /\ proc'[p].todo \subseteq proc[p].todo
    <3>1. CASE \E o : proc' = [proc EXCEPT ![p] = [proc[p] EXCEPT !.todo = proc[p].todo \ {o}]]
      BY <1>1, <2>1, <3>1 DEF Moves, Idle
    <3>2. CASE proc' = [proc EXCEPT ![p] = [proc[p] EXCEPT !.at = "dispatch", !.row = 0]]
      BY <2>1, <2>3, <3>2 DEF Moves, Idle
    <3> QED
      BY <2>2, <3>1, <3>2
  <2> QED
    BY <1>1, <2>4, ToLoading
<1> QED
  BY <1>2, <1>3

LEMMA DispatchedSteps ==
    ASSUME TypeInv, NEW p \in Processes, Dispatched(p)
    PROVE  Still /\ Good(p)
<1>1. /\ Still /\ p \notin Servers /\ proc[p].at = "dispatch"
      /\ proc' = [proc EXCEPT ![p].at = "inspect"]
  BY DEF Dispatched, Become, Still
<1>2. DOMAIN proc[p] = DOMAIN Idle /\ DOMAIN proc = Processes
  BY DEF TypeInv, Local
<1>3. /\ Moves(p) /\ DOMAIN proc'[p] = DOMAIN Idle /\ proc'[p].at = "inspect"
      /\ proc'[p].left = proc[p].left /\ proc'[p].now = proc[p].now /\ proc'[p].todo = proc[p].todo
  BY <1>1, <1>2 DEF Moves, Idle
<1> QED
  BY <1>1, <1>3, ToInspect DEF Still

LEMMA ListFailsSteps ==
    ASSUME TypeInv, NEW p \in Processes, ListFails(p)
    PROVE  Still /\ Good(p)
<1>1. Still /\ p \in Watchers /\ p \notin Servers /\ proc[p].at = "inspect"
  BY KindsApart DEF ListFails, Still
<1>2. PICK b \in proc[p].left : proc' = [proc EXCEPT ![p].left = @ \ {b}]
  BY DEF ListFails
<1>3. DOMAIN proc[p] = DOMAIN Idle /\ DOMAIN proc = Processes
  BY DEF TypeInv, Local
<1>4. /\ Moves(p) /\ DOMAIN proc'[p] = DOMAIN Idle /\ proc'[p].at = "inspect"
      /\ proc'[p].left \subseteq proc[p].left /\ proc'[p].now = proc[p].now /\ proc'[p].todo = proc[p].todo
  BY <1>1, <1>2, <1>3 DEF Moves, Idle
<1> QED
  BY <1>1, <1>4, ToInspect DEF Still

\* A binding that is found due stays due until its scheduler loads it.
LEMMA ShouldFireSteps ==
    ASSUME TypeInv, NEW p \in Processes, ShouldFire(p)
    PROVE  Still /\ Good(p)
<1>1. Still /\ p \in Schedulers /\ p \notin Servers /\ p \notin Watchers /\ proc[p].at = "inspect"
  BY KindsApart DEF ShouldFire, Still
<1>2. PICK b \in proc[p].left :
        proc' = [proc EXCEPT ![p].left = @ \ {b}, ![p].binding = b,
                             ![p].at = IF Due(b, proc[p].now) THEN "select" ELSE "inspect"]
  BY DEF ShouldFire
<1> DEFINE at == IF Due(b, proc[p].now) THEN "select" ELSE "inspect"
<1>3. DOMAIN proc[p] = DOMAIN Idle /\ DOMAIN proc = Processes /\ Local(p)
  BY DEF TypeInv, Local
<1>4. /\ Moves(p) /\ DOMAIN proc'[p] = DOMAIN Idle /\ proc'[p].at = at /\ proc'[p].binding = b
      /\ proc'[p].left = proc[p].left \ {b} /\ proc'[p].now = proc[p].now /\ proc'[p].todo = proc[p].todo
  <2>1. proc' = [proc EXCEPT ![p] = [proc[p] EXCEPT !.left = proc[p].left \ {b}, !.binding = b, !.at = at]]
    BY <1>2, <1>3
  <2> HIDE DEF at
  <2> QED
    BY <1>3, <2>1 DEF Moves, Idle
<1>5. CASE ~Due(b, proc[p].now)
  BY <1>1, <1>4, <1>5, ToInspect DEF Still
<1>6. CASE Due(b, proc[p].now)
  <2>1. at = "select" /\ at \notin Loading
    BY <1>6 DEF Loading
  <2>2. b \in Cron
    BY <1>1, <1>3 DEF Local
  <2>3. Local(p)'
    BY <1>1, <1>3, <1>4, <2>1, <2>2 DEF Local, Still
  <2>4. StillDue(p)'
    <3>1. rows' = rows
      BY DEF ShouldFire
    <3>2. Scheduled(b)' = Scheduled(b)
      BY <3>1 DEF Scheduled
    <3> QED
      BY <1>4, <1>6, <3>1, <3>2 DEF StillDue, Due
  <2> QED
    BY <1>1, <1>4, <2>3, <2>4 DEF Good
<1> QED
  BY <1>1, <1>5, <1>6

LEMMA SelectSteps ==
    ASSUME TypeInv, NEW p \in Processes, SelectPeriods(p)
    PROVE  Still /\ Good(p)
<1>1. Still /\ proc[p].at = "select"
  BY DEF SelectPeriods, Still
<1>2. p \in Schedulers /\ p \notin Servers /\ p \notin Watchers
  BY <1>1, KindsApart DEF TypeInv, Local, Processes
<1>3. DOMAIN proc[p] = DOMAIN Idle /\ DOMAIN proc = Processes /\ Local(p)
  BY DEF TypeInv, Local
<1> DEFINE b == proc[p].binding
           raises == Strategy[b] = "watermark" /\ ~IsCalendar(Latest(b))
           orders == IF raises THEN {} ELSE {Order(d, "none") : d \in Selected(b, proc[p].now)}
           at == IF raises THEN "inspect" ELSE "dispatch"
<1>4. /\ Moves(p) /\ DOMAIN proc'[p] = DOMAIN Idle /\ proc'[p].at = at /\ proc'[p].binding = b
      /\ proc'[p].left = proc[p].left /\ proc'[p].now = proc[p].now /\ proc'[p].todo = orders
  <2>1. proc' = [proc EXCEPT ![p] = [proc[p] EXCEPT !.at = at, !.todo = orders]]
    BY <1>3 DEF SelectPeriods
  <2> HIDE DEF at, orders
  <2> QED
    BY <1>3, <2>1 DEF Moves, Idle
<1>5. CASE raises
  <2>1. at = "inspect" /\ orders = {}
    BY <1>5
  <2> QED
    BY <1>1, <1>2, <1>4, <2>1, ToInspect DEF Still
<1>6. CASE ~raises
  <2>1. at = "dispatch" /\ at \in Loading
    BY <1>6 DEF Loading
  <2>2. \A o \in orders : o \in Orders /\ o.file = "none"
    <3>1. \A d \in Selected(b, proc[p].now) : d \in Int
      BY DEF Selected, Trailing, Calendar
    <3> QED
      BY <1>6, <3>1 DEF Order, Orders
  <2> HIDE DEF orders, at
  <2>3. Local(p)'
    BY <1>1, <1>2, <1>3, <1>4, <2>1, <2>2 DEF Local, Still
  <2>4. ASSUME StillDue(p) PROVE StillDue(p)'
    <3>1. rows' = rows
      BY DEF SelectPeriods
    <3>2. Scheduled(b)' = Scheduled(b)
      BY <1>4, <3>1 DEF Scheduled
    <3>3. \A i \in Scheduled(b) : rows[i].window < proc[p].now
      BY <1>1, <2>4 DEF StillDue
    <3> QED
      BY <1>4, <3>1, <3>2, <3>3 DEF StillDue
  <2> QED
    BY <1>1, <1>2, <1>4, <2>3, <2>4 DEF Good
<1> QED
  BY <1>1, <1>5, <1>6

\* What the watcher lists is the binding's.
LEMMA ListKeysSteps ==
    ASSUME TypeInv, NEW p \in Processes, ListKeys(p)
    PROVE  Still /\ Good(p)
<1>1. Still /\ p \in Watchers /\ p \notin Servers /\ p \notin Schedulers /\ proc[p].at = "inspect"
  BY KindsApart DEF ListKeys, Still
<1>2. PICK b \in proc[p].left :
        proc' = [proc EXCEPT ![p].left = @ \ {b}, ![p].binding = b, ![p].at = "listed",
                             ![p].todo = {Order(FilePeriod[f], f) : f \in {g \in files : FileBinding[g] = b}}]
  BY DEF ListKeys
<1> DEFINE orders == {Order(FilePeriod[f], f) : f \in {g \in files : FileBinding[g] = b}}
<1>3. DOMAIN proc[p] = DOMAIN Idle /\ DOMAIN proc = Processes /\ Local(p)
  BY DEF TypeInv, Local
<1>4. /\ Moves(p) /\ DOMAIN proc'[p] = DOMAIN Idle /\ proc'[p].at = "listed" /\ proc'[p].binding = b
      /\ proc'[p].left = proc[p].left \ {b} /\ proc'[p].now = proc[p].now /\ proc'[p].todo = orders
  <2>1. proc' = [proc EXCEPT ![p] = [proc[p] EXCEPT !.left = proc[p].left \ {b}, !.binding = b,
                                                    !.at = "listed", !.todo = orders]]
    BY <1>2, <1>3
  <2> HIDE DEF orders
  <2> QED
    BY <1>3, <2>1 DEF Moves, Idle
<1>5. \A o \in orders : /\ o \in Orders /\ o.file \in Files /\ FileBinding[o.file] = b
                        /\ o.period = FilePeriod[o.file]
  <2>1. files \subseteq Files
    BY DEF TypeInv
  <2> SUFFICES ASSUME NEW f \in files, FileBinding[f] = b
               PROVE  LET o == Order(FilePeriod[f], f)
                      IN o \in Orders /\ o.file = f /\ o.period = FilePeriod[f]
    BY <2>1
  <2>2. f \in Files /\ FilePeriod[f] \in Int
    BY <2>1, FilesAssumption
  <2> QED
    BY <2>2 DEF Order, Orders
<1> HIDE DEF orders
<1>6. "listed" \notin Loading \union {"select", "put", "idle", "down", "inspect"}
  BY DEF Loading
<1>7. b \in Watched
  BY <1>1, <1>3 DEF Local
<1>8. Local(p)'
  BY <1>1, <1>3, <1>4, <1>5, <1>6, <1>7 DEF Local, Still
<1> QED
  BY <1>1, <1>4, <1>6, <1>8 DEF Good, StillDue, StillNew

\* What is left of a listing has no row.
LEMMA ReadProcessedSteps ==
    ASSUME TypeInv, NEW p \in Processes, ReadProcessed(p)
    PROVE  Still /\ Good(p)
<1>1. Still /\ proc[p].at = "listed" /\ rows' = rows
  BY DEF ReadProcessed, Still
<1>2. p \in Watchers /\ p \notin Servers /\ p \notin Schedulers
  BY <1>1, KindsApart DEF TypeInv, Local, Processes
<1>3. DOMAIN proc[p] = DOMAIN Idle /\ DOMAIN proc = Processes /\ Local(p)
  BY DEF TypeInv, Local
<1> DEFINE b == proc[p].binding
           orders == {o \in proc[p].todo : o.file \notin Processed(b) \union Unmatched}
<1>4. /\ Moves(p) /\ DOMAIN proc'[p] = DOMAIN Idle /\ proc'[p].at = "dispatch" /\ proc'[p].binding = b
      /\ proc'[p].left = proc[p].left /\ proc'[p].now = proc[p].now /\ proc'[p].todo = orders
  <2>1. proc' = [proc EXCEPT ![p] = [proc[p] EXCEPT !.at = "dispatch", !.todo = orders]]
    BY <1>3 DEF ReadProcessed
  <2> HIDE DEF orders
  <2> QED
    BY <1>3, <2>1 DEF Moves, Idle
<1>5. /\ "dispatch" \in Loading /\ "dispatch" \notin {"select", "listed", "put", "idle", "down", "inspect"}
  BY DEF Loading
<1>6. Local(p)'
  <2>1. orders \subseteq proc[p].todo
    OBVIOUS
  <2> HIDE DEF orders
  <2> QED
    BY <1>1, <1>2, <1>3, <1>4, <1>5, <2>1 DEF Local, Still
<1>7. ASSUME FiredHere PROVE StillNew(p)'
  <2> SUFFICES ASSUME NEW o \in orders, NEW i \in DOMAIN rows, rows[i].kind = "watch", rows[i].file = o.file
               PROVE  FALSE
    BY <1>1, <1>4 DEF StillNew
  <2>1. FileBinding[o.file] = b
    BY <1>1, <1>2, <1>3 DEF Local
  <2>2. rows[i].binding = b
    BY <1>7, <2>1 DEF FiredHere
  <2>3. rows[i].file \in Processed(b)
    BY <2>2 DEF Processed
  <2> QED
    BY <2>3
<1> QED
  BY <1>1, <1>2, <1>4, <1>6, <1>7 DEF Good

LEMMA RequestSteps ==
    ASSUME TypeInv, NEW p \in Processes, Push(p) \/ Upload(p)
    PROVE  Still /\ Good(p)
<1>1. Still /\ rows' = rows /\ p \in Servers /\ p \in setting.runs /\ p \notin Schedulers /\ p \notin Watchers
  BY KindsApart DEF Push, Upload, Still
<1>2. DOMAIN proc[p] = DOMAIN Idle /\ DOMAIN proc = Processes /\ Local(p)
  BY DEF TypeInv, Local
<1>3. CASE Push(p)
  <2>1. PICK q \in setting.clients :
          proc' = [proc EXCEPT ![p].at = "dispatch", ![p].binding = q.binding,
                               ![p].todo = {Order(q.period, "none")}]
    BY <1>3 DEF Push
  <2>2. q.binding \in Bindings /\ q.period \in Int
    BY SettingsAssumption, RequestsAssumption DEF TypeInv
  <2>3. Order(q.period, "none") \in Orders
    BY <2>2 DEF Order, Orders
  <2>4. /\ Moves(p) /\ DOMAIN proc'[p] = DOMAIN Idle /\ proc'[p].at = "dispatch"
        /\ proc'[p].binding = q.binding /\ proc'[p].left = proc[p].left /\ proc'[p].now = proc[p].now
        /\ proc'[p].todo = {Order(q.period, "none")}
    <3>1. proc' = [proc EXCEPT ![p] = [proc[p] EXCEPT !.at = "dispatch", !.binding = q.binding,
                                                      !.todo = {Order(q.period, "none")}]]
      BY <1>2, <2>1
    <3> QED
      BY <1>2, <3>1 DEF Moves, Idle
  <2>5. "dispatch" \notin {"select", "listed", "put", "inspect"}
    OBVIOUS
  <2>6. Local(p)'
    BY <1>1, <1>2, <2>2, <2>3, <2>4, <2>5 DEF Local, Still
  <2> QED
    BY <1>1, <2>4, <2>6 DEF Good
<1>4. CASE Upload(p)
  <2>1. PICK f \in Files \ seen[p] :
          proc' = [proc EXCEPT ![p].at = "put", ![p].todo = {Order(FilePeriod[f], f)}]
    BY <1>4 DEF Upload
  <2>2. Order(FilePeriod[f], f) \in Orders /\ Order(FilePeriod[f], f).file \in Files
    BY FilesAssumption DEF Order, Orders
  <2>3. /\ Moves(p) /\ DOMAIN proc'[p] = DOMAIN Idle /\ proc'[p].at = "put"
        /\ proc'[p].left = proc[p].left /\ proc'[p].now = proc[p].now
        /\ proc'[p].todo = {Order(FilePeriod[f], f)}
    <3>1. proc' = [proc EXCEPT ![p] = [proc[p] EXCEPT !.at = "put", !.todo = {Order(FilePeriod[f], f)}]]
      BY <1>2, <2>1
    <3> QED
      BY <1>2, <3>1 DEF Moves, Idle
  <2>4. "put" \notin Loading \union {"select", "listed", "inspect"}
    BY DEF Loading
  <2>5. Local(p)'
    BY <1>1, <1>2, <2>2, <2>3, <2>4 DEF Local, Still
  <2> QED
    BY <1>1, <2>3, <2>5 DEF Good
<1> QED
  BY <1>1, <1>3, <1>4

\* Of the steps that insert no row.
LEMMA StillSteps ==
    ASSUME TypeInv, NEW p \in Processes, Tick(p) \/ Work(p) \/ Crash(p) \/ Restart(p) \/ Push(p) \/ Upload(p),
           ~InsertAttempt(p)
    PROVE  Still /\ Good(p) /\ files' \subseteq Files
<1>1. Still /\ Good(p)
  BY TickSteps, RestSteps, RestartSteps, OnwardSteps, ServedSteps, FailedSteps, DispatchedSteps,
     ListFailsSteps, ShouldFireSteps, SelectSteps, ListKeysSteps, ReadProcessedSteps, RequestSteps DEF Work
<1>2. CASE Put(p)
  <2>1. p \in Servers /\ proc[p].at = "put" /\ files' = files \union {o.file : o \in proc[p].todo}
    BY <1>2 DEF Put, TypeInv, Local, Processes
  <2>2. files \subseteq Files /\ \A o \in proc[p].todo : o.file \in Files
    BY <2>1 DEF TypeInv, Local
  <2> QED
    BY <1>1, <2>1, <2>2
<1>3. CASE ~Put(p)
  <2>1. files' = files
    BY <1>3 DEF Work, Tick, TickDone, ShouldFire, SelectPeriods, ListKeys, ListFails, ReadProcessed,
       InferenceRaises, InsertAttempt, InsertFails, Acquire, Conflict, Finish, Raise, Return, Dispatched,
       PutFails, Crash, Restart, Push, Upload
  <2> QED
    BY <1>1, <2>1 DEF TypeInv
<1> QED
  BY <1>2, <1>3

\* A row is inserted for one of the orders, which is struck off.
LEMMA InsertSteps ==
    ASSUME TypeInv, NEW p \in Processes, InsertAttempt(p)
    PROVE  \E o \in proc[p].todo, r \in Row :
             /\ rows' = Append(rows, r) /\ r.binding = proc[p].binding /\ r.period = o.period
             /\ r.file = o.file /\ r.kind = Kind(p) /\ r.window = clock
             /\ proc[p].at \in Loading /\ proc[p].at # "select"
             /\ Moves(p) /\ DOMAIN proc'[p] = DOMAIN Idle /\ proc'[p].at \in Loading
             /\ proc'[p].left = proc[p].left /\ proc'[p].now = proc[p].now
             /\ proc'[p].binding = proc[p].binding /\ proc'[p].todo = proc[p].todo \ {o}
             /\ Local(p)'
<1>1. PICK o \in NextOrders(p) :
        /\ rows' = Append(rows, [binding |-> proc[p].binding, period |-> o.period,
                                 file |-> o.file, kind |-> Kind(p), by |-> p,
                                 window |-> clock, status |-> "running"])
        /\ proc' = [proc EXCEPT ![p].todo = @ \ {o}, ![p].at = "lock", ![p].row = Len(rows) + 1]
  BY DEF InsertAttempt
<1> DEFINE r == [binding |-> proc[p].binding, period |-> o.period, file |-> o.file, kind |-> Kind(p),
                 by |-> p, window |-> clock, status |-> "running"]
<1>2. DOMAIN proc[p] = DOMAIN Idle /\ DOMAIN proc = Processes /\ Local(p)
  BY DEF TypeInv, Local
<1>3. /\ proc[p].at \in Loading /\ proc[p].at \notin {"select", "listed", "put", "idle", "down", "inspect"}
      /\ UNCHANGED <<setting, clock>>
  BY DEF InsertAttempt, Loading
<1>4. o \in proc[p].todo /\ o \in Orders
  BY <1>2 DEF NextOrders, Local
<1>5. proc[p].binding \in Bindings
  BY <1>2, <1>3 DEF Local, Bindings, Processes
<1>6. r \in Row
  <2>1. Kind(p) \in {"schedule", "watch", "push"}
    BY DEF Kind
  <2>2. clock \in Nat
    BY DEF TypeInv
  <2> QED
    BY <1>4, <1>5, <2>1, <2>2 DEF Row, Orders
<1>7. /\ Moves(p) /\ DOMAIN proc'[p] = DOMAIN Idle /\ proc'[p].at = "lock"
      /\ proc'[p].left = proc[p].left /\ proc'[p].now = proc[p].now
      /\ proc'[p].binding = proc[p].binding /\ proc'[p].todo = proc[p].todo \ {o}
  <2>1. proc' = [proc EXCEPT ![p] = [proc[p] EXCEPT !.todo = proc[p].todo \ {o}, !.at = "lock",
                                                    !.row = Len(rows) + 1]]
    BY <1>1, <1>2
  <2> QED
    BY <1>2, <2>1 DEF Moves, Idle
<1>8. "lock" \in Loading /\ "lock" \notin {"select", "listed", "put", "idle", "down", "inspect"}
  BY DEF Loading
<1>9. Local(p)'
  BY <1>2, <1>3, <1>7, <1>8 DEF Local
<1>10. rows' = Append(rows, r) /\ r.binding = proc[p].binding /\ r.period = o.period /\ r.file = o.file
       /\ r.kind = Kind(p) /\ r.window = clock
  BY <1>1
<1> HIDE DEF r
<1> QED
  BY <1>3, <1>4, <1>6, <1>7, <1>8, <1>9, <1>10

\* The rows after an insertion.
LEMMA Appended ==
    ASSUME TypeInv, NEW r \in Row, rows' = Append(rows, r)
    PROVE  /\ rows' \in Seq(Row) /\ DOMAIN rows = 1 .. Len(rows) /\ Len(rows) \in Nat
           /\ DOMAIN rows' = DOMAIN rows \union {Len(rows) + 1}
           /\ rows'[Len(rows) + 1] = r /\ \A i \in DOMAIN rows : rows'[i] = rows[i] /\ i < Len(rows) + 1
<1>1. rows \in Seq(Row)
  BY DEF TypeInv
<1>2. rows' \in Seq(Row) /\ Len(rows') = Len(rows) + 1 /\ rows'[Len(rows) + 1] = r
      /\ \A i \in 1 .. Len(rows) : rows'[i] = rows[i]
  BY <1>1, AppendProperties
<1>3. DOMAIN rows = 1 .. Len(rows) /\ DOMAIN rows' = 1 .. Len(rows') /\ Len(rows) \in Nat
  BY <1>1, <1>2, LenProperties
<1> QED
  BY <1>2, <1>3

\* Who has orders is the one process of its kind that runs.
LEMMA OnlyOne ==
    ASSUME TypeInv, NEW Kinds, OneOf(Kinds), NEW p \in Processes \intersect Kinds, NEW q \in Processes \intersect Kinds,
           proc[p].at \in Loading, proc[q].at \in Loading \union {"select"}
    PROVE  p = q
<1>1. p \in setting.runs /\ q \in setting.runs
  BY DEF TypeInv, Local, Loading
<1> QED
  BY <1>1 DEF OneOf, TypeInv

LEMMA ScheduleInsert ==
    ASSUME TypeInv, ScheduleInv, OneOf(Schedulers), NEW p \in Processes, InsertAttempt(p)
    PROVE  ScheduleInv'
<1>1. PICK o \in proc[p].todo, r \in Row :
             /\ rows' = Append(rows, r) /\ r.binding = proc[p].binding /\ r.period = o.period
             /\ r.file = o.file /\ r.kind = Kind(p) /\ r.window = clock
             /\ proc[p].at \in Loading /\ proc[p].at # "select"
             /\ Moves(p) /\ DOMAIN proc'[p] = DOMAIN Idle /\ proc'[p].at \in Loading
             /\ proc'[p].left = proc[p].left /\ proc'[p].now = proc[p].now
             /\ proc'[p].binding = proc[p].binding /\ proc'[p].todo = proc[p].todo \ {o}
             /\ Local(p)'
  BY InsertSteps
<1> DEFINE n == Len(rows) + 1
<1>2. /\ DOMAIN rows' = DOMAIN rows \union {n} /\ rows'[n] = r
      /\ \A i \in DOMAIN rows : rows'[i] = rows[i] /\ i < n
      /\ n \in Nat /\ DOMAIN rows \subseteq Nat
  BY <1>1, Appended
<1> HIDE DEF n
<1>3. CASE p \notin Schedulers
  <2>1. r.kind # "schedule"
    BY <1>1, <1>3 DEF Kind
  <2>2. \A b : Scheduled(b)' = Scheduled(b)
    BY <1>2, <2>1 DEF Scheduled
  <2>3. \A b : \A i \in Scheduled(b) : rows'[i] = rows[i]
    BY <1>2 DEF Scheduled
  <2>4. NoDoubleFire'
    BY <2>2, <2>3 DEF ScheduleInv, NoDoubleFire
  <2>5. ASSUME NEW s \in Schedulers PROVE StillDue(s)'
    <3>1. proc'[s] = proc[s] /\ StillDue(s)
      BY <1>1, <1>3 DEF Moves, Processes, ScheduleInv
    <3> QED
      BY <2>2, <2>3, <3>1 DEF StillDue
  <2> QED
    BY <2>4, <2>5 DEF ScheduleInv
<1>4. CASE p \in Schedulers
  <2>0. PICK b, now : b = proc[p].binding /\ now = proc[p].now
    OBVIOUS
  <2>1. r.kind = "schedule" /\ r.binding = b /\ b \in Cron /\ now <= clock /\ now \in Nat /\ clock \in Nat
    BY <1>1, <1>4, <2>0 DEF Kind, TypeInv, Local
  <2>2. \A i \in Scheduled(b) : rows[i].window < now \/ \A x \in proc[p].todo : x.period # rows[i].period
    BY <1>1, <1>4, <2>0 DEF ScheduleInv, StillDue
  <2>3. \A c : Scheduled(c)' = Scheduled(c) \union (IF c = b THEN {n} ELSE {})
    BY <1>2, <2>1 DEF Scheduled
  <2>4. \A c : \A i \in Scheduled(c) : rows'[i] = rows[i] /\ i < n /\ i \in Nat /\ rows[i] \in Row
    BY <1>2 DEF Scheduled, TypeInv
  <2>5. NoDoubleFire'
    <3> SUFFICES ASSUME NEW c \in Cron, NEW i \in Scheduled(c)', NEW j \in Scheduled(c)', i < j
                 PROVE  rows'[i].period # rows'[j].period \/ rows'[i].window < rows'[j].window
      BY DEF NoDoubleFire
    <3>1. CASE i \in Scheduled(c) /\ j \in Scheduled(c)
      BY <2>4, <3>1 DEF ScheduleInv, NoDoubleFire
    <3>2. CASE i \in Scheduled(c) /\ j = n /\ c = b
      <4>1. rows'[i] = rows[i] /\ rows'[j] = r /\ rows[i].window \in Nat
        BY <1>2, <2>4, <3>2 DEF Row
      <4>2. rows[i].window < now \/ rows[i].period # o.period
        BY <1>1, <2>2, <3>2
      <4> QED
        BY <1>1, <2>1, <4>1, <4>2
    <3>3. CASE i = n
      BY <1>2, <2>3, <2>4, <3>3
    <3> QED
      BY <2>3, <3>1, <3>2, <3>3
  <2>6. ASSUME NEW s \in Schedulers PROVE StillDue(s)'
    <3>1. CASE s = p
      <4> SUFFICES ASSUME NEW i \in Scheduled(b)', NEW x \in proc[p].todo \ {o}, rows'[i].period = x.period
                   PROVE  rows'[i].window < now
        BY <1>1, <2>0, <3>1 DEF StillDue, Loading
      <4>1. CASE i \in Scheduled(b)
        BY <2>2, <2>4, <4>1
      <4>2. CASE i = n
        <5>1. x.period = o.period
          BY <1>1, <1>2, <4>2
        <5>2. x.file = "none" /\ o.file = "none" /\ x \in Orders /\ o \in Orders
          BY <1>1, <1>4 DEF TypeInv, Local
        <5>3. x = o
          BY <5>1, <5>2 DEF Orders
        <5> QED
          BY <5>3
      <4> QED
        BY <2>3, <4>1, <4>2
    <3>2. CASE s # p
      <4>1. s \in Processes /\ proc'[s] = proc[s]
        BY <1>1, <3>2 DEF Moves, Processes
      <4>2. proc[s].at \notin Loading \union {"select"}
        BY <1>1, <1>4, <3>2, <4>1, OnlyOne
      <4> QED
        BY <4>1, <4>2 DEF StillDue
    <3> QED
      BY <3>1, <3>2
  <2> QED
    BY <2>5, <2>6 DEF ScheduleInv
<1> QED
  BY <1>3, <1>4

LEMMA WatchInsert ==
    ASSUME TypeInv, WatchInv, OneOf(Watchers), NEW p \in Processes, InsertAttempt(p)
    PROVE  WatchInv'
<1>1. PICK o \in proc[p].todo, r \in Row :
             /\ rows' = Append(rows, r) /\ r.binding = proc[p].binding /\ r.period = o.period
             /\ r.file = o.file /\ r.kind = Kind(p) /\ r.window = clock
             /\ proc[p].at \in Loading /\ proc[p].at # "select"
             /\ Moves(p) /\ DOMAIN proc'[p] = DOMAIN Idle /\ proc'[p].at \in Loading
             /\ proc'[p].left = proc[p].left /\ proc'[p].now = proc[p].now
             /\ proc'[p].binding = proc[p].binding /\ proc'[p].todo = proc[p].todo \ {o}
             /\ Local(p)'
  BY InsertSteps
<1> DEFINE n == Len(rows) + 1
<1>2. /\ DOMAIN rows' = DOMAIN rows \union {n} /\ rows'[n] = r
      /\ \A i \in DOMAIN rows : rows'[i] = rows[i] /\ i < n
  BY <1>1, Appended
<1> HIDE DEF n
<1>3. CASE p \notin Watchers
  <2>1. r.kind # "watch"
    BY <1>1, <1>3 DEF Kind
  <2>2. FileFiresOnce' /\ FiredHere'
    BY <1>2, <2>1 DEF WatchInv, FileFiresOnce, FiredHere
  <2>3. ASSUME NEW w \in Watchers PROVE StillNew(w)'
    <3>1. proc'[w] = proc[w] /\ StillNew(w)
      BY <1>1, <1>3 DEF Moves, Processes, WatchInv
    <3> QED
      BY <1>2, <2>1, <3>1 DEF StillNew
  <2> QED
    BY <2>2, <2>3 DEF WatchInv
<1>4. CASE p \in Watchers
  <2>1. \A i \in DOMAIN rows : rows[i].kind = "watch" => rows[i].file # r.file
    BY <1>1, <1>4 DEF WatchInv, StillNew
  <2>2. r.file \in Files /\ r.binding = FileBinding[r.file]
    BY <1>1, <1>4 DEF TypeInv, Local
  <2>3. FileFiresOnce' /\ FiredHere'
    BY <1>2, <2>1, <2>2 DEF WatchInv, FileFiresOnce, FiredHere
  <2>4. ASSUME NEW w \in Watchers PROVE StillNew(w)'
    <3>1. CASE w = p
      <4> SUFFICES ASSUME NEW x \in proc[p].todo \ {o}, NEW i \in DOMAIN rows', rows'[i].kind = "watch",
                          rows'[i].file = x.file
                   PROVE  FALSE
        BY <1>1, <3>1 DEF StillNew
      <4>1. CASE i \in DOMAIN rows
        BY <1>1, <1>2, <1>4, <4>1 DEF WatchInv, StillNew
      <4>2. CASE i = n
        <5>1. x.file = o.file
          BY <1>1, <1>2, <4>2
        <5>2. x \in Orders /\ o \in Orders /\ x.period = FilePeriod[x.file] /\ o.period = FilePeriod[o.file]
          BY <1>1, <1>4 DEF TypeInv, Local
        <5>3. x = o
          BY <5>1, <5>2 DEF Orders
        <5> QED
          BY <5>3
      <4> QED
        BY <1>2, <4>1, <4>2
    <3>2. CASE w # p
      <4>1. w \in Processes /\ proc'[w] = proc[w]
        BY <1>1, <3>2 DEF Moves, Processes
      <4>2. proc[w].at \notin Loading
        BY <1>1, <1>4, <3>2, <4>1, OnlyOne
      <4> QED
        BY <4>1, <4>2 DEF StillNew
    <3> QED
      BY <3>1, <3>2
  <2> QED
    BY <2>3, <2>4 DEF WatchInv
<1> QED
  BY <1>3, <1>4

-----------------------------------------------------------------------------
(* The invariants hold, and what follows from them.                        *)

LEMMA TypeInit == Init => TypeInv
<1> SUFFICES ASSUME Init PROVE TypeInv
  OBVIOUS
<1>1. \A p \in Processes : Local(p)
  <2>1. /\ Idle.at = "idle" /\ Idle.now = 0 /\ Idle.left = {} /\ Idle.todo = {}
        /\ "idle" \notin Loading \union {"select", "listed", "put", "inspect"}
    BY DEF Idle, Loading
  <2>2. clock \in Nat /\ 0 <= clock
    BY ClockAssumption DEF Init
  <2> QED
    BY <2>1, <2>2 DEF Init, Local
<1>2. rows \in Seq(Row)
  BY EmptySeq, Zenon DEF Init
<1> QED
  BY <1>1, <1>2, ClockAssumption DEF Init, TypeInv

LEMMA OthersStep ==
    ASSUME TypeInv, Advance \/ UNCHANGED vars
    PROVE  /\ TypeInv'
           /\ ScheduleInv => ScheduleInv'
           /\ WatchInv => WatchInv'
<1>1. UNCHANGED <<setting, rows, files, proc>> /\ clock' \in Nat /\ clock <= clock' /\ clock \in Nat
  BY DEF Advance, vars, TypeInv
<1>2. ASSUME NEW p \in Processes PROVE Local(p)'
  BY <1>1 DEF TypeInv, Local
<1>3. TypeInv'
  BY <1>1, <1>2 DEF TypeInv
<1>4. \A b : Scheduled(b)' = Scheduled(b)
  BY <1>1 DEF Scheduled
<1>5. ScheduleInv => ScheduleInv'
  BY <1>1, <1>4 DEF ScheduleInv, NoDoubleFire, StillDue
<1>6. WatchInv => WatchInv'
  BY <1>1 DEF WatchInv, FileFiresOnce, FiredHere, StillNew
<1> QED
  BY <1>3, <1>5, <1>6

LEMMA NextIs ==
    ASSUME [Next]_vars
    PROVE  \/ Advance \/ UNCHANGED vars
           \/ \E p \in Processes : InsertAttempt(p)
           \/ \E p \in Processes :
                 /\ Tick(p) \/ Work(p) \/ Crash(p) \/ Restart(p) \/ Push(p) \/ Upload(p)
                 /\ ~InsertAttempt(p)
BY DEF Next, Work

LEMMA TypeStep == TypeInv /\ [Next]_vars => TypeInv'
<1> SUFFICES ASSUME TypeInv, [Next]_vars PROVE TypeInv'
  OBVIOUS
<1>1. ASSUME NEW p \in Processes, InsertAttempt(p) PROVE TypeInv'
  <2>1. rows' \in Seq(Row) /\ Moves(p) /\ Local(p)'
    BY <1>1, InsertSteps, Appended
  <2>2. UNCHANGED <<setting, clock, files>>
    BY <1>1 DEF InsertAttempt
  <2> QED
    BY <2>1, <2>2, TypeMoves DEF TypeInv
<1>2. ASSUME NEW p \in Processes, Still, Good(p), files' \subseteq Files PROVE TypeInv'
  <2>1. rows' \in Seq(Row)
    BY <1>2, RowsKept DEF Still
  <2> QED
    BY <1>2, <2>1, TypeMoves DEF Still, Good
<1> QED
  BY <1>1, <1>2, NextIs, OthersStep, StillSteps

LEMMA ScheduleStep ==
    ASSUME OneOf(Schedulers)
    PROVE  TypeInv /\ ScheduleInv /\ [Next]_vars => ScheduleInv'
<1> SUFFICES ASSUME TypeInv, ScheduleInv, [Next]_vars PROVE ScheduleInv'
  OBVIOUS
<1>1. ASSUME NEW p \in Processes, Still, Good(p) PROVE ScheduleInv'
  <2>1. Kept
    BY <1>1, RowsKept DEF Still
  <2>2. p \in Schedulers => StillDue(p)'
    BY <1>1 DEF Good, ScheduleInv
  <2> QED
    BY <1>1, <2>1, <2>2, ScheduleMoves DEF Good
<1> QED
  BY <1>1, NextIs, OthersStep, StillSteps, ScheduleInsert

LEMMA WatchStep ==
    ASSUME OneOf(Watchers)
    PROVE  TypeInv /\ WatchInv /\ [Next]_vars => WatchInv'
<1> SUFFICES ASSUME TypeInv, WatchInv, [Next]_vars PROVE WatchInv'
  OBVIOUS
<1>1. ASSUME NEW p \in Processes, Still, Good(p) PROVE WatchInv'
  <2>1. Kept
    BY <1>1, RowsKept DEF Still
  <2>2. p \in Watchers => StillNew(p)'
    BY <1>1 DEF Good, WatchInv
  <2> QED
    BY <1>1, <2>1, <2>2, WatchMoves DEF Good
<1> QED
  BY <1>1, NextIs, OthersStep, StillSteps, WatchInsert

LEMMA TypeHolds == Spec => []TypeInv
BY TypeInit, TypeStep, PTL DEF Spec

\* Where one scheduler runs, no period is loaded twice in a window, and none in
\* the name of a window that is over, wherever a load raises and the scheduler
\* dies, and whatever the watcher and the API server load meanwhile.
THEOREM ScheduleFiresOnce ==
    ASSUME OneOf(Schedulers)
    PROVE  Spec => []NoDoubleFire
<1>1. Init => ScheduleInv
  <2> SUFFICES ASSUME Init PROVE ScheduleInv
    OBVIOUS
  <2>1. \A b : Scheduled(b) = {}
    BY DEF Init, Scheduled
  <2> QED
    BY <2>1 DEF ScheduleInv, NoDoubleFire, StillDue
<1>2. ScheduleInv => NoDoubleFire
  BY DEF ScheduleInv
<1> QED
  BY <1>1, <1>2, TypeHolds, ScheduleStep, PTL DEF Spec

\* Where one watcher runs, a file is fired once, whatever became of the load it
\* was fired for and however often the watcher starts again.
THEOREM WatchFiresOnce ==
    ASSUME OneOf(Watchers)
    PROVE  Spec => []FileFiresOnce
<1>1. Init => WatchInv
  BY DEF Init, WatchInv, FileFiresOnce, FiredHere, StillNew
<1>2. WatchInv => FileFiresOnce
  BY DEF WatchInv
<1> QED
  BY <1>1, <1>2, TypeHolds, WatchStep, PTL DEF Spec
=============================================================================
