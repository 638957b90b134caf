-------------------------- MODULE ClientPoolProofs --------------------------
(***************************************************************************)
(* The pool's promises for any number of threads, handles and clients and  *)
(* any capacity: exclusive loans, no leak, no overrun, cancellation that   *)
(* stays within its request, no lost wakeup, a quiet closed handle.        *)
(***************************************************************************)
EXTENDS ClientPool, FiniteSetTheorems, TLAPS

-----------------------------------------------------------------------------
(* The inductive invariant *)

Notified == {"checkout", "lapsed", "expired"}
Holding == {"expired", "loaned", "running", "returned", "release", "discard"}

\* Types, without the ranges of the two counters: these follow from what the
\* counters count.
TypeInv ==
    /\ closed \in BOOLEAN /\ idle \subseteq Clients /\ count \in Int
    /\ retiring \subseteq Clients /\ open \subseteq Clients
    /\ pc \in [Threads -> Labels]
    /\ handle \in [Threads -> Handles \union {NoHandle}]
    /\ loan \in [Threads -> Clients \union {NoClient}]
    /\ reusable \in [Threads -> BOOLEAN]
    /\ quit \in [Handles -> {"no", "closing", "closed"}]
    /\ inflight \in [Handles -> Int]
    /\ active \in [Handles -> SUBSET Clients]
    /\ cancel \in [Handles -> {"no", "held", "done"}]
    /\ targets \in [Handles -> SUBSET Clients]
    /\ expiries \in Nat

\* A thread is at work for a handle exactly while its query lasts, and holds a
\* client exactly from the checkout to the release.
PlaceInv ==
    \A t \in Threads :
        /\ handle[t] = NoHandle <=> pc[t] = "off"
        /\ loan[t] # NoClient <=> pc[t] \in Holding

LoanInv ==
    /\ ExclusiveLoans
    /\ NothingLeaks
    /\ retiring \subseteq open /\ idle \intersect retiring = {}
    /\ IF closed THEN idle = {} ELSE retiring = {}

\* What a handle calls active is in the hands of its own threads.
ActiveInv ==
    \A h \in Handles :
        /\ \A c \in active[h] : \E t \in At(pc, Borrowing) : handle[t] = h /\ loan[t] = c
        /\ targets[h] \subseteq active[h]
        /\ cancel[h] # "held" => targets[h] = {}

\* _count is the number of idle clients and of places taken.
CountInv ==
    /\ count = Cardinality(idle) + Cardinality(At(pc, Charged))
    /\ count <= Capacity

\* While a thread waits, each place that is not taken is matched by a thread
\* that was told of it.
WakeInv ==
    At(pc, {"waiting"}) # {} =>
        /\ ~closed
        /\ Cardinality(At(pc, Charged \union Notified)) >= Capacity

\* _inflight is the number of threads at work for the handle.
Users(h) == {t \in Threads : handle[t] = h}
InflightInv ==
    \A h \in Handles :
        /\ inflight[h] = Cardinality(Users(h))
        /\ quit[h] = "closed" => Users(h) = {}

IInv == TypeInv /\ PlaceInv /\ LoanInv /\ ActiveInv /\ CountInv /\ WakeInv /\ InflightInv

-----------------------------------------------------------------------------
(* How the threads move, and how they are counted *)

\* Besides the thread that notifies, only a waiter may move, to the top of the
\* loop.
LEMMA Told ==
    ASSUME TypeInv, NEW t \in Threads, NEW l \in Labels \ {"waiting", "late"},
           GotoAndNotify(t, l)
    PROVE  /\ pc' \in [Threads -> Labels] /\ pc'[t] = l
           /\ \A u \in Threads \ {t} :
                 \/ pc'[u] = pc[u]
                 \/ pc[u] \in {"waiting", "late"} /\ pc'[u] \in {"checkout", "lapsed"}
<1> DEFINE g == [pc EXCEPT ![t] = l]
<1>1. /\ g \in [Threads -> Labels] /\ g[t] = l
      /\ \A u \in Threads \ {t} : g[u] = pc[u]
  BY DEF TypeInv
<1>2. \/ pc' = g
      \/ \E w \in Threads : \/ g[w] = "waiting" /\ pc' = [g EXCEPT ![w] = "checkout"]
                            \/ g[w] = "late" /\ pc' = [g EXCEPT ![w] = "lapsed"]
  BY DEF GotoAndNotify, Notify, At
<1> HIDE DEF g
<1> QED
  BY <1>1, <1>2 DEF Labels

\* If one still waits afterwards, another was told.
LEMMA OneTold ==
    ASSUME TypeInv, NEW t \in Threads, NEW l \in Labels \ {"waiting", "late"},
           GotoAndNotify(t, l), At(pc', {"waiting"}) # {}
    PROVE  \E w \in Threads \ {t} :
              /\ pc[w] \in {"waiting", "late"} /\ pc'[w] \in {"checkout", "lapsed"}
              /\ \A u \in Threads \ {t, w} : pc'[u] = pc[u]
<1> DEFINE g == [pc EXCEPT ![t] = l]
<1>1. /\ g \in [Threads -> Labels] /\ g[t] = l
      /\ \A u \in Threads \ {t} : g[u] = pc[u]
  BY DEF TypeInv
<1>2. pc' \in Notify(g)
  BY DEF GotoAndNotify
<1>3. At(g, {"waiting", "late"}) # {}
  BY <1>1, <1>2, Told DEF Notify, At
<1>4. PICK w \in Threads : \/ g[w] = "waiting" /\ pc' = [g EXCEPT ![w] = "checkout"]
                           \/ g[w] = "late" /\ pc' = [g EXCEPT ![w] = "lapsed"]
  BY <1>2, <1>3 DEF Notify, At
<1> HIDE DEF g
<1> QED
  BY <1>1, <1>4

\* There are finitely many threads, wherever they are.
LEMMA AtIsFinite ==
    ASSUME NEW f, NEW S
    PROVE  IsFiniteSet(At(f, S)) /\ Cardinality(At(f, S)) \in Nat
<1>1. At(f, S) \in SUBSET Threads
  BY DEF At
<1> QED
  BY <1>1, SetsAssumption, FS_Subset, FS_CardinalityType

\* One thread enters S or leaves it.
LEMMA Enters ==
    ASSUME NEW f, NEW g, NEW S, NEW t \in Threads, f[t] \notin S, g[t] \in S,
           \A u \in Threads \ {t} : g[u] \in S <=> f[u] \in S
    PROVE  Cardinality(At(g, S)) = Cardinality(At(f, S)) + 1
<1>1. At(g, S) = At(f, S) \union {t} /\ t \notin At(f, S)
  BY DEF At
<1> QED
  BY <1>1, AtIsFinite, FS_AddElement

\* And the other way round.
LEMMA Leaves ==
    ASSUME NEW f, NEW g, NEW S, NEW t \in Threads, f[t] \in S, g[t] \notin S,
           \A u \in Threads \ {t} : g[u] \in S <=> f[u] \in S
    PROVE  Cardinality(At(g, S)) = Cardinality(At(f, S)) - 1
<1>1. At(g, S) = At(f, S) \ {t} /\ t \in At(f, S)
  BY DEF At
<1> QED
  BY <1>1, AtIsFinite, FS_RemoveElement

\* Idle clients are counted one by one.
LEMMA IdleCounts ==
    ASSUME TypeInv
    PROVE  /\ Cardinality(idle) \in Nat
           /\ idle = {} => Cardinality(idle) = 0
           /\ \A c : /\ c \notin idle => Cardinality(idle \union {c}) = Cardinality(idle) + 1
                     /\ c \in idle => Cardinality(idle \ {c}) = Cardinality(idle) - 1
<1>1. IsFiniteSet(idle)
  BY SetsAssumption, FS_Subset DEF TypeInv
<1> QED
  BY <1>1, FS_EmptySet, FS_CardinalityType, FS_AddElement, FS_RemoveElement

-----------------------------------------------------------------------------
(* Types and places *)

\* The initial state: nothing open, nobody at work.
LEMMA IInvInit == Init => IInv
<1> SUFFICES ASSUME Init
             PROVE  IInv
  OBVIOUS
<1>1. /\ At(pc, Charged) = {} /\ At(pc, {"waiting"}) = {} /\ At(pc, Borrowing) = {}
      /\ \A h \in Handles : Users(h) = {}
  BY SetsAssumption DEF Init, At, Charged, Borrowing, Users
<1>2. TypeInv
  <2>1. /\ pc \in [Threads -> Labels] /\ reusable \in [Threads -> BOOLEAN]
        /\ handle \in [Threads -> Handles \union {NoHandle}]
        /\ loan \in [Threads -> Clients \union {NoClient}]
    BY DEF Init, Labels
  <2>2. /\ quit \in [Handles -> {"no", "closing", "closed"}] /\ inflight \in [Handles -> Int]
        /\ active \in [Handles -> SUBSET Clients] /\ targets \in [Handles -> SUBSET Clients]
        /\ cancel \in [Handles -> {"no", "held", "done"}]
    BY DEF Init
  <2>4. closed \in BOOLEAN
    BY Zenon DEF Init
  <2>3. /\ idle \subseteq Clients /\ count \in Int
        /\ retiring \subseteq Clients /\ open \subseteq Clients /\ expiries \in Nat
    BY DEF Init
  <2> QED
    BY <2>1, <2>2, <2>3, <2>4 DEF TypeInv
<1>5. PlaceInv
  BY DEF Init, PlaceInv, Holding
<1>3. LoanInv /\ ActiveInv
  BY <1>1 DEF Init, LoanInv, ExclusiveLoans, NothingLeaks, ActiveInv
<1>4. Cardinality({}) = 0
  BY FS_EmptySet
<1>6. CountInv /\ WakeInv
  BY <1>1, <1>4, CapacityAssumption DEF Init, CountInv, WakeInv
<1>7. InflightInv
  BY <1>1, <1>4 DEF Init, InflightInv
<1> QED
  BY <1>2, <1>3, <1>5, <1>6, <1>7 DEF IInv

\* Every step keeps the types.
LEMMA TypeInvNext == TypeInv /\ PlaceInv /\ [Next]_vars => TypeInv'
<1> SUFFICES ASSUME TypeInv, PlaceInv, [Next]_vars
             PROVE  TypeInv'
  OBVIOUS
<1>1. CASE UNCHANGED vars
  BY <1>1 DEF TypeInv, vars, pool, threads, handles
<1>2. ASSUME NEW t \in Threads,
             TakeIdle(t) \/ CloseExpired(t) \/ Reserve(t) \/ Build(t)
             \/ Wait(t) \/ TimeOut(t) \/ Busy(t) \/ PoolIsClosed(t)
      PROVE  TypeInv'
  BY <1>2 DEF TakeIdle, CloseExpired, Reserve, Build, Wait, TimeOut, Busy, PoolIsClosed, Goto,
       TypeInv, Labels, pool, threads, handles
<1>3. ASSUME NEW t \in Threads, Register(t)
      PROVE  TypeInv'
  <2>1. loan[t] \in Clients
    BY <1>3 DEF Register, TypeInv, PlaceInv, Holding
  <2> QED
    BY <1>3, <2>1 DEF Register, Goto, TypeInv, Labels, pool, threads, handles
<1>4. ASSUME NEW t \in Threads, Unregister(t)
      PROVE  TypeInv'
  BY <1>4 DEF Unregister, Goto, TypeInv, Labels, pool, threads, handles
<1>5. ASSUME NEW t \in Threads, Leave(t)
      PROVE  TypeInv'
  <2>1. handle[t] \in Handles
    BY <1>5 DEF Leave, TypeInv, PlaceInv
  <2>2. inflight' \in [Handles -> Int]
    BY <1>5, <2>1 DEF Leave, TypeInv
  <2> QED
    BY <1>5, <2>2 DEF Leave, Goto, TypeInv, Labels, pool
<1>6. ASSUME NEW t \in Threads,
             Return(t) \/ Discard(t)
      PROVE  TypeInv'
  BY <1>6 DEF Return, Discard, Goto, TypeInv, Labels, pool, threads, handles
<1>7. ASSUME NEW t \in Threads, TakeExpired(t)
      PROVE  TypeInv'
  <2>1. pc' \in [Threads -> Labels]
    BY <1>7, Told DEF TakeExpired, Labels
  <2>2. PICK c \in idle : idle' = idle \ {c} /\ loan' = [loan EXCEPT ![t] = c]
    BY <1>7 DEF TakeExpired
  <2>3. count' \in Int /\ expiries' \in Nat
    BY <1>7 DEF TakeExpired, TypeInv
  <2> QED
    BY <1>7, <2>1, <2>2, <2>3 DEF TakeExpired, TypeInv, pool, threads, handles
<1>8. ASSUME NEW t \in Threads, BuildFails(t)
      PROVE  TypeInv'
  <2>1. pc' \in [Threads -> Labels]
    BY <1>8, Told DEF BuildFails, Labels
  <2> QED
    BY <1>8, <2>1 DEF BuildFails, TypeInv, pool, threads, handles
<1>9. ASSUME NEW t \in Threads, Release(t)
      PROVE  TypeInv'
  <2>1. PICK l \in {"discard", "leaving"} : GotoAndNotify(t, l)
    BY <1>9 DEF Release
  <2>2. pc' \in [Threads -> Labels]
    BY <2>1, Told DEF Labels
  <2> QED
    BY <1>9, <2>2 DEF Release, TypeInv, PlaceInv, Holding, pool, threads, handles
<1>10. ASSUME NEW t \in Threads, NEW h \in Handles, Query(t, h)
      PROVE  TypeInv'
  BY <1>10 DEF Query, Goto, TypeInv, Labels, pool, threads, handles
<1>11. ASSUME NEW h \in Handles,
             BeginCancel(h) \/ CancelOne(h) \/ EndCancel(h)
             \/ CloseHandle(h) \/ HandleClosed(h)
      PROVE  TypeInv'
  BY <1>11 DEF BeginCancel, CancelOne, EndCancel, CloseHandle, HandleClosed, TypeInv, pool,
       threads, handles
<1>12. CASE Retire
  BY <1>12 DEF Retire, TypeInv, threads, handles
<1>13. CASE ClosePool
  <2>1. Cardinality(idle) \in Nat
    BY IdleCounts
  <2> QED
    BY <1>13, <2>1 DEF ClosePool, TypeInv, Labels, Woken, handles
<1> QED
  BY <1>1, <1>2, <1>3, <1>4, <1>5, <1>6, <1>7, <1>8, <1>9, <1>10, <1>11, <1>12, <1>13 DEF Next, Step

\* Every step keeps handles and loans where the threads are.
LEMMA PlaceInvNext == TypeInv /\ PlaceInv /\ [Next]_vars => PlaceInv'
<1> SUFFICES ASSUME TypeInv, PlaceInv, [Next]_vars
             PROVE  PlaceInv'
  OBVIOUS
<1>1. CASE UNCHANGED vars
  BY <1>1 DEF PlaceInv, vars, threads
<1>2. ASSUME NEW t \in Threads,
             TakeIdle(t) \/ CloseExpired(t) \/ Reserve(t) \/ Build(t)
             \/ Wait(t) \/ TimeOut(t) \/ Busy(t) \/ PoolIsClosed(t)
             \/ Register(t) \/ Return(t) \/ Unregister(t) \/ Discard(t)
             \/ Leave(t)
      PROVE  PlaceInv'
  BY <1>2, SetsAssumption DEF TakeIdle, CloseExpired, Reserve, Build, Wait, TimeOut, Busy,
       PoolIsClosed, Register, Return, Unregister, Discard, Leave, Goto, Looking, Holding,
       TypeInv, PlaceInv
<1>3. ASSUME NEW t \in Threads, TakeExpired(t)
      PROVE  PlaceInv'
  <2>1. /\ pc'[t] = "expired"
        /\ \A u \in Threads \ {t} :
              \/ pc'[u] = pc[u]
              \/ pc[u] \in {"waiting", "late"} /\ pc'[u] \in {"checkout", "lapsed"}
    BY <1>3, Told DEF TakeExpired, Labels
  <2> QED
    BY <1>3, <2>1, SetsAssumption DEF TakeExpired, Looking, Holding, TypeInv, PlaceInv
<1>4. ASSUME NEW t \in Threads, BuildFails(t)
      PROVE  PlaceInv'
  <2>1. /\ pc'[t] = "leaving"
        /\ \A u \in Threads \ {t} :
              \/ pc'[u] = pc[u]
              \/ pc[u] \in {"waiting", "late"} /\ pc'[u] \in {"checkout", "lapsed"}
    BY <1>4, Told DEF BuildFails, Labels
  <2> QED
    BY <1>4, <2>1 DEF BuildFails, Holding, PlaceInv
<1>5. ASSUME NEW t \in Threads, Release(t)
      PROVE  PlaceInv'
  <2>1. PICK l \in {"discard", "leaving"} :
            /\ GotoAndNotify(t, l)
            /\ loan' = IF l = "discard" THEN loan ELSE [loan EXCEPT ![t] = NoClient]
    BY <1>5 DEF Release
  <2>2. /\ pc'[t] = l
        /\ \A u \in Threads \ {t} :
              \/ pc'[u] = pc[u]
              \/ pc[u] \in {"waiting", "late"} /\ pc'[u] \in {"checkout", "lapsed"}
    BY <2>1, Told DEF Labels
  <2> QED
    BY <1>5, <2>1, <2>2 DEF Release, Holding, TypeInv, PlaceInv
<1>6. ASSUME NEW t \in Threads, NEW h \in Handles, Query(t, h)
      PROVE  PlaceInv'
  BY <1>6, SetsAssumption DEF Query, Goto, Holding, TypeInv, PlaceInv
<1>7. ASSUME NEW h \in Handles,
             BeginCancel(h) \/ CancelOne(h) \/ EndCancel(h)
             \/ CloseHandle(h) \/ HandleClosed(h)
      PROVE  PlaceInv'
  BY <1>7 DEF BeginCancel, CancelOne, EndCancel, CloseHandle, HandleClosed, PlaceInv, threads
<1>8. CASE Retire
  BY <1>8 DEF Retire, PlaceInv, threads
<1>9. CASE ClosePool
  BY <1>9 DEF ClosePool, Woken, Holding, TypeInv, PlaceInv
<1> QED
  BY <1>1, <1>2, <1>3, <1>4, <1>5, <1>6, <1>7, <1>8, <1>9 DEF Next, Step

-----------------------------------------------------------------------------
(* Loans *)

\* A loan starts and ends with one thread, and close() takes what is idle.
LEMMA LoanInvNext == TypeInv /\ PlaceInv /\ LoanInv /\ [Next]_vars => LoanInv'
<1> SUFFICES ASSUME TypeInv, PlaceInv, LoanInv, [Next]_vars
             PROVE  LoanInv'
  OBVIOUS
<1>1. CASE UNCHANGED vars
  BY <1>1 DEF LoanInv, ExclusiveLoans, NothingLeaks, vars, pool, threads
<1>2. ASSUME NEW t \in Threads,
             TakeIdle(t) \/ TakeExpired(t) \/ Build(t)
      PROVE  LoanInv'
  BY <1>2, SetsAssumption DEF TakeIdle, TakeExpired, Build, Looking, Holding, TypeInv,
       PlaceInv, LoanInv, ExclusiveLoans, NothingLeaks
<1>3. ASSUME NEW t \in Threads, CloseExpired(t)
      PROVE  LoanInv'
  BY <1>3 DEF CloseExpired, TypeInv, PlaceInv, Holding, LoanInv, ExclusiveLoans, NothingLeaks
<1>4. ASSUME NEW t \in Threads, Discard(t)
      PROVE  LoanInv'
  BY <1>4 DEF Discard, TypeInv, PlaceInv, Holding, LoanInv, ExclusiveLoans, NothingLeaks
<1>5. ASSUME NEW t \in Threads, Release(t)
      PROVE  LoanInv'
  BY <1>5 DEF Release, TypeInv, PlaceInv, Holding, LoanInv, ExclusiveLoans, NothingLeaks
<1>6. ASSUME NEW t \in Threads,
             Reserve(t) \/ BuildFails(t) \/ Register(t) \/ Return(t)
             \/ Unregister(t) \/ Leave(t) \/ Wait(t) \/ TimeOut(t)
             \/ Busy(t) \/ PoolIsClosed(t)
      PROVE  LoanInv'
  BY <1>6 DEF Reserve, BuildFails, Register, Return, Unregister, Leave, Wait, TimeOut, Busy,
       PoolIsClosed, pool, LoanInv, ExclusiveLoans, NothingLeaks
<1>7. ASSUME NEW t \in Threads, NEW h \in Handles, Query(t, h)
      PROVE  LoanInv'
  BY <1>7 DEF Query, pool, LoanInv, ExclusiveLoans, NothingLeaks
<1>8. ASSUME NEW h \in Handles,
             BeginCancel(h) \/ CancelOne(h) \/ EndCancel(h)
             \/ CloseHandle(h) \/ HandleClosed(h)
      PROVE  LoanInv'
  BY <1>8 DEF BeginCancel, CancelOne, EndCancel, CloseHandle, HandleClosed, pool, threads,
       LoanInv, ExclusiveLoans, NothingLeaks
<1>9. CASE ClosePool
  BY <1>9 DEF ClosePool, LoanInv, ExclusiveLoans, NothingLeaks
<1>10. CASE Retire
  BY <1>10 DEF Retire, threads, LoanInv, ExclusiveLoans, NothingLeaks
<1> QED
  BY <1>1, <1>2, <1>3, <1>4, <1>5, <1>6, <1>7, <1>8, <1>9, <1>10 DEF Next, Step

\* A handle's active clients leave with the threads that use them.
LEMMA ActiveInvNext == TypeInv /\ PlaceInv /\ LoanInv /\ ActiveInv /\ [Next]_vars => ActiveInv'
<1> SUFFICES ASSUME TypeInv, PlaceInv, LoanInv, ActiveInv, [Next]_vars
             PROVE  ActiveInv'
  OBVIOUS
<1>1. CASE UNCHANGED vars
  BY <1>1 DEF ActiveInv, At, vars, threads, handles
<1>2. ASSUME NEW t \in Threads,
             TakeIdle(t) \/ CloseExpired(t) \/ Reserve(t) \/ Build(t)
             \/ Discard(t) \/ Wait(t) \/ TimeOut(t) \/ Busy(t)
             \/ PoolIsClosed(t)
      PROVE  ActiveInv'
  BY <1>2 DEF TakeIdle, CloseExpired, Reserve, Build, Discard, Wait, TimeOut, Busy,
       PoolIsClosed, Goto, Looking, Borrowing, TypeInv, ActiveInv, At, handles
<1>3. ASSUME NEW t \in Threads, Register(t)
      PROVE  ActiveInv'
  BY <1>3 DEF Register, Goto, Free, Borrowing, TypeInv, PlaceInv, ActiveInv, At
<1>4. ASSUME NEW t \in Threads, Return(t)
      PROVE  ActiveInv'
  BY <1>4 DEF Return, Goto, Borrowing, TypeInv, ActiveInv, At, handles
<1>5. ASSUME NEW t \in Threads, Unregister(t)
      PROVE  ActiveInv'
  BY <1>5 DEF Unregister, Goto, Free, Borrowing, Holding, TypeInv, PlaceInv, LoanInv,
       ExclusiveLoans, ActiveInv, At
<1>6. ASSUME NEW t \in Threads, Leave(t)
      PROVE  ActiveInv'
  BY <1>6 DEF Leave, Goto, Borrowing, TypeInv, ActiveInv, At
<1>7. ASSUME NEW t \in Threads, TakeExpired(t)
      PROVE  ActiveInv'
  <2>1. /\ pc'[t] = "expired"
        /\ \A u \in Threads \ {t} :
              \/ pc'[u] = pc[u]
              \/ pc[u] \in {"waiting", "late"} /\ pc'[u] \in {"checkout", "lapsed"}
    BY <1>7, Told DEF TakeExpired, Labels
  <2> QED
    BY <1>7, <2>1 DEF TakeExpired, Looking, Borrowing, TypeInv, ActiveInv, At, handles
<1>8. ASSUME NEW t \in Threads, BuildFails(t)
      PROVE  ActiveInv'
  <2>1. /\ pc'[t] = "leaving"
        /\ \A u \in Threads \ {t} :
              \/ pc'[u] = pc[u]
              \/ pc[u] \in {"waiting", "late"} /\ pc'[u] \in {"checkout", "lapsed"}
    BY <1>8, Told DEF BuildFails, Labels
  <2> QED
    BY <1>8, <2>1 DEF BuildFails, Borrowing, TypeInv, ActiveInv, At, handles
<1>9. ASSUME NEW t \in Threads, Release(t)
      PROVE  ActiveInv'
  <2>1. PICK l \in {"discard", "leaving"} :
            /\ GotoAndNotify(t, l)
            /\ loan' = IF l = "discard" THEN loan ELSE [loan EXCEPT ![t] = NoClient]
    BY <1>9 DEF Release
  <2>2. /\ pc'[t] = l
        /\ \A u \in Threads \ {t} :
              \/ pc'[u] = pc[u]
              \/ pc[u] \in {"waiting", "late"} /\ pc'[u] \in {"checkout", "lapsed"}
    BY <2>1, Told DEF Labels
  <2> QED
    BY <1>9, <2>1, <2>2 DEF Release, Borrowing, TypeInv, ActiveInv, At, handles
<1>10. ASSUME NEW t \in Threads, NEW h \in Handles, Query(t, h)
      PROVE  ActiveInv'
  BY <1>10 DEF Query, Goto, Borrowing, TypeInv, ActiveInv, At
<1>11. ASSUME NEW h \in Handles,
             BeginCancel(h) \/ CancelOne(h) \/ EndCancel(h)
             \/ CloseHandle(h) \/ HandleClosed(h)
      PROVE  ActiveInv'
  BY <1>11 DEF BeginCancel, CancelOne, EndCancel, CloseHandle, HandleClosed, Free, TypeInv,
       ActiveInv, threads
<1>12. CASE ClosePool
  <2>1. \A u \in Threads : pc[u] \in Borrowing => pc'[u] = pc[u]
    BY <1>12 DEF ClosePool, Woken, Borrowing, TypeInv
  <2> QED
    BY <1>12, <2>1 DEF ClosePool, ActiveInv, At, handles
<1>13. CASE Retire
  BY <1>13 DEF Retire, ActiveInv, threads, handles
<1> QED
  BY <1>1, <1>2, <1>3, <1>4, <1>5, <1>6, <1>7, <1>8, <1>9, <1>10, <1>11, <1>12, <1>13 DEF Next, Step

-----------------------------------------------------------------------------
(* Counts *)

\* The pool's counter is charged before a client exists and discharged once.
LEMMA CountInvNext == TypeInv /\ PlaceInv /\ LoanInv /\ CountInv /\ [Next]_vars => CountInv'
<1> SUFFICES ASSUME TypeInv, PlaceInv, LoanInv, CountInv, [Next]_vars
             PROVE  CountInv'
  OBVIOUS
<1>1. CASE UNCHANGED vars
  BY <1>1 DEF CountInv, At, vars, pool, threads
<1>2. ASSUME NEW t \in Threads, TakeIdle(t)
      PROVE  CountInv'
  <2>1. /\ pc[t] \notin Charged /\ pc'[t] \in Charged
        /\ \A u \in Threads \ {t} : pc'[u] \in Charged <=> pc[u] \in Charged
    BY <1>2 DEF TakeIdle, Goto, Looking, Charged, TypeInv
  <2>2. Cardinality(At(pc', Charged)) = Cardinality(At(pc, Charged)) + 1
    BY <2>1, Enters
  <2> QED
    BY <1>2, <2>2, CapacityAssumption, AtIsFinite, IdleCounts DEF TakeIdle, CountInv, TypeInv
<1>3. ASSUME NEW t \in Threads, Reserve(t)
      PROVE  CountInv'
  <2>1. /\ pc[t] \notin Charged /\ pc'[t] \in Charged
        /\ \A u \in Threads \ {t} : pc'[u] \in Charged <=> pc[u] \in Charged
    BY <1>3 DEF Reserve, Goto, Looking, Charged, TypeInv
  <2>2. Cardinality(At(pc', Charged)) = Cardinality(At(pc, Charged)) + 1
    BY <2>1, Enters
  <2>3. idle' = idle /\ count' = count + 1 /\ count < Capacity
    BY <1>3 DEF Reserve
  <2>4. Cardinality(idle) \in Nat /\ Cardinality(At(pc, Charged)) \in Nat
    BY AtIsFinite, IdleCounts
  <2>5. count \in Int /\ Capacity \in Int
    BY CapacityAssumption DEF TypeInv
  <2> QED
    BY <2>2, <2>3, <2>4, <2>5 DEF CountInv
<1>4. ASSUME NEW t \in Threads, TakeExpired(t)
      PROVE  CountInv'
  <2>1. At(pc', Charged) = At(pc, Charged)
    BY <1>4, Told DEF TakeExpired, At, Looking, Charged, Labels
  <2>2. PICK c \in idle : idle' = idle \ {c}
    BY <1>4 DEF TakeExpired
  <2>3. Cardinality(idle') = Cardinality(idle) - 1
    BY <2>2, IdleCounts
  <2> QED
    BY <1>4, <2>1, <2>3, CapacityAssumption, AtIsFinite, IdleCounts DEF TakeExpired, CountInv,
         TypeInv
<1>5. ASSUME NEW t \in Threads, BuildFails(t)
      PROVE  CountInv'
  <2>1. /\ pc[t] \in Charged /\ pc'[t] \notin Charged
        /\ \A u \in Threads \ {t} : pc'[u] \in Charged <=> pc[u] \in Charged
    BY <1>5, Told DEF BuildFails, Charged, Labels
  <2>2. Cardinality(At(pc', Charged)) = Cardinality(At(pc, Charged)) - 1
    BY <2>1, Leaves
  <2> QED
    BY <1>5, <2>2, CapacityAssumption, AtIsFinite, IdleCounts DEF BuildFails, CountInv,
         TypeInv
<1>6. ASSUME NEW t \in Threads, Release(t)
      PROVE  CountInv'
  <2>1. PICK l \in {"discard", "leaving"} : GotoAndNotify(t, l)
    BY <1>6 DEF Release
  <2>2. /\ pc[t] \in Charged /\ pc'[t] \notin Charged
        /\ \A u \in Threads \ {t} : pc'[u] \in Charged <=> pc[u] \in Charged
    BY <1>6, <2>1, Told DEF Release, Charged, Labels
  <2>3. Cardinality(At(pc', Charged)) = Cardinality(At(pc, Charged)) - 1
    BY <2>2, Leaves
  <2>4. loan[t] \notin idle
    BY <1>6 DEF Release, PlaceInv, LoanInv, ExclusiveLoans, Holding
  <2>5. \/ count' = count - 1 /\ idle' = idle
        \/ count' = count /\ Cardinality(idle') = Cardinality(idle) + 1
    BY <1>6, <2>4, IdleCounts DEF Release
  <2> QED
    BY <1>6, <2>3, <2>5, CapacityAssumption, AtIsFinite, IdleCounts DEF CountInv, TypeInv
<1>7. ASSUME NEW t \in Threads,
             CloseExpired(t) \/ Build(t) \/ Register(t) \/ Return(t)
             \/ Unregister(t) \/ Discard(t) \/ Leave(t) \/ Wait(t)
             \/ TimeOut(t) \/ Busy(t) \/ PoolIsClosed(t)
      PROVE  CountInv'
  <2>1. At(pc', Charged) = At(pc, Charged)
    BY <1>7 DEF CloseExpired, Build, Register, Return, Unregister, Discard, Leave, Wait,
         TimeOut, Busy, PoolIsClosed, Goto, At, Looking, Charged, TypeInv
  <2> QED
    BY <1>7, <2>1 DEF CloseExpired, Build, Register, Return, Unregister, Discard, Leave, Wait,
         TimeOut, Busy, PoolIsClosed, CountInv, pool
<1>8. ASSUME NEW t \in Threads, NEW h \in Handles, Query(t, h)
      PROVE  CountInv'
  <2>1. At(pc', Charged) = At(pc, Charged)
    BY <1>8 DEF Query, Goto, At, Charged, TypeInv
  <2> QED
    BY <1>8, <2>1 DEF Query, CountInv, pool
<1>9. ASSUME NEW h \in Handles,
             BeginCancel(h) \/ CancelOne(h) \/ EndCancel(h)
             \/ CloseHandle(h) \/ HandleClosed(h)
      PROVE  CountInv'
  BY <1>9 DEF BeginCancel, CancelOne, EndCancel, CloseHandle, HandleClosed, CountInv, At,
       pool, threads
<1>10. CASE ClosePool
  <2>1. At(pc', Charged) = At(pc, Charged)
    BY <1>10 DEF ClosePool, At, Woken, Charged, TypeInv
  <2>2. Cardinality({}) = 0
    BY FS_EmptySet
  <2> QED
    BY <1>10, <2>1, <2>2, CapacityAssumption, AtIsFinite, IdleCounts DEF ClosePool, CountInv,
         TypeInv
<1>11. CASE Retire
  BY <1>11 DEF Retire, CountInv, At, threads
<1> QED
  BY <1>1, <1>2, <1>3, <1>4, <1>5, <1>6, <1>7, <1>8, <1>9, <1>10, <1>11 DEF Next, Step

\* A place that falls free while a thread waits is announced to a waiter.
LEMMA WakeInvNext == TypeInv /\ CountInv /\ WakeInv /\ [Next]_vars => WakeInv'
<1> SUFFICES ASSUME TypeInv, CountInv, WakeInv, [Next]_vars
             PROVE  WakeInv'
  OBVIOUS
<1>1. CASE UNCHANGED vars
  BY <1>1 DEF WakeInv, At, vars, pool, threads
<1>2. ASSUME NEW t \in Threads,
             TakeIdle(t) \/ CloseExpired(t) \/ Reserve(t) \/ Build(t)
             \/ TimeOut(t) \/ Register(t) \/ Return(t) \/ Unregister(t)
             \/ Discard(t) \/ Leave(t)
      PROVE  WakeInv'
  <2>1. /\ At(pc, Charged \union Notified) \in SUBSET At(pc', Charged \union Notified)
        /\ At(pc', {"waiting"}) \subseteq At(pc, {"waiting"})
    BY <1>2 DEF TakeIdle, CloseExpired, Reserve, Build, TimeOut, Register, Return, Unregister,
         Discard, Leave, Goto, At, Looking, Charged, Notified, TypeInv
  <2>2. Cardinality(At(pc, Charged \union Notified)) <= Cardinality(At(pc', Charged \union Notified))
    BY <2>1, AtIsFinite, FS_Subset
  <2> QED
    BY <1>2, <2>1, <2>2, AtIsFinite, CapacityAssumption DEF TakeIdle, CloseExpired, Reserve,
         Build, TimeOut, Register, Return, Unregister, Discard, Leave, WakeInv, pool
<1>3. ASSUME NEW t \in Threads, NEW h \in Handles, Query(t, h)
      PROVE  WakeInv'
  <2>1. /\ At(pc, Charged \union Notified) \in SUBSET At(pc', Charged \union Notified)
        /\ At(pc', {"waiting"}) \subseteq At(pc, {"waiting"})
    BY <1>3 DEF Query, Goto, At, Looking, Charged, Notified, TypeInv
  <2>2. Cardinality(At(pc, Charged \union Notified)) <= Cardinality(At(pc', Charged \union Notified))
    BY <2>1, AtIsFinite, FS_Subset
  <2> QED
    BY <1>3, <2>1, <2>2, AtIsFinite, CapacityAssumption DEF Query, WakeInv, pool
<1>4. ASSUME NEW t \in Threads, TakeExpired(t)
      PROVE  WakeInv'
  <2>1. /\ At(pc, Charged \union Notified) \in SUBSET At(pc', Charged \union Notified)
        /\ At(pc', {"waiting"}) \subseteq At(pc, {"waiting"})
    BY <1>4, Told DEF TakeExpired, At, Looking, Charged, Notified, Labels, TypeInv
  <2>2. Cardinality(At(pc, Charged \union Notified)) <= Cardinality(At(pc', Charged \union Notified))
    BY <2>1, AtIsFinite, FS_Subset
  <2> QED
    BY <1>4, <2>1, <2>2, AtIsFinite, CapacityAssumption DEF TakeExpired, WakeInv, pool
<1>5. ASSUME NEW t \in Threads,
             Wait(t) \/ Busy(t)
      PROVE  WakeInv'
  <2>1. At(pc, Charged) \in SUBSET At(pc', Charged \union Notified)
    BY <1>5 DEF Wait, Busy, Goto, At, Looking, Charged, TypeInv
  <2>2. Cardinality(At(pc, Charged)) <= Cardinality(At(pc', Charged \union Notified))
    BY <2>1, AtIsFinite, FS_Subset
  <2>3. Cardinality(At(pc, Charged)) >= Capacity
    BY <1>5, IdleCounts, AtIsFinite, CapacityAssumption DEF Wait, Busy, NothingLeft, CountInv,
         TypeInv
  <2> QED
    BY <1>5, <2>2, <2>3, AtIsFinite, CapacityAssumption DEF Wait, Busy, NothingLeft, WakeInv,
         pool
<1>6. ASSUME NEW t \in Threads, BuildFails(t)
      PROVE  WakeInv'
  <2> SUFFICES ASSUME At(pc', {"waiting"}) # {}
               PROVE  ~closed' /\ Cardinality(At(pc', Charged \union Notified)) >= Capacity
    BY DEF WakeInv
  <2>1. PICK l \in {"discard", "leaving"} : GotoAndNotify(t, l)
    BY <1>6 DEF BuildFails
  <2>2. PICK w \in Threads \ {t} :
            /\ pc[w] \in {"waiting", "late"} /\ pc'[w] \in {"checkout", "lapsed"}
            /\ \A u \in Threads \ {t, w} : pc'[u] = pc[u]
    BY <2>1, OneTold DEF Labels
  <2>3. pc[t] \in Charged /\ pc'[t] = l
    BY <1>6, <2>1, Told DEF BuildFails, Charged, Labels
  <2>4. /\ At(pc', Charged \union Notified) = (At(pc, Charged \union Notified) \ {t}) \union {w}
        /\ t \in At(pc, Charged \union Notified) /\ w \notin At(pc, Charged \union Notified) \ {t}
    BY <2>2, <2>3 DEF At, Charged, Notified
  <2> DEFINE S == At(pc, Charged \union Notified)
             R == (S \ {t}) \union {w}
  <2>7. IsFiniteSet(S) /\ Cardinality(S) \in Nat
    BY AtIsFinite
  <2> HIDE DEF S, R
  <2>8. IsFiniteSet(S \ {t}) /\ Cardinality(S \ {t}) = Cardinality(S) - 1
    BY <2>4, <2>7, FS_RemoveElement DEF S
  <2>9. Cardinality(R) = Cardinality(S \ {t}) + 1
    BY <2>4, <2>8, FS_AddElement DEF S, R
  <2>10. At(pc', Charged \union Notified) = R
    BY <2>4 DEF S, R
  <2>5. Cardinality(At(pc', Charged \union Notified)) = Cardinality(S)
    BY <2>7, <2>8, <2>9, <2>10
  <2>6. At(pc, {"waiting"}) # {}
    BY <2>1, Told DEF At, Labels
  <2> QED
    BY <1>6, <2>5, <2>6 DEF BuildFails, S, WakeInv
<1>7. ASSUME NEW t \in Threads, Release(t)
      PROVE  WakeInv'
  <2> SUFFICES ASSUME At(pc', {"waiting"}) # {}
               PROVE  ~closed' /\ Cardinality(At(pc', Charged \union Notified)) >= Capacity
    BY DEF WakeInv
  <2>1. PICK l \in {"discard", "leaving"} : GotoAndNotify(t, l)
    BY <1>7 DEF Release
  <2>2. PICK w \in Threads \ {t} :
            /\ pc[w] \in {"waiting", "late"} /\ pc'[w] \in {"checkout", "lapsed"}
            /\ \A u \in Threads \ {t, w} : pc'[u] = pc[u]
    BY <2>1, OneTold DEF Labels
  <2>3. pc[t] \in Charged /\ pc'[t] = l
    BY <1>7, <2>1, Told DEF Release, Charged, Labels
  <2>4. /\ At(pc', Charged \union Notified) = (At(pc, Charged \union Notified) \ {t}) \union {w}
        /\ t \in At(pc, Charged \union Notified) /\ w \notin At(pc, Charged \union Notified) \ {t}
    BY <2>2, <2>3 DEF At, Charged, Notified
  <2> DEFINE S == At(pc, Charged \union Notified)
             R == (S \ {t}) \union {w}
  <2>7. IsFiniteSet(S) /\ Cardinality(S) \in Nat
    BY AtIsFinite
  <2> HIDE DEF S, R
  <2>8. IsFiniteSet(S \ {t}) /\ Cardinality(S \ {t}) = Cardinality(S) - 1
    BY <2>4, <2>7, FS_RemoveElement DEF S
  <2>9. Cardinality(R) = Cardinality(S \ {t}) + 1
    BY <2>4, <2>8, FS_AddElement DEF S, R
  <2>10. At(pc', Charged \union Notified) = R
    BY <2>4 DEF S, R
  <2>5. Cardinality(At(pc', Charged \union Notified)) = Cardinality(S)
    BY <2>7, <2>8, <2>9, <2>10
  <2>6. At(pc, {"waiting"}) # {}
    BY <2>1, Told DEF At, Labels
  <2> QED
    BY <1>7, <2>5, <2>6 DEF Release, S, WakeInv
<1>8. ASSUME NEW t \in Threads, PoolIsClosed(t)
      PROVE  WakeInv'
  BY <1>8 DEF PoolIsClosed, Goto, At, Looking, TypeInv, WakeInv
<1>9. ASSUME NEW h \in Handles,
             BeginCancel(h) \/ CancelOne(h) \/ EndCancel(h)
             \/ CloseHandle(h) \/ HandleClosed(h)
      PROVE  WakeInv'
  BY <1>9 DEF BeginCancel, CancelOne, EndCancel, CloseHandle, HandleClosed, WakeInv, At, pool,
       threads
<1>10. CASE ClosePool
  BY <1>10 DEF ClosePool, WakeInv, At, Woken, Labels, TypeInv
<1>11. CASE Retire
  BY <1>11 DEF Retire, WakeInv, At, threads
<1> QED
  BY <1>1, <1>2, <1>3, <1>4, <1>5, <1>6, <1>7, <1>8, <1>9, <1>10, <1>11 DEF Next, Step

\* There are finitely many threads.
LEMMA UsersAreFinite == \A h : IsFiniteSet(Users(h))
<1>1. \A h : Users(h) \in SUBSET Threads
  BY DEF Users
<1> QED
  BY <1>1, SetsAssumption, FS_Subset

\* A handle counts its threads in and out.
LEMMA InflightInvNext == TypeInv /\ PlaceInv /\ InflightInv /\ [Next]_vars => InflightInv'
<1> SUFFICES ASSUME TypeInv, PlaceInv, InflightInv, [Next]_vars
             PROVE  InflightInv'
  OBVIOUS
<1>1. CASE UNCHANGED vars
  BY <1>1 DEF InflightInv, Users, vars, threads, handles
<1>2. ASSUME NEW t \in Threads, NEW h \in Handles, Query(t, h)
      PROVE  InflightInv'
  <2>1. /\ Users(h)' = Users(h) \union {t} /\ t \notin Users(h)
        /\ \A i \in Handles \ {h} : Users(i)' = Users(i)
    BY <1>2, SetsAssumption DEF Query, Users, TypeInv, PlaceInv
  <2>2. Cardinality(Users(h)') = Cardinality(Users(h)) + 1
    BY <2>1, UsersAreFinite, FS_AddElement
  <2> QED
    BY <1>2, <2>1, <2>2 DEF Query, InflightInv, TypeInv
<1>3. ASSUME NEW t \in Threads, Leave(t)
      PROVE  InflightInv'
  <2>1. PICK h \in Handles : h = handle[t]
    BY <1>3 DEF Leave, TypeInv, PlaceInv
  <2>2. /\ Users(h)' = Users(h) \ {t} /\ t \in Users(h)
        /\ \A i \in Handles \ {h} : Users(i)' = Users(i)
    BY <1>3, <2>1, SetsAssumption DEF Leave, Users, TypeInv
  <2>3. Cardinality(Users(h)') = Cardinality(Users(h)) - 1
    BY <2>2, UsersAreFinite, FS_RemoveElement
  <2> QED
    BY <1>3, <2>1, <2>2, <2>3 DEF Leave, InflightInv, TypeInv
<1>4. ASSUME NEW t \in Threads,
             TakeIdle(t) \/ TakeExpired(t) \/ CloseExpired(t)
             \/ Reserve(t) \/ Build(t) \/ BuildFails(t) \/ Wait(t)
             \/ TimeOut(t) \/ Busy(t) \/ PoolIsClosed(t) \/ Register(t)
             \/ Return(t) \/ Unregister(t) \/ Release(t) \/ Discard(t)
      PROVE  InflightInv'
  <2>1. handle' = handle /\ inflight' = inflight /\ quit' = quit
    BY <1>4 DEF TakeIdle, TakeExpired, CloseExpired, Reserve, Build, BuildFails, Wait,
         TimeOut, Busy, PoolIsClosed, Register, Return, Unregister, Release, Discard, handles
  <2> QED
    BY <2>1 DEF InflightInv, Users
<1>5. ASSUME NEW h \in Handles,
             BeginCancel(h) \/ CancelOne(h) \/ EndCancel(h)
      PROVE  InflightInv'
  BY <1>5 DEF BeginCancel, CancelOne, EndCancel, InflightInv, Users, threads
<1>6. ASSUME NEW h \in Handles, CloseHandle(h)
      PROVE  InflightInv'
  <2>1. handle' = handle /\ inflight' = inflight
    BY <1>6 DEF CloseHandle, threads
  <2>2. \A i \in Handles : quit'[i] = "closed" => quit[i] = "closed"
    BY <1>6 DEF CloseHandle, TypeInv
  <2> QED
    BY <2>1, <2>2 DEF InflightInv, Users
<1>7. ASSUME NEW h \in Handles, HandleClosed(h)
      PROVE  InflightInv'
  <2>1. Users(h) = {}
    BY <1>7, UsersAreFinite, FS_EmptySet DEF HandleClosed, InflightInv
  <2> QED
    BY <1>7, <2>1 DEF HandleClosed, InflightInv, Users, TypeInv, threads
<1>8. CASE ClosePool \/ Retire
  BY <1>8 DEF ClosePool, Retire, InflightInv, Users, threads, handles
<1> QED
  BY <1>1, <1>2, <1>3, <1>4, <1>5, <1>6, <1>7, <1>8 DEF Next, Step

-----------------------------------------------------------------------------
(* The theorems *)

\* The inductive invariant holds.
THEOREM Invariance == Spec => []IInv
<1>1. IInv /\ [Next]_vars => IInv'
  BY TypeInvNext, PlaceInvNext, LoanInvNext, ActiveInvNext, CountInvNext, WakeInvNext,
     InflightInvNext DEF IInv
<1> QED
  BY IInvInit, <1>1, PTL DEF Spec

\* Types; _count stays between 0 and the capacity, _inflight never goes below 0.
THEOREM TypeCorrect == Spec => []TypeOK
<1>1. IInv => TypeOK
  <2> SUFFICES ASSUME IInv
               PROVE  TypeOK
    OBVIOUS
  <2>1. count \in 0..Capacity
    BY AtIsFinite, IdleCounts, CapacityAssumption DEF IInv, CountInv, TypeInv
  <2>2. \A h \in Handles : inflight[h] \in Nat
    BY UsersAreFinite, FS_CardinalityType DEF IInv, InflightInv
  <2> QED
    BY <2>1, <2>2 DEF IInv, TypeInv, TypeOK
<1> QED
  BY <1>1, Invariance, PTL

\* The pool never keeps, lends and builds more clients than its capacity.
THEOREM CapacityKept == Spec => []WithinCapacity
<1>1. IInv => WithinCapacity
  BY DEF IInv, CountInv, WithinCapacity
<1> QED
  BY <1>1, Invariance, PTL

\* A client is in one place at a time: idle, with one thread, or being closed.
THEOREM LoansExclusive == Spec => []ExclusiveLoans
<1>1. IInv => ExclusiveLoans
  BY DEF IInv, LoanInv
<1> QED
  BY <1>1, Invariance, PTL

\* No native session is forgotten: failing factories, discarded clients, late
\* threads and close() leave none open that nobody holds or will close.
THEOREM NoSessionForgotten == Spec => []NothingLeaks
<1>1. IInv => NothingLeaks
  BY DEF IInv, LoanInv
<1> QED
  BY <1>1, Invariance, PTL

\* Cancellation reaches only clients its own request is using.
THEOREM CancelStaysHome == Spec => []CancelReachesOwnLoans
<1>1. IInv => CancelReachesOwnLoans
  BY DEF IInv, ActiveInv, TypeInv, CancelReachesOwnLoans
<1> QED
  BY <1>1, Invariance, PTL

\* No notification of the pool's condition is lost.
THEOREM WakeupsKept == Spec => []NoLostWakeup
<1>1. IInv => NoLostWakeup
  <2> SUFFICES ASSUME IInv, At(pc, {"waiting"}) # {}
               PROVE  /\ ~closed
                      /\ Cardinality(idle) + (Capacity - count)
                           <= Cardinality(At(pc, Looking \union {"expired"}))
    BY DEF NoLostWakeup
  <2> DEFINE N == At(pc, Notified)
             G == At(pc, Charged)
  <2>1. At(pc, Charged \union Notified) = G \union N /\ G \intersect N = {}
    BY DEF At, Charged, Notified
  <2>2. IsFiniteSet(G) /\ IsFiniteSet(N) /\ Cardinality(G) \in Nat /\ Cardinality(N) \in Nat
    BY AtIsFinite
  <2> HIDE DEF N, G
  <2>3. Cardinality(G \union N) = Cardinality(G) + Cardinality(N)
    BY <2>1, <2>2, FS_Union, FS_EmptySet
  <2> USE DEF N, G
  <2>4. N \in SUBSET At(pc, Looking \union {"expired"})
    BY DEF At, Notified, Looking
  <2>5. Cardinality(N) <= Cardinality(At(pc, Looking \union {"expired"}))
    BY <2>4, AtIsFinite, FS_Subset
  <2>6. count = Cardinality(idle) + Cardinality(G) /\ Cardinality(idle) \in Nat
    BY IdleCounts DEF IInv, CountInv
  <2>7. ~closed /\ Cardinality(G \union N) >= Capacity
    BY <2>1 DEF IInv, WakeInv
  <2>8. Cardinality(At(pc, Looking \union {"expired"})) \in Nat
    BY AtIsFinite
  <2> HIDE DEF N, G
  <2> QED
    BY <2>2, <2>3, <2>5, <2>6, <2>7, <2>8, CapacityAssumption
<1> QED
  BY <1>1, Invariance, PTL

\* When close() of a handle has returned, no thread works for it.
THEOREM QuietWhenClosed == Spec => []ClosedHandleIsQuiet
<1>1. IInv => ClosedHandleIsQuiet
  BY DEF IInv, InflightInv, Users, ClosedHandleIsQuiet
<1> QED
  BY <1>1, Invariance, PTL
=============================================================================
