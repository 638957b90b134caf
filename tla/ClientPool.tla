----------------------------- MODULE ClientPool -----------------------------
(***************************************************************************)
(* analytical/resources.py: a pool of native clients shared by the threads *)
(* of a process, and the request-owned handles (PooledQueries) through     *)
(* which the threads borrow them.                                          *)
(*                                                                         *)
(* A step is what a thread does while it holds one of the two conditions   *)
(* (the pool's, the handle's), or one call of a native client.             *)
(***************************************************************************)
EXTENDS Integers, FiniteSets

CONSTANTS
    Threads, Handles, Clients,
    NoHandle, NoClient,
    Capacity,      \* clients the pool keeps or lends at a time
    MaxExpiries    \* bound: idle clients found to have expired

ASSUME SetsAssumption ==
    /\ IsFiniteSet(Threads) /\ IsFiniteSet(Clients)
    /\ NoHandle \notin Handles /\ NoClient \notin Clients
ASSUME CapacityAssumption == Capacity \in Nat \ {0}
ASSUME BoundAssumption == MaxExpiries \in Nat

VARIABLES
    closed,     \* the pool's _closed
    idle,       \* the pool's _idle
    count,      \* the pool's _count
    retiring,   \* idle clients that close() has taken out and has yet to close
    open,       \* native clients that exist and have not been closed
    pc,         \* [Threads -> where its query is]
    handle,     \* [Threads -> the handle the query came through]
    loan,       \* [Threads -> the client in its hands]
    reusable,   \* [Threads -> whether its query returned]
    quit,       \* [Handles -> "no", "closing", "closed"]; _closed is # "no"
    inflight,   \* [Handles -> _inflight]
    active,     \* [Handles -> _active]
    cancel,     \* [Handles -> "no", "held", "done"]; held: cancel() has the condition
    targets,    \* [Handles -> the clients cancel() has yet to call]
    expiries    \* clients found to have expired so far

pool == <<closed, idle, count, retiring, open>>
threads == <<pc, handle, loan, reusable>>
handles == <<quit, inflight, active, cancel, targets>>
vars == <<pool, threads, handles, expiries>>

-----------------------------------------------------------------------------
(* Helpers *)

Labels == {"off", "checkout", "waiting", "late", "lapsed", "expired", "building",
           "loaned", "running", "returned", "release", "discard", "leaving"}
Looking == {"checkout", "late", "lapsed"}     \* at the top of acquire's loop
Charged == {"building", "loaned", "running", "returned", "release"}  \* counted
Borrowing == {"running", "returned"}          \* in its handle's _active

At(f, S) == {t \in Threads : f[t] \in S}
Goto(t, l) == pc' = [pc EXCEPT ![t] = l]

\* notify() of the pool's condition: one waiter, if there is one, goes back to
\* the top of acquire's loop.  A waiter whose time is up stays on the condition's
\* list until it has the lock again, so the notification may go to it: that
\* waiter ("late", then "lapsed") is on its way anyway.
Notify(f) ==
    IF At(f, {"waiting", "late"}) = {} THEN {f}
    ELSE    {[f EXCEPT ![t] = "checkout"] : t \in At(f, {"waiting"})}
     \union {[f EXCEPT ![t] = "lapsed"] : t \in At(f, {"late"})}
\* notify_all() does so to every waiter.
Woken(l) == CASE l = "waiting" -> "checkout" [] l = "late" -> "lapsed" [] OTHER -> l
GotoAndNotify(t, l) == pc' \in Notify([pc EXCEPT ![t] = l])

\* The handle's condition is free, unless cancel() has it.
Free(h) == cancel[h] # "held"

Init ==
    /\ closed = FALSE /\ idle = {} /\ count = 0 /\ retiring = {} /\ open = {}
    /\ pc = [t \in Threads |-> "off"]
    /\ handle = [t \in Threads |-> NoHandle]
    /\ loan = [t \in Threads |-> NoClient]
    /\ reusable = [t \in Threads |-> FALSE]
    /\ quit = [h \in Handles |-> "no"]
    /\ inflight = [h \in Handles |-> 0]
    /\ active = [h \in Handles |-> {}]
    /\ cancel = [h \in Handles |-> "no"]
    /\ targets = [h \in Handles |-> {}]
    /\ expiries = 0

-----------------------------------------------------------------------------
(* PooledQueries._run up to the pool *)

Query(t, h) ==
    /\ pc[t] = "off" /\ Free(h)
    /\ quit[h] = "no"
    /\ inflight' = [inflight EXCEPT ![h] = @ + 1]
    /\ handle' = [handle EXCEPT ![t] = h]
    /\ Goto(t, "checkout")
    /\ UNCHANGED <<pool, loan, reusable, quit, active, cancel, targets, expiries>>

-----------------------------------------------------------------------------
(* ClientPool.acquire *)

\* Mutant of TakeIdle: the client is read and not popped.
TakeIdleKept(t) ==
    /\ pc[t] \in Looking /\ ~closed
    /\ \E c \in idle : loan' = [loan EXCEPT ![t] = c]
    /\ Goto(t, "loaned")
    /\ UNCHANGED <<pool, handle, reusable, handles, expiries>>

TakeIdle(t) ==
    /\ pc[t] \in Looking /\ ~closed
    /\ \E c \in idle :
          /\ idle' = idle \ {c}
          /\ loan' = [loan EXCEPT ![t] = c]
    /\ Goto(t, "loaned")
    /\ UNCHANGED <<closed, count, retiring, open, handle, reusable, handles, expiries>>

\* The client has been idle for too long: it gives up its place, and is
\* closed outside the condition before the loop goes on.
TakeExpired(t) ==
    /\ pc[t] \in Looking /\ ~closed
    /\ expiries < MaxExpiries
    /\ expiries' = expiries + 1
    /\ \E c \in idle :
          /\ idle' = idle \ {c}
          /\ loan' = [loan EXCEPT ![t] = c]
    /\ count' = count - 1
    /\ GotoAndNotify(t, "expired")
    /\ UNCHANGED <<closed, retiring, open, handle, reusable, handles>>

CloseExpired(t) ==
    /\ pc[t] = "expired"
    /\ open' = open \ {loan[t]}
    /\ loan' = [loan EXCEPT ![t] = NoClient]
    /\ Goto(t, "checkout")
    /\ UNCHANGED <<closed, idle, count, retiring, handle, reusable, handles, expiries>>

Reserve(t) ==
    /\ pc[t] \in Looking /\ ~closed
    /\ idle = {} /\ count < Capacity
    /\ count' = count + 1
    /\ Goto(t, "building")
    /\ UNCHANGED <<closed, idle, retiring, open, handle, loan, reusable, handles, expiries>>

Build(t) ==
    /\ pc[t] = "building"
    /\ \E c \in Clients \ open :
          /\ open' = open \union {c}
          /\ loan' = [loan EXCEPT ![t] = c]
    /\ Goto(t, "loaned")
    /\ UNCHANGED <<closed, idle, count, retiring, handle, reusable, handles, expiries>>

\* Mutant of BuildFails: the place is given back, but nobody is told.
BuildFailsSilently(t) ==
    /\ pc[t] = "building"
    /\ count' = count - 1
    /\ Goto(t, "leaving")
    /\ UNCHANGED <<closed, idle, retiring, open, handle, loan, reusable, handles, expiries>>

\* The factory raises.
BuildFails(t) ==
    /\ pc[t] = "building"
    /\ count' = count - 1
    /\ GotoAndNotify(t, "leaving")
    /\ UNCHANGED <<closed, idle, retiring, open, handle, loan, reusable, handles, expiries>>

NothingLeft == ~closed /\ idle = {} /\ count >= Capacity

Wait(t) ==
    /\ pc[t] = "checkout" /\ NothingLeft
    /\ Goto(t, "waiting")
    /\ UNCHANGED <<pool, handle, loan, reusable, handles, expiries>>

TimeOut(t) ==
    /\ pc[t] = "waiting"
    /\ Goto(t, "late")
    /\ UNCHANGED <<pool, handle, loan, reusable, handles, expiries>>

\* The wait is used up and there is still nothing.
Busy(t) ==
    /\ pc[t] \in Looking /\ NothingLeft
    /\ Goto(t, "leaving")
    /\ UNCHANGED <<pool, handle, loan, reusable, handles, expiries>>

PoolIsClosed(t) ==
    /\ pc[t] \in Looking /\ closed
    /\ Goto(t, "leaving")
    /\ UNCHANGED <<pool, handle, loan, reusable, handles, expiries>>

-----------------------------------------------------------------------------
(* PooledQueries._run with a client *)

Register(t) ==
    /\ pc[t] = "loaned" /\ Free(handle[t])
    /\ active' = [active EXCEPT ![handle[t]] = @ \union {loan[t]}]
    /\ Goto(t, "running")
    /\ UNCHANGED <<pool, handle, loan, reusable, quit, inflight, cancel, targets, expiries>>

\* The native call returns, or raises (also because it was cancelled).
Return(t) ==
    /\ pc[t] = "running"
    /\ \E r \in BOOLEAN : reusable' = [reusable EXCEPT ![t] = r]
    /\ Goto(t, "returned")
    /\ UNCHANGED <<pool, handle, loan, handles, expiries>>

Unregister(t) ==
    /\ pc[t] = "returned" /\ Free(handle[t])
    /\ active' = [active EXCEPT ![handle[t]] = @ \ {loan[t]}]
    /\ Goto(t, "release")
    /\ UNCHANGED <<pool, handle, loan, reusable, quit, inflight, cancel, targets, expiries>>

\* Mutant of Release: a closed pool takes clients back.
ReleaseAnyway(t) ==
    /\ pc[t] = "release"
    /\ IF ~reusable[t]
       THEN /\ count' = count - 1 /\ GotoAndNotify(t, "discard")
            /\ UNCHANGED <<idle, loan>>
       ELSE /\ idle' = idle \union {loan[t]}
            /\ loan' = [loan EXCEPT ![t] = NoClient]
            /\ GotoAndNotify(t, "leaving")
            /\ UNCHANGED count
    /\ UNCHANGED <<closed, retiring, open, handle, reusable, handles, expiries>>

\* ClientPool.release
Release(t) ==
    /\ pc[t] = "release"
    /\ IF closed \/ ~reusable[t]
       THEN /\ count' = count - 1 /\ GotoAndNotify(t, "discard")
            /\ UNCHANGED <<idle, loan>>
       ELSE /\ idle' = idle \union {loan[t]}
            /\ loan' = [loan EXCEPT ![t] = NoClient]
            /\ GotoAndNotify(t, "leaving")
            /\ UNCHANGED count
    /\ UNCHANGED <<closed, retiring, open, handle, reusable, handles, expiries>>

\* Mutant of Discard: the client is dropped without being closed.
DiscardUnclosed(t) ==
    /\ pc[t] = "discard"
    /\ loan' = [loan EXCEPT ![t] = NoClient]
    /\ Goto(t, "leaving")
    /\ UNCHANGED <<pool, handle, reusable, handles, expiries>>

Discard(t) ==
    /\ pc[t] = "discard"
    /\ open' = open \ {loan[t]}
    /\ loan' = [loan EXCEPT ![t] = NoClient]
    /\ Goto(t, "leaving")
    /\ UNCHANGED <<closed, idle, count, retiring, handle, reusable, handles, expiries>>

Leave(t) ==
    /\ pc[t] = "leaving" /\ Free(handle[t])
    /\ inflight' = [inflight EXCEPT ![handle[t]] = @ - 1]
    /\ handle' = [handle EXCEPT ![t] = NoHandle]
    /\ reusable' = [reusable EXCEPT ![t] = FALSE]
    /\ Goto(t, "off")
    /\ UNCHANGED <<pool, loan, quit, active, cancel, targets, expiries>>

-----------------------------------------------------------------------------
(* Cancellation and shutdown *)

\* cancel() holds the handle's condition while it calls one client after the
\* other.  Bound: a handle is cancelled once.
BeginCancel(h) ==
    /\ cancel[h] = "no"
    /\ cancel' = [cancel EXCEPT ![h] = "held"]
    /\ targets' = [targets EXCEPT ![h] = active[h]]
    /\ UNCHANGED <<pool, threads, quit, inflight, active, expiries>>

\* One client's cancel(); the thread that uses the client goes on on its own.
CancelOne(h) ==
    /\ \E c \in targets[h] : targets' = [targets EXCEPT ![h] = @ \ {c}]
    /\ UNCHANGED <<pool, threads, quit, inflight, active, cancel, expiries>>

EndCancel(h) ==
    /\ cancel[h] = "held" /\ targets[h] = {}
    /\ cancel' = [cancel EXCEPT ![h] = "done"]
    /\ UNCHANGED <<pool, threads, quit, inflight, active, targets, expiries>>

CloseHandle(h) ==
    /\ quit[h] = "no" /\ Free(h)
    /\ quit' = [quit EXCEPT ![h] = "closing"]
    /\ UNCHANGED <<pool, threads, inflight, active, cancel, targets, expiries>>

\* close() returns once nothing is in flight.
HandleClosed(h) ==
    /\ quit[h] = "closing" /\ Free(h)
    /\ inflight[h] = 0
    /\ quit' = [quit EXCEPT ![h] = "closed"]
    /\ UNCHANGED <<pool, threads, inflight, active, cancel, targets, expiries>>

\* ClientPool.close, at shutdown or when get_pool replaces the pool.
ClosePool ==
    /\ ~closed
    /\ closed' = TRUE
    /\ retiring' = idle
    /\ idle' = {}
    /\ count' = count - Cardinality(idle)
    /\ pc' = [t \in Threads |-> Woken(pc[t])]
    /\ UNCHANGED <<open, handle, loan, reusable, handles, expiries>>

Retire ==
    /\ \E c \in retiring :
          /\ retiring' = retiring \ {c}
          /\ open' = open \ {c}
    /\ UNCHANGED <<closed, idle, count, threads, handles, expiries>>

-----------------------------------------------------------------------------
(* Specification *)

Step(t) ==
    \/ TakeIdle(t) \/ TakeExpired(t) \/ CloseExpired(t)
    \/ Reserve(t) \/ Build(t) \/ BuildFails(t)
    \/ Wait(t) \/ TimeOut(t) \/ Busy(t) \/ PoolIsClosed(t)
    \/ Register(t) \/ Return(t) \/ Unregister(t)
    \/ Release(t) \/ Discard(t) \/ Leave(t)

Next ==
    \/ \E t \in Threads : Step(t) \/ \E h \in Handles : Query(t, h)
    \/ \E h \in Handles :
          BeginCancel(h) \/ CancelOne(h) \/ EndCancel(h) \/ CloseHandle(h) \/ HandleClosed(h)
    \/ ClosePool
    \/ Retire

Spec == Init /\ [][Next]_vars

\* Threads run, native calls return (the statement and socket timeouts see to
\* it), waits time out.  A thread does not wait again and again while others
\* take what it was woken for: its deadline is set once, when acquire begins, and
\* past it the thread gives up.  Nothing makes a caller query, cancel or close.
Fairness ==
    /\ \A t \in Threads : WF_vars(Step(t)) /\ SF_vars(Busy(t))
    /\ \A h \in Handles : WF_vars(CancelOne(h) \/ EndCancel(h)) /\ WF_vars(HandleClosed(h))
    /\ WF_vars(Retire)

FairSpec == Spec /\ Fairness

-----------------------------------------------------------------------------
(* Properties *)

\* Type invariant; _count counts from 0 to the capacity, _inflight from 0.
TypeOK ==
    /\ closed \in BOOLEAN /\ idle \subseteq Clients /\ count \in 0..Capacity
    /\ retiring \subseteq Clients /\ open \subseteq Clients
    /\ pc \in [Threads -> Labels]
    /\ handle \in [Threads -> Handles \union {NoHandle}]
    /\ loan \in [Threads -> Clients \union {NoClient}]
    /\ reusable \in [Threads -> BOOLEAN]
    /\ quit \in [Handles -> {"no", "closing", "closed"}]
    /\ inflight \in [Handles -> Nat]
    /\ active \in [Handles -> SUBSET Clients]
    /\ cancel \in [Handles -> {"no", "held", "done"}]
    /\ targets \in [Handles -> SUBSET Clients]
    /\ expiries \in Nat

\* The docs: a pool of at most three native clients.  What the pool keeps and
\* lends, and what a factory is about to add, never exceeds its capacity.
WithinCapacity ==
    Cardinality(idle) + Cardinality(At(pc, Charged)) <= Capacity

\* Queries borrow a client exclusively: it is in no other thread's hands, not
\* idle and not about to be closed; and no client that has been closed is in
\* anybody's hands.
ExclusiveLoans ==
    /\ \A t \in Threads : loan[t] # NoClient =>
          /\ loan[t] \in open /\ loan[t] \notin idle \union retiring
          /\ \A u \in Threads \ {t} : loan[u] # loan[t]
    /\ idle \subseteq open

\* No native session is forgotten: one that is open is idle, in a thread's
\* hands, or about to be closed by close().
NothingLeaks ==
    open \subseteq idle \union retiring \union {loan[t] : t \in Threads}

\* resources.py: holding this lock prevents cancellation reaching the client's
\* next borrower.
CancelReachesOwnLoans ==
    \A h \in Handles : \A c \in targets[h] :
        \E t \in At(pc, Borrowing) : handle[t] = h /\ loan[t] = c

\* A thread waits only while every place or idle client there is has a thread
\* on its way to take it: no notify() is lost on a failing factory, an expired
\* client, a thread that timed out or one that came late.
NoLostWakeup ==
    At(pc, {"waiting"}) # {} =>
        /\ ~closed
        /\ Cardinality(idle) + (Capacity - count)
             <= Cardinality(At(pc, Looking \union {"expired"}))

\* close() of a handle returns when no thread of the request holds or will
\* get a client through it.
ClosedHandleIsQuiet ==
    \A h \in Handles : quit[h] = "closed" => \A t \in Threads : handle[t] # h

\* close() of a handle does return,
HandleCloseReturns == \A h \in Handles : quit[h] = "closing" ~> quit[h] = "closed"

\* and once the pool is closed every native session ends.
ClosedPoolDrains == closed ~> open = {}

\* Shutting down comes to an end, for a request and for the process.
ShutdownEnds == HandleCloseReturns /\ ClosedPoolDrains
=============================================================================
