----------------------------- MODULE ReadService -----------------------------
(***************************************************************************)
(* One process that answers tools/call requests (mcp_external/server.py,   *)
(* dispatch.py, auth.py, concurrency.py, datasets.py and the registry      *)
(* cache of engine/scenario_registry.py).                                  *)
(*                                                                         *)
(* A request is a JSON-RPC batch.  Its authentication and the gate of each *)
(* of its calls run on the event loop, one request at a time; the tool     *)
(* itself runs in a thread, under a slot of its user and a slot of the     *)
(* process.  All of them, and the threads that write scenarios, share the  *)
(* registry cache and its lock.  A successful read leaves a snapshot in    *)
(* Redis, which a later call may chart.                                    *)
(***************************************************************************)
EXTENDS ScenarioKeys

CONSTANTS
    Requests, Users,
    Settings,       \* who sends each request, and the caps the process read
    Registries,     \* the contents of semantic.scenarios, write after write
    FirstProfile, Profiles,     \* the definitions an administrator assigns
    Batches,        \* the sequences of calls a request may carry
    DefaultKey,     \* default_scenario of run_statement and run_metric
    MaxSnapshots,   \* PRECIS_DATASET_USER_COUNT
    MaxTries,       \* attempts of a Redis transaction
    MaxChanges      \* bound: assignments an administrator changes

Nobody == "nobody"
Versions == DOMAIN Registries
Known == UNION {Registries[v] : v \in Versions}

ASSUME RequestsAssumption == IsFiniteSet(Requests) /\ Nobody \notin Requests
ASSUME SettingsAssumption ==
    \A s \in Settings : s.owner \in [Requests -> Users] /\ s.caps \in [user : Nat, global : Nat]
ASSUME BatchesAssumption ==
    \A b \in Batches :
        b # <<>> /\ b \in Seq([tool : {"run", "search", "chart"}, key : Seq(STRING)])
ASSUME DefaultKeyAssumption == DefaultKey \in Seq(STRING)
ASSUME SnapshotsAssumption == MaxSnapshots \in Nat

\* Nothing alters the id or the alias of a row (update_scenario_metadata), so a
\* row is the same in every version that has it.
ASSUME RegistriesAssumption ==
    Len(Registries) \in Nat \ {0} /\ Versions = 1 .. Len(Registries)

\* What the code relies on and does not enforce: no alias is another row's id,
\* and no name is spelt like a generated key.
ASSUME NamesAssumption ==
    /\ \A s \in Known : \A n \in Spellings(s) : n \in Seq(STRING) /\ Unmistakable(n)
    /\ \A s, t \in Known : s # t => Spellings(s) \cap Spellings(t) = {}

Everything == "everything"      \* a ScopeSpec of None: no restriction

(***************************************************************************)
(* Permissions: what a profile grants on the scenarios of a registry.      *)
(***************************************************************************)
Roles == <<"analyst", "planner", "manager">>
RoleRank(role) == CHOOSE i \in DOMAIN Roles : Roles[i] = role
MinRank == [read |-> 1, write |-> 2, plan_manager |-> 3]

Categories ==
    [p \in {<<"ACTUAL">>, <<"BUDGET">>, <<"FORECAST">>, <<"PLAN">>} |->
        IF p = <<"PLAN">> THEN {"BUDGET", "FORECAST"} ELSE {p[1]}]

\* _pattern_match_rank: 0 when the pattern does not match the scenario.
MatchRank(pattern, s) ==
    IF pattern = s.id THEN 4
    ELSE IF pattern = <<"*">> THEN 1
    ELSE IF pattern \notin DOMAIN Categories \/ s.kind \notin Categories[pattern] THEN 0
    ELSE IF pattern = <<"PLAN">> THEN 2 ELSE 3

\* The role blocks of the most specific pattern; none when nothing matches.
Blocks(profile, s) ==
    LET hits == {p \in DOMAIN profile : MatchRank(p, s) > 0}
        best == CHOOSE p \in hits : \A q \in hits : MatchRank(q, s) <= MatchRank(p, s)
    IN IF hits = {} THEN <<>> ELSE profile[best]

\* _compute_tool_scopes: the lowest declared role that may use the tool.
ToolScopes(blocks) ==
    LET able(tool) == {r \in DOMAIN blocks : RoleRank(r) >= MinRank[tool]}
        lowest(tool) == CHOOSE r \in able(tool) :
                           \A q \in able(tool) : RoleRank(r) <= RoleRank(q)
    IN [tool \in {u \in DOMAIN MinRank : able(u) # {}} |-> blocks[lowest(tool)]]

\* load_permissions: scenario id -> tool type -> scope.
Permissions(profile, reg) ==
    LET granted == {s \in reg : DOMAIN Blocks(profile, s) # {}}
        row(id) == CHOOSE s \in granted : s.id = id
    IN [id \in {s.id : s \in granted} |-> ToolScopes(Blocks(profile, row(id)))]

Readable(perms) == {id \in DOMAIN perms : "read" \in DOMAIN perms[id]}
ReadScopes(perms, ids) == [id \in ids |-> perms[id]["read"]]

\* permission_stamp: the whole of what the user may read.
Stamp(perms) == ReadScopes(perms, Readable(perms))

\* The reference a call names, and the scenarios the gate asks for: an
\* unknown key is taken as an id, and so it is without a registry.
KeyOfCall(call) == IF call.key = <<>> THEN DefaultKey ELSE call.key

NoRegistry == 0
RowsOf(v) == IF v = NoRegistry THEN {} ELSE Registries[v]

Involved(v, key) ==
    LET ref == Resolve(RowsOf(v), key)
    IN IF ref = Unknown THEN {key} ELSE Dependencies(ref)

NoScope == <<>>

\* The same, tabulated once for the constants.
Loads == [v \in Versions |-> Loadable(RowsOf(v))]
Keys == {DefaultKey} \cup UNION {{b[i].key : i \in DOMAIN b} : b \in Batches}
Asked == [v \in Versions \cup {NoRegistry} |-> [k \in Keys |-> Involved(v, k)]]
Resolved == [v \in Versions |-> [k \in Keys |->
               LET ref == Resolve(RowsOf(v), k)
               IN IF ref = Unknown THEN {} ELSE Dependencies(ref)]]
Granted == [p \in Profiles \cup {FirstProfile} |->
              [v \in Versions |-> Permissions(p, RowsOf(v))]]

VARIABLES
    table,          \* the version of semantic.scenarios in the database
    cache,          \* _registry_cache: a fresh version, or NoRegistry
    loading,        \* who holds _registry_cache_lock, and what it has read
    settled,        \* the version of the last local write that has returned
    writer,         \* the thread that writes: idle, or yet to invalidate
    profile,        \* the profile assigned to each user
    changes,
    owner, caps,    \* who sent each request; the caps the process read
    loop,           \* the request the event loop is serving
    userFree, globalFree,   \* the semaphores
    req,            \* where each request stands
    snaps,          \* the live snapshots, by reference
    clean           \* requests whose WATCHed keys nobody has touched

vars == <<table, cache, loading, settled, writer, profile, changes, owner, caps,
          loop, userFree, globalFree, req, snaps, clean>>
registry == <<table, cache, loading, settled, writer>>
limiter == <<userFree, globalFree, caps>>
store == <<snaps, clean>>
people == <<profile, changes, owner>>

NoLoad == [by |-> Nobody, v |-> NoRegistry]
Idle == [pc |-> "idle", rest |-> <<>>, profile |-> <<>>, perms |-> <<>>,
         gated |-> {}, scope |-> NoScope, ran |-> {}, served |-> NoScope, tries |-> 0]

Init ==
    /\ table = 1 /\ cache = NoRegistry /\ loading = NoLoad /\ settled = 1
    /\ writer = "idle"
    /\ profile = [u \in Users |-> FirstProfile] /\ changes = 0
    /\ \E s \in Settings : owner = s.owner /\ caps = s.caps
    /\ loop = Nobody
    /\ userFree = [u \in Users |-> caps.user] /\ globalFree = caps.global
    /\ req = [r \in Requests |-> Idle]
    /\ snaps = <<>> /\ clean = {}

Call(r) == Head(req[r].rest)
At(r, pc) == req[r].pc = pc
Goto(r, pc) == req' = [req EXCEPT ![r].pc = pc]
Becomes(r, q) == req' = [req EXCEPT ![r] = q]

\* Mutant: the clearing is forgotten.
Kept(scope) == scope

\* clear_call_scope, by the gate and by the finally of _handle_tools_call.
Cleared(scope) == NoScope

\* The call at hand is over; the batch goes on with the next one.
Finished(r) ==
    LET left == Tail(req[r].rest)
    IN [req[r] EXCEPT !.pc = IF left = <<>> THEN "answered" ELSE "next", !.rest = left,
                      !.gated = {}, !.scope = Cleared(@), !.ran = {}, !.served = NoScope,
                      !.tries = 0]

(***************************************************************************)
(* The registry cache.  A lookup is served from the cache while it is      *)
(* fresh; otherwise the caller takes the lock, looks again, reads the      *)
(* table, publishes what it read and lets go.                              *)
(***************************************************************************)
AtGate(r) == req[r].pc = "next" /\ loop \in {r, Nobody}
LooksUp(r) ==
    req[r].pc \in {"auth", "engine"} \/ (AtGate(r) /\ Call(r).tool = "run")

Query(r) ==
    /\ LooksUp(r) /\ cache = NoRegistry /\ loading = NoLoad
    /\ loading' = [by |-> r, v |-> table]
    /\ loop' = IF At(r, "engine") THEN loop ELSE r
    /\ UNCHANGED <<table, cache, settled, writer, people, limiter, req, store>>

\* What the registry is to the caller at its next step, and to the others.
Hit(r, v) ==
    /\ v = cache /\ v # NoRegistry /\ loading.by # r
    /\ UNCHANGED registry

Publish(r, v) ==
    /\ loading.by = r /\ v = loading.v
    /\ Loads[v]
    /\ cache' = v /\ loading' = NoLoad
    /\ UNCHANGED <<table, settled, writer>>

\* Mutant: a failed load that leaves the lock behind.
LoadFailsHolding(r) ==
    /\ loading.by = r
    /\ UNCHANGED registry

\* The query raises, or the rows do not make a registry: nothing is served.
LoadFails(r) ==
    /\ loading.by = r
    /\ loading' = NoLoad
    /\ UNCHANGED <<table, cache, settled, writer>>

Obtains(r, v) == Hit(r, v) \/ Publish(r, v)

Expire ==
    /\ cache # NoRegistry
    /\ cache' = NoRegistry
    /\ UNCHANGED <<table, loading, settled, writer, people, limiter, loop, req, store>>

\* ScenarioStore: the row is written, then the cache is invalidated under
\* the lock that loads hold.
LocalWrite ==
    /\ writer = "idle" /\ table < Len(Registries)
    /\ table' = table + 1 /\ writer' = "wrote"
    /\ UNCHANGED <<cache, loading, settled, people, limiter, loop, req, store>>

\* Mutant: an invalidation that does not wait for the load in flight.
InvalidateUnlocked ==
    /\ writer = "wrote"
    /\ cache' = NoRegistry /\ writer' = "idle" /\ settled' = table
    /\ UNCHANGED <<table, loading, people, limiter, loop, req, store>>

LocalInvalidate ==
    /\ writer = "wrote" /\ loading = NoLoad
    /\ cache' = NoRegistry /\ writer' = "idle" /\ settled' = table
    /\ UNCHANGED <<table, loading, people, limiter, loop, req, store>>

\* Another process writes a scenario; this one learns of it by the TTL.
RemoteWrite ==
    /\ table < Len(Registries) /\ writer = "idle"
    /\ table' = table + 1
    /\ UNCHANGED <<cache, loading, settled, writer, people, limiter, loop, req, store>>

(***************************************************************************)
(* A request arrives and is authenticated: the user and profile rows are   *)
(* read before the registry is consulted for the scenarios' kinds.         *)
(***************************************************************************)
Arrive(r) ==
    /\ At(r, "idle") /\ loop = Nobody
    /\ \E b \in Batches :
         LET p == profile[owner[r]]
         IN Becomes(r, [req[r] EXCEPT !.pc = IF p = <<>> THEN "next" ELSE "auth",
                                      !.rest = b, !.profile = p])
    /\ loop' = IF profile[owner[r]] = <<>> THEN Nobody ELSE r
    /\ UNCHANGED <<registry, people, limiter, store>>

Authenticate(r) ==
    /\ At(r, "auth")
    /\ \E v \in Versions :
         /\ Obtains(r, v)
         /\ Becomes(r, [req[r] EXCEPT !.pc = "next",
                                      !.perms = Granted[req[r].profile][v]])
    /\ loop' = Nobody
    /\ UNCHANGED <<people, limiter, store>>

AuthenticateFails(r) ==
    /\ At(r, "auth")
    /\ LoadFails(r)
    /\ Becomes(r, [req[r] EXCEPT !.pc = "answered", !.rest = <<>>])
    /\ loop' = Nobody
    /\ UNCHANGED <<people, limiter, store>>

(***************************************************************************)
(* _permission_gate: every scenario the call involves is readable.  A call *)
(* without a scenario passes.  The scope is published when there is one.   *)
(***************************************************************************)
GateWith(r, v) ==
    LET ids == Asked[v][KeyOfCall(Call(r))]
        scopes == ReadScopes(req[r].perms, ids)
    IN IF ~(ids \subseteq Readable(req[r].perms))
       THEN Becomes(r, Finished(r))
       ELSE Becomes(r, [req[r] EXCEPT !.pc = "slot", !.gated = ids,
                           !.scope = IF \E id \in ids : scopes[id] # Everything
                                     THEN scopes ELSE Cleared(@)])

Gate(r) ==
    /\ AtGate(r) /\ Call(r).tool = "run"
    /\ \/ \E v \in Versions : Obtains(r, v) /\ GateWith(r, v)
       \/ LoadFails(r) /\ GateWith(r, NoRegistry)
    /\ loop' = IF req'[r].pc = "next" THEN r ELSE Nobody
    /\ UNCHANGED <<people, limiter, store>>

PassGate(r) ==
    /\ AtGate(r) /\ Call(r).tool # "run"
    /\ Becomes(r, [req[r] EXCEPT !.pc = "slot", !.scope = Cleared(@)])
    /\ loop' = Nobody
    /\ UNCHANGED <<registry, people, limiter, store>>

(***************************************************************************)
(* ReadConcurrencyLimiter: the user's slot, then the process's.            *)
(***************************************************************************)
TakeUser(r) ==
    LET u == owner[r] IN
    /\ At(r, "slot") /\ userFree[u] > 0
    /\ userFree' = [userFree EXCEPT ![u] = @ - 1]
    /\ Goto(r, "slots")
    /\ UNCHANGED <<registry, people, globalFree, caps, loop, store>>

Tools == [run |-> "engine", search |-> "leave", chart |-> "fetch"]

TakeGlobal(r) ==
    /\ At(r, "slots") /\ globalFree > 0
    /\ globalFree' = globalFree - 1
    /\ Goto(r, Tools[Call(r).tool])
    /\ UNCHANGED <<registry, people, userFree, caps, loop, store>>

\* The bounded wait ends: TooBusy, and what was taken goes back.
NoUserSlot(r) ==
    /\ At(r, "slot") /\ userFree[owner[r]] = 0
    /\ Becomes(r, Finished(r))
    /\ UNCHANGED <<registry, people, limiter, loop, store>>

\* Mutant: a wait that gives up with the user's slot in hand.
NoGlobalSlotKept(r) ==
    /\ At(r, "slots") /\ globalFree = 0
    /\ Becomes(r, Finished(r))
    /\ UNCHANGED <<registry, people, limiter, loop, store>>

NoGlobalSlot(r) ==
    /\ At(r, "slots") /\ globalFree = 0
    /\ userFree' = [userFree EXCEPT ![owner[r]] = @ + 1]
    /\ Becomes(r, Finished(r))
    /\ UNCHANGED <<registry, people, globalFree, caps, loop, store>>

\* The tool has returned; the async with block gives both slots back.
Leave(r) ==
    LET u == owner[r] IN
    /\ At(r, "leave")
    /\ userFree' = [userFree EXCEPT ![u] = @ + 1]
    /\ globalFree' = globalFree + 1
    /\ Becomes(r, Finished(r))
    /\ clean' = clean \ {r}
    /\ UNCHANGED <<registry, people, caps, loop, snaps>>

(***************************************************************************)
(* The engine looks the key up again, in the registry of that moment, and  *)
(* runs under the scope the gate left.                                     *)
(***************************************************************************)
Execute(r) ==
    /\ At(r, "engine")
    /\ \E v \in Versions :
         /\ Obtains(r, v)
         /\ LET ids == Resolved[v][KeyOfCall(Call(r))]
            IN Becomes(r, [req[r] EXCEPT !.pc = IF ids = {} THEN "leave" ELSE "watch",
                                         !.ran = ids])
    /\ UNCHANGED <<people, limiter, loop, store>>

ExecuteFails(r) ==
    /\ At(r, "engine")
    /\ LoadFails(r)
    /\ Goto(r, "leave")
    /\ UNCHANGED <<people, limiter, loop, store>>

(***************************************************************************)
(* The snapshots.  A writer watches its user's index, counts what is live, *)
(* and commits only if nobody has touched the index since.                 *)
(***************************************************************************)
Of(u) == {x \in DOMAIN snaps : snaps[x].owner = u}
Touched(u) == {r \in Requests : owner[r] = u}

Watch(r) ==
    /\ At(r, "watch")
    /\ IF Cardinality(Of(owner[r])) >= MaxSnapshots
       THEN Goto(r, "leave") /\ clean' = clean \ {r}
       ELSE Goto(r, "commit") /\ clean' = clean \cup {r}
    /\ UNCHANGED <<registry, people, limiter, loop, snaps>>

\* Once more, or no more.
Retry(r, pc) ==
    LET last == req[r].tries + 1 = MaxTries
    IN Becomes(r, [req[r] EXCEPT !.pc = IF last THEN "leave" ELSE pc, !.served = NoScope,
                                 !.tries = IF last THEN @ ELSE @ + 1])

\* EXEC: the watched keys are as they were.
Undisturbed(r) == r \in clean

Commit(r) ==
    LET u == owner[r]
        x == <<r, Len(req[r].rest)>>
        entry == [owner |-> u, stamp |-> Stamp(req[r].perms),
                  under |-> [id \in req[r].ran |->
                               IF id \in DOMAIN req[r].scope THEN req[r].scope[id]
                                                             ELSE Everything]]
    IN /\ At(r, "commit")
       /\ IF Undisturbed(r)
          THEN /\ snaps' = [y \in DOMAIN snaps \cup {x} |-> IF y = x THEN entry ELSE snaps[y]]
               /\ clean' = clean \ Touched(u)
               /\ Goto(r, "leave")
          ELSE /\ Retry(r, "watch")
               /\ UNCHANGED store
       /\ UNCHANGED <<registry, people, limiter, loop>>

\* check_access: the owner, under the very grants the rows were read with.
MayFetch(r, x) ==
    snaps[x].owner = owner[r] /\ snaps[x].stamp = Stamp(req[r].perms)

\* A chart names any reference; what the transaction read is what it serves.
Fetch(r) ==
    /\ At(r, "fetch")
    /\ \/ \E x \in DOMAIN snaps :
            /\ MayFetch(r, x)
            /\ Becomes(r, [req[r] EXCEPT !.pc = "renew", !.served = snaps[x].under])
            /\ clean' = clean \cup {r}
       \/ /\ Goto(r, "leave")
          /\ clean' = clean \ {r}
    /\ UNCHANGED <<registry, people, limiter, loop, snaps>>

Renew(r) ==
    /\ At(r, "renew")
    /\ IF Undisturbed(r)
       THEN Goto(r, "leave") /\ clean' = clean \ Touched(owner[r])
       ELSE Retry(r, "fetch") /\ UNCHANGED clean
    /\ UNCHANGED <<registry, people, limiter, loop, snaps>>

\* Nobody has fetched it for long enough, or it has reached its age.
Lapse ==
    /\ \E x \in DOMAIN snaps :
         /\ snaps' = [y \in DOMAIN snaps \ {x} |-> snaps[y]]
         /\ clean' = clean \ Touched(snaps[x].owner)
    /\ UNCHANGED <<registry, people, limiter, loop, req>>

\* An administrator assigns another profile, or takes it away (bound: of a
\* user with a request to come, which alone can tell).
ChangeProfile ==
    /\ changes < MaxChanges /\ changes' = changes + 1
    /\ \E r \in Requests, p \in Profiles \cup {<<>>} :
         /\ At(r, "idle") /\ p # profile[owner[r]]
         /\ profile' = [profile EXCEPT ![owner[r]] = p]
    /\ UNCHANGED <<registry, owner, limiter, loop, req, store>>

Serve(r) ==
    \/ Query(r) \/ Authenticate(r) \/ AuthenticateFails(r)
    \/ Gate(r) \/ PassGate(r)
    \/ TakeUser(r) \/ NoUserSlot(r) \/ TakeGlobal(r) \/ NoGlobalSlot(r)
    \/ Execute(r) \/ ExecuteFails(r)
    \/ Watch(r) \/ Commit(r) \/ Fetch(r) \/ Renew(r) \/ Leave(r)

Next ==
    \/ \E r \in Requests : Arrive(r) \/ Serve(r)
    \/ Expire \/ LocalWrite \/ LocalInvalidate \/ RemoteWrite
    \/ Lapse \/ ChangeProfile

\* The event loop and the threads run on; waits for a slot are bounded.
Spec == Init /\ [][Next]_vars /\ WF_vars(\E r \in Requests : Serve(r))

-----------------------------------------------------------------------------
(* The registry the process serves is no older than the last write of its  *)
(* own that has returned (get_scenario_registry: "Same-process scenario    *)
(* writes invalidate eagerly"), however loads and writes interleave.       *)
OwnWritesSeen == cache # NoRegistry => cache >= settled

(* Every slot is free or held by a request that is waiting or running, so  *)
(* neither cap shrinks as waits time out (ReadConcurrencyLimiter.acquire). *)
SlotsAccounted ==
    LET running == {"engine", "watch", "commit", "fetch", "renew", "leave"}
        holding(pcs) == {r \in Requests : req[r].pc \in pcs}
    IN /\ \A u \in Users :
            userFree[u] + Cardinality({r \in holding(running \cup {"slots"}) :
                                        owner[r] = u}) = caps.user
       /\ globalFree + Cardinality(holding(running)) = caps.global

(* What the engine runs is what the gate of this very call admitted, under *)
(* the scopes the caller has on it: not those of the previous call of the  *)
(* batch, nor those of scenarios the key has come to mean meanwhile        *)
(* (process_tool_call, _make_agent_wrapper, _safe_execute).                *)
RunsAsAdmitted ==
    \A r \in Requests : req[r].pc \in {"slot", "slots", "engine", "watch", "commit", "leave"} =>
        /\ req[r].ran \subseteq req[r].gated
        /\ LET perms == req[r].perms IN
           \/ req[r].scope = ReadScopes(perms, req[r].gated)
           \/ /\ req[r].scope = NoScope
              /\ \A id \in req[r].gated : perms[id]["read"] = Everything

(* A snapshot is served only to a caller who, by the grants of this        *)
(* request, may read every scenario in it under the scope it was computed  *)
(* with, though the grants may have changed since (check_access).          *)
SnapshotsMatchGrants ==
    \A r \in Requests : \A id \in DOMAIN req[r].served :
        /\ id \in Readable(req[r].perms)
        /\ req[r].perms[id]["read"] = req[r].served[id]

(* Neither what is computed nor what was kept reaches past the grants of   *)
(* the request it answers.                                                 *)
GrantsHold == RunsAsAdmitted /\ SnapshotsMatchGrants

(* The live snapshots of a user never exceed the configured number, though *)
(* several requests count and commit at once (cache_read_result).          *)
SnapshotQuotaKept ==
    \A u \in Users : Cardinality(Of(u)) <= MaxSnapshots

(* Both kinds of cap: places to run in, and what a user may keep.          *)
CapsKept == SlotsAccounted /\ SnapshotQuotaKept

(* Every request is answered: no load, lock, slot or transaction holds it  *)
(* for ever.                                                               *)
EveryCallAnswered == []<>(\A r \in Requests : req[r].pc \in {"idle", "answered"})
=============================================================================
