--------------------------- MODULE InstanceConfig ---------------------------
(***************************************************************************)
(* The integration directory (instance/integrations/{sources,bindings}) as *)
(* the processes that share it see it:                                     *)
(*                                                                         *)
(*   - an administration API, whose handlers are coroutines that await     *)
(*     nothing: one runs at a time, but other processes see its file       *)
(*     operations one by one, and it may die between two of them;          *)
(*   - a tool server, whose threads reload the registry and fill the cache *)
(*     of source connections the federated queries use;                    *)
(*   - the operator, who edits the files by hand.                          *)
(*                                                                         *)
(* An entity is abstracted to what the registry's rules tell apart: a      *)
(* source is its revision (kind and credentials), a binding its source and *)
(* its live target.  A file is named after the entity it declares.         *)
(***************************************************************************)
EXTENDS Naturals, FiniteSets

CONSTANTS
    Sources, Bindings, Targets, Revisions,
    Threads,                          \* threads that run federated queries
    ByReference,                      \* the engine uses the server's registry
    Absent,                           \* no file, no registry, no connection
    Broken,                           \* a file the operator left unreadable
    Torn,                             \* a file caught in the middle of a write
    MaxRequests, MaxEdits, MaxReloads, MaxCrashes

VARIABLES
    disk,        \* id -> what <id>.yml holds
    temp,        \* the temporary file of the write in progress
    orphan,      \* a temporary file a dead process left behind
    current,     \* process -> the registry it serves
    seen,        \* process -> what its load has read of sources/
    api,         \* the request the API runs, or the last one it ran
    server,      \* "idle", "loading" or "rebinding": the reload tool
    bound,       \* where the engine resolves sources: nowhere yet, in a
                 \*   registry of its own, or through the tool server's
    conns,       \* source -> the revision of its cached connection
    late,        \* sources whose connection was under way during a rebind
    thread,      \* thread -> the connection it is making
    spent        \* how many requests, edits, reloads and crashes happened

vars == <<disk, temp, orphan, current, seen, api, server, bound, conns, late,
          thread, spent>>

Ids == Sources \cup Bindings
Procs == {"api", "server"}

BindingBody == [source : Sources, target : Targets]
Bodies == Revisions \cup BindingBody
Body(i) == IF i \in Sources THEN Revisions ELSE BindingBody

\* A registry declares some of the entities there may be.
Registries == UNION {[S -> Bodies] : S \in SUBSET Ids}

ASSUME EntitiesAssumption == Sources \cap Bindings = {} /\ Absent \notin Ids
ASSUME ContentsAssumption ==
    /\ Bodies \cap {Absent, Broken, Torn} = {}
    /\ Absent \notin [id : Ids, content : Bodies \cup {Torn}]
    /\ ByReference \notin Registries \cup {Absent}

-----------------------------------------------------------------------------
(* Loading a registry.                                                     *)

\* The directory globs *.yml, which temporary files match too.
TempFiles(S) == {t \in {temp, orphan} : t # Absent /\ t.id \in S}

Readable(S) ==
    /\ \A i \in S : disk[i] \notin {Broken, Torn}
    /\ \A t \in TempFiles(S) : t.content # Torn /\ disk[t.id] = Absent
    /\ \A t, u \in TempFiles(S) : t.id = u.id => t = u

Declared(S) ==
    [i \in {j \in S : disk[j] # Absent} \cup {t.id : t \in TempFiles(S)} |->
        IF disk[i] # Absent THEN disk[i]
        ELSE (CHOOSE t \in TempFiles(S) : t.id = i).content]

BindingsOf(r) == Bindings \cap DOMAIN r

Consistent(r) ==
    /\ \A b \in BindingsOf(r) : r[b].source \in DOMAIN r
    /\ \A b, c \in BindingsOf(r) : r[b].target = r[c].target => b = c

\* What a load that reads both directories at once would return.
Loads == /\ Readable(Ids)
         /\ Consistent(Declared(Ids))

ReadSources(p) == seen' = [seen EXCEPT ![p] = IF Readable(Sources)
                                              THEN Declared(Sources) ELSE Absent]

\* Both halves, with the source where an id is declared in both.
Both(sources, bindings) ==
    [i \in DOMAIN sources \cup DOMAIN bindings |->
        IF i \in DOMAIN sources THEN sources[i] ELSE bindings[i]]

Candidate(p) == Both(seen[p], Declared(Bindings))

\* Mutant: cross-references are left to the caller.
LoadsUnchecked(p) == seen[p] # Absent /\ Readable(Bindings)

LoadSucceeds(p) == /\ seen[p] # Absent
                   /\ Readable(Bindings)
                   /\ Consistent(Candidate(p))
Swap(p) == current' = [current EXCEPT ![p] = Candidate(p)]

-----------------------------------------------------------------------------
NoRequest == [pc |-> "idle", op |-> "none", id |-> Absent, body |-> Absent,
              found |-> Absent, rollback |-> Absent, touched |-> FALSE,
              code |-> 0]

\* A deployment starts from files that load, no process between two steps.
Init ==
    /\ \E s \in [Sources -> Revisions \cup {Absent}], b \in [Bindings -> BindingBody \cup {Absent}] :
          disk = Both(s, b)
    /\ temp = Absent /\ orphan = Absent
    /\ Loads
    /\ current = [p \in Procs |-> Declared(Ids)]
    /\ seen = [p \in Procs |-> Absent]
    /\ api = NoRequest
    /\ server = "idle"
    /\ bound = Absent
    /\ conns = [s \in Sources |-> Absent]
    /\ late = {}
    /\ thread = [t \in Threads |-> Absent]
    /\ spent = [requests |-> 0, edits |-> 0, reloads |-> 0, crashes |-> 0]

Spend(what, bound_) == /\ spent[what] < bound_
                       /\ spent' = [spent EXCEPT ![what] = @ + 1]

-----------------------------------------------------------------------------
(* The administration API.                                                 *)

KnownSource(body) == body.source \in DOMAIN current["api"]

Accept(op, i, body, rollback, pc) ==
    /\ api.pc = "idle"
    /\ Spend("requests", MaxRequests)
    /\ api' = [pc |-> pc, op |-> op, id |-> i, body |-> body,
               found |-> IF i = Absent THEN Absent ELSE disk[i],
               rollback |-> rollback, touched |-> FALSE, code |-> 0]
    /\ UNCHANGED <<disk, temp, orphan, current, seen, server, bound, conns,
                   late, thread>>

\* The handlers ask the registry the API serves, not the directory, whether
\* an id is taken and a source known.
Served(i) == i \in DOMAIN current["api"]

CreateSource(i, body) == ~Served(i) /\ Accept("create", i, body, Absent, "write")

UpdateSource(i, body) == Served(i) /\ Accept("update", i, body, disk[i], "write")

DeleteSource(i) ==
    /\ Served(i)
    /\ \A b \in BindingsOf(current["api"]) : current["api"][b].source # i
    /\ Accept("delete", i, Absent, Absent, "unlink")

CreateBinding(i, body) ==
    ~Served(i) /\ KnownSource(body) /\ Accept("create", i, body, Absent, "write")

UpdateBinding(i, body) ==
    Served(i) /\ KnownSource(body) /\ Accept("update", i, body, disk[i], "write")

DeleteBinding(i) == Served(i) /\ Accept("delete", i, Absent, Absent, "unlink")

ReloadRegistry == Accept("reload", Absent, Absent, Absent, "read")

ApiMoves(pc, next) == /\ api.pc = pc
                      /\ api' = [api EXCEPT !.pc = next]

Elsewhere == <<server, bound, conns, late, thread, spent>>

WriteTemp ==
    /\ ApiMoves("write", "fill")
    /\ temp' = [id |-> api.id, content |-> Torn]
    /\ UNCHANGED <<disk, orphan, current, seen, Elsewhere>>

FillTemp ==
    /\ ApiMoves("fill", "rename")
    /\ temp' = [temp EXCEPT !.content = api.body]
    /\ UNCHANGED <<disk, orphan, current, seen, Elsewhere>>

WriteFails ==
    /\ api.pc \in {"fill", "rename"}
    /\ api' = [api EXCEPT !.pc = "idle", !.code = 500]
    /\ temp' = Absent
    /\ UNCHANGED <<disk, orphan, current, seen, Elsewhere>>

RenameTemp ==
    /\ ApiMoves("rename", "read")
    /\ disk' = [disk EXCEPT ![api.id] = temp.content]
    /\ temp' = Absent
    /\ UNCHANGED <<orphan, current, seen, Elsewhere>>

UnlinkFile ==
    /\ ApiMoves("unlink", "read")
    /\ disk' = [disk EXCEPT ![api.id] = Absent]
    /\ UNCHANGED <<temp, orphan, current, seen, Elsewhere>>

ApiReadsSources ==
    /\ \/ ApiMoves("read", "check")
       \/ ApiMoves("reread", "recheck")
    /\ ReadSources("api")
    /\ UNCHANGED <<disk, temp, orphan, current, Elsewhere>>

\* The change is in force before its audit row is written, which may fail.
AuditOutcome == IF api.op = "reload" THEN {200} ELSE {200, 500}

\* A rejected reload of the whole directory has nothing to undo.
ApiLoads ==
    /\ api.pc = "check"
    /\ IF LoadSucceeds("api")
       THEN /\ Swap("api")
            /\ \E code \in AuditOutcome : api' = [api EXCEPT !.pc = "idle", !.code = code]
       ELSE /\ api' = IF api.op = "reload"
                      THEN [api EXCEPT !.pc = "idle", !.code = 400]
                      ELSE [api EXCEPT !.pc = "undo"]
            /\ UNCHANGED current
    /\ seen' = [seen EXCEPT !["api"] = Absent]
    /\ UNCHANGED <<disk, temp, orphan, Elsewhere>>

\* Mutant: the handlers forget the bytes to put back.
UndoByUnlink ==
    /\ ApiMoves("undo", "reread")
    /\ disk' = [disk EXCEPT ![api.id] = Absent]
    /\ UNCHANGED <<temp, orphan, current, seen, Elsewhere>>

\* Bytes to put back go through an ordinary write, which truncates first.
UndoChange ==
    /\ api.pc = "undo"
    /\ IF api.rollback = Absent
       THEN /\ disk' = [disk EXCEPT ![api.id] = Absent]
            /\ api' = [api EXCEPT !.pc = "reread"]
       ELSE /\ disk' = [disk EXCEPT ![api.id] = Torn]
            /\ api' = [api EXCEPT !.pc = "restore"]
    /\ UNCHANGED <<temp, orphan, current, seen, Elsewhere>>

RestoreBytes ==
    /\ ApiMoves("restore", "reread")
    /\ disk' = [disk EXCEPT ![api.id] = api.rollback]
    /\ UNCHANGED <<temp, orphan, current, seen, Elsewhere>>

ApiLoadsAgain ==
    /\ api.pc = "recheck"
    /\ IF LoadSucceeds("api")
       THEN /\ Swap("api")
            /\ api' = [api EXCEPT !.pc = "idle", !.code = 422]
       ELSE /\ api' = [api EXCEPT !.pc = "idle", !.code = 500]
            /\ UNCHANGED current
    /\ seen' = [seen EXCEPT !["api"] = Absent]
    /\ UNCHANGED <<disk, temp, orphan, Elsewhere>>

ApiCrashes ==
    /\ api.pc \notin {"idle", "down"}
    /\ Spend("crashes", MaxCrashes)
    /\ api' = [NoRequest EXCEPT !.pc = "down"]
    /\ orphan' = IF temp = Absent THEN orphan ELSE temp
    /\ temp' = Absent
    /\ seen' = [seen EXCEPT !["api"] = Absent]
    /\ UNCHANGED <<disk, current, server, bound, conns, late, thread>>

\* A process whose directory does not load does not start.
ApiRestarts ==
    /\ api.pc = "down"
    /\ Loads
    /\ api' = NoRequest
    /\ current' = [current EXCEPT !["api"] = Declared(Ids)]
    /\ UNCHANGED <<disk, temp, orphan, seen, Elsewhere>>

-----------------------------------------------------------------------------
(* The operator.                                                           *)

EditFile(i, content) ==
    /\ disk[i] # content
    /\ Spend("edits", MaxEdits)
    /\ disk' = [disk EXCEPT ![i] = content]
    /\ api' = [api EXCEPT !.touched = @ \/ i = api.id]
    /\ UNCHANGED <<temp, orphan, current, seen, server, bound, conns, late, thread>>

ClearOrphan ==
    /\ orphan # Absent
    /\ orphan' = Absent
    /\ api' = [api EXCEPT !.touched = @ \/ orphan.id = api.id]
    /\ UNCHANGED <<disk, temp, current, seen, Elsewhere>>

-----------------------------------------------------------------------------
(* The tool server.                                                        *)

Files == <<disk, temp, orphan>>

ReloadReads ==
    /\ server = "idle"
    /\ Spend("reloads", MaxReloads)
    /\ server' = "loading"
    /\ ReadSources("server")
    /\ UNCHANGED <<Files, current, api, bound, conns, late, thread>>

ReloadSwaps ==
    /\ server = "loading"
    /\ IF LoadSucceeds("server")
       THEN Swap("server") /\ server' = "rebinding"
       ELSE server' = "idle" /\ UNCHANGED current
    /\ seen' = [seen EXCEPT !["server"] = Absent]
    /\ UNCHANGED <<Files, api, bound, conns, late, thread, spent>>

Connecting == {thread[t].source : t \in {u \in Threads : thread[u] # Absent}}

\* Mutant: rebinding leaves the cache alone.
RebindOnly ==
    /\ server = "rebinding"
    /\ server' = "idle"
    /\ bound' = ByReference
    /\ late' = Connecting
    /\ UNCHANGED <<Files, current, seen, api, conns, thread, spent>>

SetIntegrationRegistry ==
    /\ server = "rebinding"
    /\ server' = "idle"
    /\ bound' = ByReference
    /\ conns' = [s \in Sources |-> Absent]
    /\ late' = Connecting
    /\ UNCHANGED <<Files, current, seen, api, thread, spent>>

EngineRegistry == IF bound = ByReference THEN current["server"] ELSE bound

\* Nothing wired the engine yet: it loads a registry of its own.
LoadDefaultRegistry ==
    /\ bound = Absent
    /\ Loads
    /\ bound' = Declared(Ids)
    /\ UNCHANGED <<Files, current, seen, api, server, conns, late, thread, spent>>

ResolveSource(t, s) ==
    /\ thread[t] = Absent
    /\ conns[s] = Absent
    /\ bound # Absent
    /\ s \in DOMAIN EngineRegistry
    /\ thread' = [thread EXCEPT ![t] = [source |-> s, revision |-> EngineRegistry[s]]]
    /\ UNCHANGED <<Files, current, seen, api, server, bound, conns, late, spent>>

Connect(t) ==
    /\ thread[t] # Absent
    /\ conns' = [conns EXCEPT ![thread[t].source] = thread[t].revision]
    /\ thread' = [thread EXCEPT ![t] = Absent]
    /\ UNCHANGED <<Files, current, seen, api, server, bound, late, spent>>

ConnectFails(t) ==
    /\ thread[t] # Absent
    /\ thread' = [thread EXCEPT ![t] = Absent]
    /\ UNCHANGED <<Files, current, seen, api, server, bound, conns, late, spent>>

-----------------------------------------------------------------------------
Next ==
    \/ \E i \in Sources, body \in Revisions : CreateSource(i, body) \/ UpdateSource(i, body)
    \/ \E i \in Sources : DeleteSource(i)
    \/ \E i \in Bindings, body \in BindingBody : CreateBinding(i, body) \/ UpdateBinding(i, body)
    \/ \E i \in Bindings : DeleteBinding(i)
    \/ ReloadRegistry
    \/ WriteTemp \/ FillTemp \/ WriteFails \/ RenameTemp \/ UnlinkFile
    \/ ApiReadsSources \/ ApiLoads \/ UndoChange \/ RestoreBytes \/ ApiLoadsAgain
    \/ ApiCrashes \/ ApiRestarts
    \/ \E i \in Ids : \E content \in Body(i) \cup {Absent, Broken} : EditFile(i, content)
    \/ ClearOrphan
    \/ ReloadReads \/ ReloadSwaps \/ SetIntegrationRegistry
    \/ LoadDefaultRegistry
    \/ \E t \in Threads, s \in Sources : ResolveSource(t, s)
    \/ \E t \in Threads : Connect(t) \/ ConnectFails(t)

Spec == Init /\ [][Next]_vars

-----------------------------------------------------------------------------
(* Properties.                                                             *)

Answered(codes) == api.pc = "idle" /\ api.code \in codes /\ ~api.touched

\* Whatever the files went through while it was being read, the registry a
\* process serves never has two bindings that write one live table, nor a
\* binding without its source: what the load pipeline takes for granted.
ServedIsConsistent == \A p \in Procs : Consistent(current[p])

\* A change the API answers with 422 is undone: the update's file holds what
\* it held before, the file a create wrote is gone, unless the operator
\* edited that very file in the meantime.
RejectedChangeUndone ==
    Answered({422}) =>
        /\ api.op = "update" => disk[api.id] = api.found
        /\ api.op = "create" /\ api.found = Absent => disk[api.id] = Absent

\* A change the API answers with 2xx is in the file and in the registry the
\* API serves.  (An entity a dead write's temporary file still declares
\* outlives its deletion.)
AcceptedIsServed ==
    Answered({200}) =>
        /\ api.op \in {"create", "update"} =>
              /\ disk[api.id] = api.body
              /\ api.id \in DOMAIN current["api"]
              /\ current["api"][api.id] = api.body
        /\ api.op = "delete" =>
              /\ disk[api.id] = Absent
              /\ orphan = Absent => api.id \notin DOMAIN current["api"]

\* What the API answers is what has become of the change.
AnswersTell == RejectedChangeUndone /\ AcceptedIsServed

\* Once a reload has rebound the engine, a cached connection is one of the
\* registry served, except for one that was being made during the rebind.
ReloadDropsConnections ==
    bound = ByReference /\ server = "idle" =>
        \A s \in Sources \ late :
            conns[s] # Absent => s \in DOMAIN current["server"]
                                 /\ conns[s] = current["server"][s]
=============================================================================
