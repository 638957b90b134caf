------------------------- MODULE InstanceConfigProofs -------------------------
(***************************************************************************)
(* What the integration registries promise for any entities, threads and   *)
(* numbers of requests, edits, reloads and crashes.                        *)
(***************************************************************************)
EXTENDS InstanceConfig, TLAPS

-----------------------------------------------------------------------------
(* The inductive invariants.                                               *)

Writing == [id : Ids, content : Bodies \cup {Torn}]

Stages == {"idle", "write", "fill", "rename", "unlink", "read", "check", "undo",
           "restore", "reread", "recheck", "down"}
Codes == {0, 200, 400, 422, 500}
Request ==
    [pc : Stages,
     op : {"none", "create", "update", "delete", "reload"},
     id : Ids \cup {Absent}, body : Bodies \cup {Absent},
     found : Bodies \cup {Absent, Broken, Torn}, rollback : Bodies \cup {Absent, Broken, Torn},
     touched : BOOLEAN, code : Codes]

TypeInv ==
    /\ disk \in [Ids -> Bodies \cup {Absent, Broken, Torn}]
    /\ temp \in Writing \cup {Absent} /\ orphan \in Writing \cup {Absent}
    /\ current \in [Procs -> Registries]
    /\ seen \in [Procs -> Registries \cup {Absent}]
    /\ \A p \in Procs : seen[p] # Absent => DOMAIN seen[p] \subseteq Sources
    /\ api \in Request

\* What the request under way is, and what it has done so far.
Stage ==
    /\ api.pc \in {"write", "fill", "rename"} =>
         api.op \in {"create", "update"} /\ api.id \in Ids /\ api.body \in Bodies
    /\ api.pc \in {"unlink", "undo", "restore"} => api.id \in Ids
    /\ api.pc = "unlink" => api.op = "delete"
    /\ api.op = "none" => api.pc \in {"idle", "down"}
    /\ api.pc = "write" => temp = Absent
    /\ api.pc \in {"fill", "rename"} <=> temp # Absent
    /\ api.pc = "fill" => temp = [id |-> api.id, content |-> Torn]
    /\ api.pc = "rename" => temp = [id |-> api.id, content |-> api.body]
    /\ api.op \in {"create", "update"} => api.id \in Ids /\ api.body \in Bodies
    /\ api.op = "delete" => api.id \in Ids

\* What a rejected update puts back is what it found.
PutsBack ==
    /\ api.op = "update" => api.rollback = api.found
    /\ api.op = "create" => api.rollback = Absent
    /\ api.pc \in {"reread", "recheck"} /\ ~api.touched /\ api.op \in {"create", "update"} =>
         disk[api.id] = api.rollback

\* A dead write's temporary file still declares the entity of the request.
Outlived == orphan # Absent /\ orphan.id = api.id

\* What an accepted change has put into the file is what a load reads.
Reads ==
    /\ api.pc \in {"read", "check"} /\ ~api.touched =>
         /\ api.op \in {"create", "update"} => disk[api.id] = api.body
         /\ api.op = "delete" => disk[api.id] = Absent
    /\ api.pc = "check" /\ ~api.touched /\ seen["api"] # Absent =>
         /\ api.op \in {"create", "update"} /\ api.id \in Sources =>
              api.id \in DOMAIN seen["api"] /\ seen["api"][api.id] = api.body
         /\ api.op = "delete" => api.id \notin DOMAIN seen["api"] \/ Outlived

\* AnswersTell, with the one way in which a deleted entity is still served.
Tells ==
    /\ RejectedChangeUndone
    /\ Answered({200}) =>
         /\ api.op \in {"create", "update"} =>
              /\ disk[api.id] = api.body
              /\ api.id \in DOMAIN current["api"]
              /\ current["api"][api.id] = api.body
         /\ api.op = "delete" =>
              /\ disk[api.id] = Absent
              /\ api.id \notin DOMAIN current["api"] \/ Outlived

ChangeInv == Stage /\ PutsBack /\ Reads /\ Tells

\* What a thread is connecting to is declared by the registry served, unless
\* the connection was under way when the engine was rebound.
ConnInv ==
    /\ DOMAIN conns = Sources /\ DOMAIN thread = Threads
    /\ \A t \in Threads : thread[t] # Absent => thread[t].source \in Sources
    /\ server \in {"idle", "loading", "rebinding"}
    /\ bound = ByReference /\ server # "rebinding" =>
         /\ \A s \in Sources \ late :
              conns[s] # Absent => s \in DOMAIN current["server"]
                                   /\ conns[s] = current["server"][s]
         /\ \A t \in Threads :
              thread[t] # Absent /\ thread[t].source \notin late =>
                /\ thread[t].source \in DOMAIN current["server"]
                /\ thread[t].revision = current["server"][thread[t].source]

-----------------------------------------------------------------------------
(* Registries.                                                             *)

\* What is declared by files that can be read, is.
LEMMA DeclaredEntities ==
    ASSUME TypeInv, NEW S \in SUBSET Ids, Readable(S)
    PROVE  /\ Declared(S) \in Registries /\ DOMAIN Declared(S) \subseteq S
           /\ \A i \in S : disk[i] # Absent => i \in DOMAIN Declared(S) /\ Declared(S)[i] = disk[i]
           /\ \A i \in S : disk[i] = Absent =>
                i \in DOMAIN Declared(S) <=> \E t \in TempFiles(S) : t.id = i
<1> DEFINE D == {j \in S : disk[j] # Absent} \cup {t.id : t \in TempFiles(S)}
<1>1. \A t \in TempFiles(S) : t \in Writing /\ t.id \in S /\ t.content \in Bodies
  BY DEF TempFiles, TypeInv, Writing, Readable
<1>2. Declared(S) = [i \in D |-> IF disk[i] # Absent THEN disk[i]
                                 ELSE (CHOOSE t \in TempFiles(S) : t.id = i).content]
  BY DEF Declared
<1>3. D \subseteq S
  BY <1>1
<1>4. ASSUME NEW i \in D
      PROVE  (IF disk[i] # Absent THEN disk[i]
              ELSE (CHOOSE t \in TempFiles(S) : t.id = i).content) \in Bodies
  <2>1. CASE disk[i] # Absent
    BY <2>1, <1>3 DEF TypeInv, Readable
  <2>2. CASE disk[i] = Absent
    <3>1. \E t \in TempFiles(S) : t.id = i
      BY <2>2
    <3>2. (CHOOSE t \in TempFiles(S) : t.id = i) \in TempFiles(S)
      BY <3>1
    <3> QED
      BY <2>2, <3>2, <1>1
  <2> QED
    BY <2>1, <2>2
<1>5. Declared(S) \in [D -> Bodies] /\ DOMAIN Declared(S) = D
  BY <1>2, <1>4
<1>6. D \in SUBSET Ids
  BY <1>3
<1>7. Declared(S) \in Registries
  BY <1>5, <1>6 DEF Registries
<1>8. \A i \in S : disk[i] # Absent => i \in D /\ Declared(S)[i] = disk[i]
  BY <1>2
<1>9. \A i \in S : disk[i] = Absent => (i \in D <=> \E t \in TempFiles(S) : t.id = i)
  OBVIOUS
<1> HIDE DEF D
<1> QED
  BY <1>3, <1>5, <1>7, <1>8, <1>9

\* The two halves of a registry make one.
LEMMA BothEntities ==
    ASSUME NEW a \in Registries, NEW b \in Registries
    PROVE  /\ Both(a, b) \in Registries /\ DOMAIN Both(a, b) = DOMAIN a \cup DOMAIN b
           /\ \A i \in DOMAIN a : Both(a, b)[i] = a[i]
           /\ \A i \in DOMAIN b \ DOMAIN a : Both(a, b)[i] = b[i]
<1>1. PICK S \in SUBSET Ids : a \in [S -> Bodies]
  BY DEF Registries
<1>2. PICK T \in SUBSET Ids : b \in [T -> Bodies]
  BY DEF Registries
<1>3. Both(a, b) \in [S \cup T -> Bodies] /\ S \cup T \in SUBSET Ids
  BY <1>1, <1>2 DEF Both
<1>4. Both(a, b) \in Registries
  BY <1>3 DEF Registries
<1> QED
  BY <1>4 DEF Both

\* A load that succeeds has a registry to serve: the file's content where there
\* is one, and for a source what its half has read.
LEMMA CandidateEntities ==
    ASSUME TypeInv, NEW p \in Procs, LoadSucceeds(p)
    PROVE  /\ Candidate(p) \in Registries /\ Consistent(Candidate(p))
           /\ \A i \in DOMAIN seen[p] : i \in DOMAIN Candidate(p) /\ Candidate(p)[i] = seen[p][i]
           /\ \A i \in Bindings : disk[i] # Absent =>
                i \in DOMAIN Candidate(p) /\ Candidate(p)[i] = disk[i]
           /\ \A i \in Ids : (i \in DOMAIN Candidate(p) /\ i \notin DOMAIN seen[p]) =>
                i \in Bindings /\ i \in DOMAIN Declared(Bindings)
<1>1. seen[p] \in Registries /\ Readable(Bindings) /\ Consistent(Candidate(p))
  BY DEF LoadSucceeds, TypeInv
<1>0. DOMAIN seen[p] \subseteq Sources
  BY DEF LoadSucceeds, TypeInv
<1>2. Bindings \in SUBSET Ids
  BY DEF Ids
<1>3. /\ Declared(Bindings) \in Registries /\ DOMAIN Declared(Bindings) \subseteq Bindings
      /\ \A i \in Bindings : disk[i] # Absent =>
           i \in DOMAIN Declared(Bindings) /\ Declared(Bindings)[i] = disk[i]
  BY <1>1, <1>2, DeclaredEntities
<1> DEFINE c == Candidate(p)
           d == Declared(Bindings)
<1>4. /\ c \in Registries /\ DOMAIN c = DOMAIN seen[p] \cup DOMAIN d
      /\ \A i \in DOMAIN seen[p] : c[i] = seen[p][i]
      /\ \A i \in DOMAIN d \ DOMAIN seen[p] : c[i] = d[i]
  BY <1>1, <1>3, BothEntities DEF Candidate
<1>5. \A i \in Bindings : i \notin DOMAIN seen[p]
  BY <1>0, EntitiesAssumption
<1>6. \A i \in Bindings : disk[i] # Absent => i \in DOMAIN c /\ c[i] = disk[i]
  BY <1>3, <1>4, <1>5
<1>7. \A i \in Ids : (i \in DOMAIN c /\ i \notin DOMAIN seen[p]) => i \in Bindings /\ i \in DOMAIN d
  BY <1>3, <1>4
<1> QED
  BY <1>1, <1>4, <1>6, <1>7
-----------------------------------------------------------------------------
(* Types.                                                                  *)

\* The steps of the API, of the operator, and of the tool server.
Accepts ==
    \/ \E i \in Sources, body \in Revisions : CreateSource(i, body) \/ UpdateSource(i, body)
    \/ \E i \in Sources : DeleteSource(i)
    \/ \E i \in Bindings, body \in BindingBody : CreateBinding(i, body) \/ UpdateBinding(i, body)
    \/ \E i \in Bindings : DeleteBinding(i)
    \/ ReloadRegistry
Writes == WriteTemp \/ FillTemp \/ WriteFails \/ RenameTemp \/ UnlinkFile \/ UndoChange \/ RestoreBytes
Edits ==
    \/ \E i \in Ids : \E content \in Body(i) \cup {Absent, Broken} : EditFile(i, content)
    \/ ClearOrphan
Connects ==
    \/ SetIntegrationRegistry \/ LoadDefaultRegistry
    \/ \E t \in Threads, s \in Sources : ResolveSource(t, s)
    \/ \E t \in Threads : Connect(t) \/ ConnectFails(t)

LEMMA NextSplit ==
    ASSUME [Next]_vars
    PROVE  \/ Accepts \/ Writes \/ Edits \/ Connects
           \/ ApiReadsSources \/ ApiLoads \/ ApiLoadsAgain \/ ApiCrashes \/ ApiRestarts
           \/ ReloadReads \/ ReloadSwaps \/ UNCHANGED vars
BY DEF Next, Accepts, Writes, Edits, Connects

\* A request that is accepted is what the handler made of it.
LEMMA AcceptedRequest ==
    ASSUME TypeInv, Accepts
    PROVE  /\ api.pc = "idle" /\ api' \in Request
           /\ api'.code = 0 /\ ~api'.touched
           /\ \/ /\ api'.op \in {"create", "update"} /\ api'.pc = "write"
                 /\ api'.id \in Ids /\ api'.body \in Bodies
                 /\ api'.rollback = IF api'.op = "update" THEN api'.found ELSE Absent
              \/ api'.op = "delete" /\ api'.pc = "unlink" /\ api'.id \in Ids
              \/ api'.op = "reload" /\ api'.pc = "read"
           /\ UNCHANGED <<disk, temp, orphan, current, seen, server, bound, conns, late, thread>>
<1> DEFINE R(op, i, body, rollback, pc) ==
      [pc |-> pc, op |-> op, id |-> i, body |-> body,
       found |-> IF i = Absent THEN Absent ELSE disk[i],
       rollback |-> rollback, touched |-> FALSE, code |-> 0]
<1>1. \A i \in Ids : disk[i] \in Bodies \cup {Absent, Broken, Torn} /\ i # Absent
  BY EntitiesAssumption DEF TypeInv
<1>2. ASSUME NEW i \in Ids, NEW body \in Bodies,
             Accept("create", i, body, Absent, "write") \/ Accept("update", i, body, disk[i], "write")
      PROVE  /\ api.pc = "idle" /\ api' \in Request /\ api'.code = 0 /\ ~api'.touched
             /\ api'.op \in {"create", "update"} /\ api'.pc = "write"
             /\ api'.id \in Ids /\ api'.body \in Bodies
             /\ api'.rollback = IF api'.op = "update" THEN api'.found ELSE Absent
             /\ UNCHANGED <<disk, temp, orphan, current, seen, server, bound, conns, late, thread>>
  <2>1. CASE Accept("create", i, body, Absent, "write")
    BY <1>1, <1>2, <2>1 DEF Accept, Request, Stages, Codes
  <2>2. CASE Accept("update", i, body, disk[i], "write")
    BY <1>1, <1>2, <2>2 DEF Accept, Request, Stages, Codes
  <2> QED
    BY <1>2, <2>1, <2>2
<1>3. ASSUME NEW i \in Ids, Accept("delete", i, Absent, Absent, "unlink")
      PROVE  /\ api.pc = "idle" /\ api' \in Request /\ api'.code = 0 /\ ~api'.touched
             /\ api'.op = "delete" /\ api'.pc = "unlink" /\ api'.id \in Ids
             /\ UNCHANGED <<disk, temp, orphan, current, seen, server, bound, conns, late, thread>>
  BY <1>1, <1>3 DEF Accept, Request, Stages, Codes
<1>4. ASSUME ReloadRegistry
      PROVE  /\ api.pc = "idle" /\ api' \in Request /\ api'.code = 0 /\ ~api'.touched
             /\ api'.op = "reload" /\ api'.pc = "read"
             /\ UNCHANGED <<disk, temp, orphan, current, seen, server, bound, conns, late, thread>>
  BY <1>4 DEF ReloadRegistry, Accept, Request, Stages, Codes
<1>5. ASSUME NEW i \in Sources, NEW body \in Revisions, CreateSource(i, body) \/ UpdateSource(i, body)
      PROVE  /\ i \in Ids /\ body \in Bodies
             /\ Accept("create", i, body, Absent, "write") \/ Accept("update", i, body, disk[i], "write")
  BY <1>5 DEF CreateSource, UpdateSource, Ids, Bodies
<1>6. ASSUME NEW i \in Bindings, NEW body \in BindingBody, CreateBinding(i, body) \/ UpdateBinding(i, body)
      PROVE  /\ i \in Ids /\ body \in Bodies
             /\ Accept("create", i, body, Absent, "write") \/ Accept("update", i, body, disk[i], "write")
  BY <1>6 DEF CreateBinding, UpdateBinding, Ids, Bodies
<1>7. ASSUME NEW i \in Ids, (i \in Sources /\ DeleteSource(i)) \/ (i \in Bindings /\ DeleteBinding(i))
      PROVE  Accept("delete", i, Absent, Absent, "unlink")
  BY <1>7 DEF DeleteSource, DeleteBinding
<1>8. CASE \E i \in Sources, body \in Revisions : CreateSource(i, body) \/ UpdateSource(i, body)
  BY <1>8, <1>2, <1>5
<1>9. CASE \E i \in Bindings, body \in BindingBody : CreateBinding(i, body) \/ UpdateBinding(i, body)
  BY <1>9, <1>2, <1>6
<1>10. CASE (\E i \in Sources : DeleteSource(i)) \/ (\E i \in Bindings : DeleteBinding(i))
  BY <1>10, <1>3, <1>7 DEF Ids
<1> QED
  BY <1>4, <1>8, <1>9, <1>10 DEF Accepts

\* A load swaps in a registry, and a consistent one.
LEMMA SwapIn ==
    ASSUME TypeInv, NEW p \in Procs, LoadSucceeds(p), Swap(p)
    PROVE  /\ current' \in [Procs -> Registries]
           /\ current'[p] = Candidate(p) /\ Consistent(current'[p])
           /\ \A q \in Procs \ {p} : current'[q] = current[q]
BY CandidateEntities DEF Swap, TypeInv

LEMMA SourcesRead ==
    ASSUME TypeInv, NEW p \in Procs, ReadSources(p)
    PROVE  /\ seen' \in [Procs -> Registries \cup {Absent}]
           /\ \A q \in Procs \ {p} : seen'[q] = seen[q]
           /\ seen'[p] # Absent => Readable(Sources) /\ seen'[p] = Declared(Sources)
           /\ \A q \in Procs : seen'[q] # Absent => DOMAIN seen'[q] \subseteq Sources
<1>1. Readable(Sources) => Declared(Sources) \in Registries /\ DOMAIN Declared(Sources) \subseteq Sources
  BY DeclaredEntities DEF Ids
<1>2. seen'[p] = IF Readable(Sources) THEN Declared(Sources) ELSE Absent
  BY DEF ReadSources, TypeInv
<1> QED
  BY <1>1, <1>2 DEF ReadSources, TypeInv


\* A request that goes on is the same request.
Same(q) ==
    /\ q \in Request /\ q.op = api.op /\ q.id = api.id /\ q.body = api.body
    /\ q.found = api.found /\ q.rollback = api.rollback

LEMMA RequestMoves ==
    ASSUME api \in Request
    PROVE  /\ \A pc \in Stages : LET q == [api EXCEPT !.pc = pc]
                              IN  Same(q) /\ q.pc = pc /\ q.code = api.code /\ q.touched = api.touched
           /\ \A pc \in Stages, code \in Codes :
                 LET q == [api EXCEPT !.pc = pc, !.code = code]
                 IN  Same(q) /\ q.pc = pc /\ q.code = code /\ q.touched = api.touched
           /\ \A b \in BOOLEAN : LET q == [api EXCEPT !.touched = b]
                               IN  Same(q) /\ q.pc = api.pc /\ q.code = api.code /\ q.touched = b
BY DEF Request, Same

\* The request goes on from one stage to another.
LEMMA StageMoves ==
    ASSUME api \in Request, NEW a \in Stages, NEW b \in Stages, ApiMoves(a, b)
    PROVE  Same(api') /\ api.pc = a /\ api'.pc = b /\ api'.code = api.code /\ api'.touched = api.touched
BY RequestMoves DEF ApiMoves

LEMMA StageSet ==
    ASSUME api \in Request, NEW a \in Stages, api' = [api EXCEPT !.pc = a]
    PROVE  Same(api') /\ api'.pc = a /\ api'.code = api.code /\ api'.touched = api.touched
BY RequestMoves

LEMMA CodeSet ==
    ASSUME api \in Request, NEW a \in Stages, NEW c \in Codes,
           api' = [api EXCEPT !.pc = a, !.code = c]
    PROVE  Same(api') /\ api'.pc = a /\ api'.code = c /\ api'.touched = api.touched
BY RequestMoves

\* How a load of the API ends.
LEMMA LoadEnds ==
    ASSUME TypeInv, ApiLoads
    PROVE  /\ Same(api') /\ api.pc = "check" /\ api'.touched = api.touched
           /\ \/ /\ LoadSucceeds("api") /\ Swap("api")
                 /\ api'.pc = "idle" /\ api'.code \in {200, 500}
              \/ current' = current /\ api.op = "reload" /\ api'.pc = "idle" /\ api'.code = 400
              \/ current' = current /\ api.op # "reload" /\ api'.pc = "undo"
           /\ seen' = [seen EXCEPT !["api"] = Absent] /\ UNCHANGED <<disk, temp, orphan, Elsewhere>>
<1>1. api \in Request
  BY DEF TypeInv
<1>2. CASE LoadSucceeds("api")
  <2>1. PICK code \in AuditOutcome : api' = [api EXCEPT !.pc = "idle", !.code = code]
    BY <1>2 DEF ApiLoads
  <2>2. code \in {200, 500} /\ code \in Codes /\ "idle" \in Stages
    BY DEF AuditOutcome, Codes, Stages
  <2>3. Same(api') /\ api'.pc = "idle" /\ api'.code = code /\ api'.touched = api.touched
    BY <1>1, <2>1, <2>2, CodeSet
  <2> QED
    BY <1>2, <2>2, <2>3 DEF ApiLoads
<1>3. CASE ~LoadSucceeds("api") /\ api.op = "reload"
  <2>1. Same(api') /\ api'.pc = "idle" /\ api'.code = 400 /\ api'.touched = api.touched
    BY <1>1, <1>3, CodeSet DEF ApiLoads, Codes, Stages
  <2> QED
    BY <1>3, <2>1 DEF ApiLoads
<1>4. CASE ~LoadSucceeds("api") /\ api.op # "reload"
  <2>1. Same(api') /\ api'.pc = "undo" /\ api'.touched = api.touched
    BY <1>1, <1>4, StageSet DEF ApiLoads, Stages
  <2> QED
    BY <1>4, <2>1 DEF ApiLoads
<1> QED
  BY <1>2, <1>3, <1>4

LEMMA SecondLoadEnds ==
    ASSUME TypeInv, ApiLoadsAgain
    PROVE  /\ Same(api') /\ api.pc = "recheck" /\ api'.pc = "idle" /\ api'.touched = api.touched
           /\ \/ LoadSucceeds("api") /\ Swap("api") /\ api'.code = 422
              \/ current' = current /\ api'.code = 500
           /\ seen' = [seen EXCEPT !["api"] = Absent] /\ UNCHANGED <<disk, temp, orphan, Elsewhere>>
<1>1. api \in Request
  BY DEF TypeInv
<1>2. \/ LoadSucceeds("api") /\ Swap("api") /\ api' = [api EXCEPT !.pc = "idle", !.code = 422]
      \/ current' = current /\ api' = [api EXCEPT !.pc = "idle", !.code = 500]
  BY DEF ApiLoadsAgain
<1>3. CASE current' = current /\ api' = [api EXCEPT !.pc = "idle", !.code = 500]
  <2>1. Same(api') /\ api'.pc = "idle" /\ api'.code = 500 /\ api'.touched = api.touched
    BY <1>1, <1>3, CodeSet DEF Codes, Stages
  <2> QED
    BY <1>3, <2>1 DEF ApiLoadsAgain
<1>4. CASE LoadSucceeds("api") /\ Swap("api") /\ api' = [api EXCEPT !.pc = "idle", !.code = 422]
  <2>1. Same(api') /\ api'.pc = "idle" /\ api'.code = 422 /\ api'.touched = api.touched
    BY <1>1, <1>4, CodeSet DEF Codes, Stages
  <2> QED
    BY <1>4, <2>1 DEF ApiLoadsAgain
<1> QED
  BY <1>2, <1>3, <1>4

LEMMA TypeStep ==
    ASSUME TypeInv, Stage, [Next]_vars
    PROVE  TypeInv'
<1>a. api \in Request
  BY DEF TypeInv
<1>1. CASE Accepts
  BY <1>1, AcceptedRequest DEF TypeInv
<1>2. CASE Edits
  <2>1. CASE ClearOrphan
    <3>1. api' \in Request
      BY <1>a, <2>1, RequestMoves DEF ClearOrphan, Same
    <3> QED
      BY <2>1, <3>1 DEF ClearOrphan, TypeInv, Elsewhere
  <2>2. ASSUME NEW i \in Ids, NEW content \in Body(i) \cup {Absent, Broken}, EditFile(i, content)
        PROVE  TypeInv'
    <3>1. content \in Bodies \cup {Absent, Broken}
      BY DEF Body, Bodies
    <3> QED
      <4>1. api' \in Request
        BY <1>a, <2>2, RequestMoves DEF EditFile, Same
      <4>2. disk' \in [Ids -> Bodies \cup {Absent, Broken, Torn}]
        BY <2>2, <3>1 DEF EditFile, TypeInv
      <4> QED
        BY <2>2, <4>1, <4>2 DEF EditFile, TypeInv
  <2> QED
    BY <1>2, <2>1, <2>2 DEF Edits
<1>3. CASE Connects
  BY <1>3 DEF Connects, SetIntegrationRegistry, LoadDefaultRegistry, ResolveSource, Connect,
              ConnectFails, Files, TypeInv
<1>4. CASE Writes
  <2>1. CASE WriteTemp
    BY <1>4, <2>1 DEF WriteTemp, ApiMoves, TypeInv, Request, Stages, Codes, Stage, Elsewhere, Writing
  <2>2. CASE FillTemp
    <3>1. temp \in Writing /\ api.body \in Bodies
      BY <2>2 DEF FillTemp, ApiMoves, TypeInv, Stage
    <3>2. temp' \in Writing
      BY <2>2, <3>1 DEF FillTemp, Writing
    <3> QED
      BY <2>2, <3>2 DEF FillTemp, ApiMoves, TypeInv, Request, Stages, Codes, Elsewhere
  <2>3. CASE WriteFails
    <3>1. api' \in Request
      BY <1>a, <2>3, RequestMoves DEF WriteFails, Stages, Codes, Same
    <3> QED
      BY <2>3, <3>1 DEF WriteFails, TypeInv, Elsewhere
  <2>4. CASE RenameTemp
    <3>1. temp.content \in Bodies /\ api.id \in Ids
      BY <2>4 DEF RenameTemp, ApiMoves, Stage
    <3> QED
      BY <2>4, <3>1 DEF RenameTemp, ApiMoves, TypeInv, Request, Stages, Codes, Elsewhere
  <2>5. CASE UnlinkFile
    <3>1. api' \in Request
      BY <1>a, <2>5, StageMoves DEF UnlinkFile, Stages, Same
    <3>2. api.rollback \in Bodies \cup {Absent, Broken, Torn}
      BY <1>a DEF Request
    <3>3. disk' \in [Ids -> Bodies \cup {Absent, Broken, Torn}]
      BY <2>5, <3>2 DEF UnlinkFile, TypeInv
    <3> QED
      BY <2>5, <3>1, <3>3 DEF UnlinkFile, TypeInv, Elsewhere
  <2>6. CASE UndoChange
    BY <2>6 DEF UndoChange, TypeInv, Request, Stages, Codes, Elsewhere
  <2>7. CASE RestoreBytes
    <3>1. api' \in Request
      BY <1>a, <2>7, StageMoves DEF RestoreBytes, Stages, Same
    <3>2. api.rollback \in Bodies \cup {Absent, Broken, Torn}
      BY <1>a DEF Request
    <3>3. disk' \in [Ids -> Bodies \cup {Absent, Broken, Torn}]
      BY <2>7, <3>2 DEF RestoreBytes, TypeInv
    <3> QED
      BY <2>7, <3>1, <3>3 DEF RestoreBytes, TypeInv, Elsewhere
  <2> QED
    BY <1>4, <2>1, <2>2, <2>3, <2>4, <2>5, <2>6, <2>7 DEF Writes
<1>5. CASE ApiReadsSources
  BY <1>5, SourcesRead DEF ApiReadsSources, ApiMoves, TypeInv, Request, Stages, Codes, Elsewhere, Procs
<1>6. CASE ApiLoads
  <2>1. /\ current' \in [Procs -> Registries]
        /\ api' \in Request /\ seen' = [seen EXCEPT !["api"] = Absent]
    BY <1>6, LoadEnds, SwapIn DEF TypeInv, Procs, Same
  <2> QED
    BY <1>6, <2>1 DEF ApiLoads, TypeInv, Elsewhere
<1>7. CASE ApiLoadsAgain
  <2>1. /\ current' \in [Procs -> Registries]
        /\ api' \in Request /\ seen' = [seen EXCEPT !["api"] = Absent]
    BY <1>7, SecondLoadEnds, SwapIn DEF TypeInv, Procs, Same
  <2> QED
    BY <1>7, <2>1 DEF ApiLoadsAgain, TypeInv, Elsewhere
<1>8. CASE ApiCrashes
  <2>1. api' \in Request
    <3>1. NoRequest \in Request
      BY DEF NoRequest, Request, Stages, Codes
    <3>2. [NoRequest EXCEPT !.pc = "down"] \in Request
      BY <3>1 DEF Request, Stages
    <3> QED
      BY <1>8, <3>2 DEF ApiCrashes
  <2>2. /\ temp' \in Writing \cup {Absent} /\ orphan' \in Writing \cup {Absent}
        /\ seen' \in [Procs -> Registries \cup {Absent}]
        /\ \A p \in Procs : seen'[p] # Absent => DOMAIN seen'[p] \subseteq Sources
    BY <1>8 DEF ApiCrashes, TypeInv, Procs
  <2> QED
    BY <1>8, <2>1, <2>2 DEF ApiCrashes, TypeInv
<1>9. CASE ApiRestarts
  <2>1. Declared(Ids) \in Registries
    BY <1>9, DeclaredEntities DEF ApiRestarts, Loads
  <2> QED
    BY <1>9, <2>1 DEF ApiRestarts, NoRequest, TypeInv, Request, Stages, Codes, Elsewhere
<1>10. CASE ReloadReads
  BY <1>10, SourcesRead DEF ReloadReads, Files, TypeInv, Procs
<1>11. CASE ReloadSwaps
  <2>1. current' \in [Procs -> Registries]
    BY <1>11, SwapIn DEF ReloadSwaps, TypeInv, Procs
  <2> QED
    BY <1>11, <2>1 DEF ReloadSwaps, TypeInv, Files
<1>12. CASE UNCHANGED vars
  BY <1>12 DEF vars, TypeInv
<1> QED
  BY <1>1, <1>2, <1>3, <1>4, <1>5, <1>6, <1>7, <1>8, <1>9, <1>10, <1>11, <1>12, NextSplit


-----------------------------------------------------------------------------
(* Requests.                                                               *)

\* Between requests' writes, only a dead write's file declares what has no file.
LEMMA OnlyOrphans ==
    ASSUME TypeInv, Stage, api.pc \notin {"fill", "rename"}, NEW S \in SUBSET Ids,
           NEW i \in S, NEW t \in TempFiles(S), t.id = i, i = api.id
    PROVE  Outlived
BY DEF TempFiles, Stage, Outlived

\* The steps that write the file and take the write back.
LEMMA WritesKeep ==
    ASSUME TypeInv, ChangeInv, Writes
    PROVE  ChangeInv'
<1>a. api \in Request
  BY DEF TypeInv
<1>b. /\ api.pc \in {"write", "fill", "rename", "unlink", "undo", "restore"} => api.id \in Ids
      /\ api.pc \in {"write", "fill", "rename"} => api.op \in {"create", "update"} /\ api.body \in Bodies
  BY DEF ChangeInv, Stage
<1>1. CASE WriteTemp
  <2>1. Same(api') /\ api.pc = "write" /\ api'.pc = "fill"
    BY <1>a, <1>1, StageMoves DEF WriteTemp, Stages
  <2>2. temp' = [id |-> api.id, content |-> Torn] /\ UNCHANGED <<disk, orphan, current, seen>>
    BY <1>1 DEF WriteTemp
  <2>3. temp' \in Writing /\ temp' # Absent
    BY <1>b, <2>1, <2>2, ContentsAssumption DEF Writing
  <2> QED
    BY <1>b, <2>1, <2>2, <2>3 DEF ChangeInv, Stage, PutsBack, Reads, Tells, Answered, RejectedChangeUndone, Same
<1>2. CASE FillTemp
  <2>1. Same(api') /\ api.pc = "fill" /\ api'.pc = "rename"
    BY <1>a, <1>2, StageMoves DEF FillTemp, Stages
  <2>2. temp' = [id |-> api.id, content |-> api.body] /\ UNCHANGED <<disk, orphan, current, seen>>
    BY <1>2, <2>1 DEF FillTemp, ChangeInv, Stage
  <2>3. temp' \in Writing /\ temp' # Absent
    BY <1>b, <2>1, <2>2, ContentsAssumption DEF Writing
  <2> QED
    BY <1>b, <2>1, <2>2, <2>3 DEF ChangeInv, Stage, PutsBack, Reads, Tells, Answered, RejectedChangeUndone, Same
<1>3. CASE WriteFails
  <2>1. Same(api') /\ api'.pc = "idle" /\ api'.code = 500
    BY <1>a, <1>3, CodeSet DEF WriteFails, Stages, Codes
  <2>2. temp' = Absent /\ UNCHANGED <<disk, orphan, current, seen>>
    BY <1>3 DEF WriteFails
  <2> QED
    BY <2>1, <2>2 DEF ChangeInv, Stage, PutsBack, Reads, Tells, Answered, RejectedChangeUndone, Same
<1>4. CASE RenameTemp
  <2>1. Same(api') /\ api.pc = "rename" /\ api'.pc = "read"
    BY <1>a, <1>4, StageMoves DEF RenameTemp, Stages
  <2>2. temp = [id |-> api.id, content |-> api.body]
    BY <2>1 DEF ChangeInv, Stage
  <2>3. disk'[api.id] = api.body /\ temp' = Absent /\ UNCHANGED <<orphan, current, seen>>
    BY <1>4, <1>b, <2>1, <2>2 DEF RenameTemp, TypeInv
  <2> QED
    BY <1>b, <2>1, <2>3 DEF ChangeInv, Stage, PutsBack, Reads, Tells, Answered, RejectedChangeUndone, Same
<1>5. CASE UnlinkFile
  <2>1. Same(api') /\ api.pc = "unlink" /\ api'.pc = "read"
    BY <1>a, <1>5, StageMoves DEF UnlinkFile, Stages
  <2>2. disk'[api.id] = Absent /\ UNCHANGED <<temp, orphan, current, seen>>
    BY <1>5, <1>b, <2>1 DEF UnlinkFile, TypeInv
  <2> QED
    BY <1>b, <2>1, <2>2 DEF ChangeInv, Stage, PutsBack, Reads, Tells, Answered, RejectedChangeUndone, Same
<1>6. CASE UndoChange
  <2>1. api.pc = "undo" /\ UNCHANGED <<temp, orphan, current, seen>>
    BY <1>6 DEF UndoChange
  <2>2. CASE api.rollback = Absent
    <3>1. Same(api') /\ api'.pc = "reread"
      BY <1>a, <1>6, <2>2, StageSet DEF UndoChange, Stages
    <3>2. disk'[api.id] = Absent
      BY <1>6, <1>b, <2>1, <2>2 DEF UndoChange, TypeInv
    <3> QED
      BY <1>b, <2>1, <2>2, <3>1, <3>2 DEF ChangeInv, Stage, PutsBack, Reads, Tells, Answered, RejectedChangeUndone, Same
  <2>3. CASE api.rollback # Absent
    <3>1. Same(api') /\ api'.pc = "restore"
      BY <1>a, <1>6, <2>3, StageSet DEF UndoChange, Stages
    <3> QED
      BY <1>b, <2>1, <3>1 DEF ChangeInv, Stage, PutsBack, Reads, Tells, Answered, RejectedChangeUndone, Same
  <2> QED
    BY <2>2, <2>3
<1>7. CASE RestoreBytes
  <2>1. Same(api') /\ api.pc = "restore" /\ api'.pc = "reread"
    BY <1>a, <1>7, StageMoves DEF RestoreBytes, Stages
  <2>2. disk'[api.id] = api.rollback /\ UNCHANGED <<temp, orphan, current, seen>>
    BY <1>7, <1>b, <2>1 DEF RestoreBytes, TypeInv
  <2> QED
    BY <1>b, <2>1, <2>2 DEF ChangeInv, Stage, PutsBack, Reads, Tells, Answered, RejectedChangeUndone, Same
<1> QED
  BY <1>1, <1>2, <1>3, <1>4, <1>5, <1>6, <1>7 DEF Writes

\* What is left of a request's account when the operator has not touched it.
Unhurt ==
    /\ Same(api') /\ api'.pc = api.pc /\ api'.code = api.code /\ UNCHANGED <<temp, current, seen>>
    /\ ~api'.touched =>
         /\ ~api.touched /\ (api.id \in Ids => disk'[api.id] = disk[api.id])
         /\ Outlived => orphan' = orphan

LEMMA TouchSet ==
    ASSUME api \in Request, NEW b \in BOOLEAN, api' = [api EXCEPT !.touched = b]
    PROVE  Same(api') /\ api'.pc = api.pc /\ api'.code = api.code /\ api'.touched = b
BY RequestMoves

\* The operator's steps, which mark the request whose entity they touch.
LEMMA EditsKeep ==
    ASSUME TypeInv, ChangeInv, Edits
    PROVE  ChangeInv'
<1>1. api \in Request /\ api.touched \in BOOLEAN
  BY DEF TypeInv, Request
<1>2. ASSUME NEW i \in Ids, NEW content, EditFile(i, content) PROVE Unhurt
  <2> DEFINE b == api.touched \/ i = api.id
  <2>1. b \in BOOLEAN
    OBVIOUS
  <2>2. api' = [api EXCEPT !.touched = b]
    BY <1>2 DEF EditFile
  <2>3. b = FALSE => ~api.touched /\ i # api.id
    BY <1>1
  <2> HIDE DEF b
  <2>4. Same(api') /\ api'.pc = api.pc /\ api'.code = api.code /\ api'.touched = b
    BY <1>1, <2>1, <2>2, TouchSet
  <2> QED
    BY <1>2, <2>1, <2>3, <2>4 DEF EditFile, TypeInv, Unhurt
<1>3. ASSUME ClearOrphan PROVE Unhurt
  <2> DEFINE b == api.touched \/ orphan.id = api.id
  <2>1. b \in BOOLEAN
    OBVIOUS
  <2>2. api' = [api EXCEPT !.touched = b]
    BY <1>3 DEF ClearOrphan
  <2>3. b = FALSE => ~api.touched /\ ~Outlived
    BY <1>1 DEF Outlived
  <2> HIDE DEF b
  <2>4. Same(api') /\ api'.pc = api.pc /\ api'.code = api.code /\ api'.touched = b
    BY <1>1, <2>1, <2>2, TouchSet
  <2> QED
    BY <1>3, <2>1, <2>3, <2>4 DEF ClearOrphan, Unhurt
<1>4. Unhurt
  BY <1>2, <1>3 DEF Edits
<1>5. Stage'
  BY <1>4 DEF Unhurt, ChangeInv, Stage, Same
<1>6. api'.touched \in BOOLEAN
  BY <1>4 DEF Unhurt, Same, Request
<1>7. PutsBack' /\ Reads'
  BY <1>4, <1>6 DEF Unhurt, ChangeInv, Stage, PutsBack, Reads, Outlived, Same
<1>8. Tells'
  BY <1>4, <1>6 DEF Unhurt, ChangeInv, Stage, Tells, Answered, RejectedChangeUndone, Outlived, Same
<1> QED
  BY <1>5, <1>7, <1>8 DEF ChangeInv

\* A load reads what the change has written.
LEMMA ReadKeeps ==
    ASSUME TypeInv, ChangeInv, ApiReadsSources
    PROVE  ChangeInv'
<1>a. api \in Request /\ "api" \in Procs /\ Sources \in SUBSET Ids
  BY DEF TypeInv, Procs, Ids
<1>b. UNCHANGED <<disk, temp, orphan, current>> /\ ReadSources("api")
  BY DEF ApiReadsSources
<1>1. CASE ApiMoves("reread", "recheck")
  <2>1. Same(api') /\ api.pc = "reread" /\ api'.pc = "recheck" /\ api'.touched = api.touched
    BY <1>a, <1>1, StageMoves DEF Stages
  <2> QED
    BY <1>b, <2>1 DEF ChangeInv, Stage, PutsBack, Reads, Tells, Answered, RejectedChangeUndone, Same
<1>2. CASE ApiMoves("read", "check")
  <2>1. Same(api') /\ api.pc = "read" /\ api'.pc = "check" /\ api'.touched = api.touched
    BY <1>a, <1>2, StageMoves DEF Stages
  <2>2. Stage' /\ PutsBack' /\ Tells'
    BY <1>b, <2>1 DEF ChangeInv, Stage, PutsBack, Tells, Answered, RejectedChangeUndone, Same
  <2>3. ASSUME ~api.touched
        PROVE  /\ api.op \in {"create", "update"} => disk[api.id] = api.body /\ disk[api.id] # Absent
               /\ api.op = "delete" => disk[api.id] = Absent /\ api.id \in Ids
    BY <2>1, <2>3, ContentsAssumption DEF ChangeInv, Reads, Stage
  <2>4. ASSUME ~api.touched, seen'["api"] # Absent
        PROVE  /\ api.op \in {"create", "update"} /\ api.id \in Sources =>
                    api.id \in DOMAIN seen'["api"] /\ seen'["api"][api.id] = api.body
               /\ api.op = "delete" => api.id \notin DOMAIN seen'["api"] \/ Outlived
    <3>1. Readable(Sources) /\ seen'["api"] = Declared(Sources) /\ DOMAIN seen'["api"] \subseteq Sources
      BY <1>a, <1>b, <2>4, SourcesRead
    <3>2. CASE api.op \in {"create", "update"} /\ api.id \in Sources
      BY <1>a, <2>3, <2>4, <3>1, <3>2, DeclaredEntities
    <3>3. ASSUME api.op = "delete", api.id \in DOMAIN seen'["api"] PROVE Outlived
      <4>1. api.id \in Sources /\ disk[api.id] = Absent
        BY <2>3, <2>4, <3>1, <3>3
      <4>2. PICK t \in TempFiles(Sources) : t.id = api.id
        BY <1>a, <3>1, <3>3, <4>1, DeclaredEntities
      <4> QED
        BY <1>a, <2>1, <4>1, <4>2, OnlyOrphans DEF ChangeInv
    <3> QED
      BY <3>2, <3>3
  <2>5. Reads'
    BY <1>b, <2>1, <2>3, <2>4 DEF Reads, Same, Outlived
  <2> QED
    BY <2>2, <2>5 DEF ChangeInv
<1> QED
  BY <1>1, <1>2 DEF ApiReadsSources

\* A registry that is swapped in declares what the request asked for.
LEMMA LoadKeeps ==
    ASSUME TypeInv, ChangeInv, ApiLoads
    PROVE  ChangeInv'
<1>1. /\ Same(api') /\ api.pc = "check" /\ api'.touched = api.touched
      /\ \/ /\ LoadSucceeds("api") /\ Swap("api")
            /\ api'.pc = "idle" /\ api'.code \in {200, 500}
         \/ current' = current /\ api.op = "reload" /\ api'.pc = "idle" /\ api'.code = 400
         \/ current' = current /\ api.op # "reload" /\ api'.pc = "undo"
      /\ UNCHANGED <<disk, temp, orphan>>
  BY LoadEnds
<1>2. "api" \in Procs /\ Bindings \in SUBSET Ids /\ Ids = Sources \cup Bindings
  BY DEF Procs, Ids
<1>3. ASSUME ~api.touched, LoadSucceeds("api"), Swap("api")
      PROVE  /\ api.op \in {"create", "update"} =>
                  /\ disk[api.id] = api.body
                  /\ api.id \in DOMAIN current'["api"] /\ current'["api"][api.id] = api.body
             /\ api.op = "delete" =>
                  disk[api.id] = Absent /\ (api.id \notin DOMAIN current'["api"] \/ Outlived)
  <2>1. current'["api"] = Candidate("api") /\ seen["api"] # Absent
    BY <1>2, <1>3, SwapIn DEF LoadSucceeds
  <2> DEFINE c == Candidate("api")
  <2>2. /\ \A i \in DOMAIN seen["api"] : i \in DOMAIN c /\ c[i] = seen["api"][i]
        /\ \A i \in Bindings : disk[i] # Absent => i \in DOMAIN c /\ c[i] = disk[i]
        /\ \A i \in Ids : (i \in DOMAIN c /\ i \notin DOMAIN seen["api"]) =>
             i \in Bindings /\ i \in DOMAIN Declared(Bindings)
    BY <1>2, <1>3, CandidateEntities
  <2> HIDE DEF c
  <2>3. CASE api.op \in {"create", "update"}
    <3>1. disk[api.id] = api.body /\ api.body \in Bodies /\ api.id \in Ids
      BY <1>1, <1>3, <2>3 DEF ChangeInv, Reads, Stage
    <3>2. disk[api.id] # Absent
      BY <3>1, ContentsAssumption
    <3>3. CASE api.id \in Sources
      BY <1>1, <1>3, <2>1, <2>2, <2>3, <3>1, <3>3 DEF ChangeInv, Reads, c
    <3>4. CASE api.id \in Bindings
      BY <2>1, <2>2, <2>3, <3>1, <3>2, <3>4 DEF c
    <3> QED
      BY <1>2, <3>1, <3>3, <3>4
  <2>4. CASE api.op = "delete"
    <3>1. disk[api.id] = Absent /\ api.id \in Ids /\ (api.id \notin DOMAIN seen["api"] \/ Outlived)
      BY <1>1, <1>3, <2>1, <2>4 DEF ChangeInv, Reads, Stage
    <3>2. ASSUME api.id \in DOMAIN c, api.id \notin DOMAIN seen["api"] PROVE Outlived
      <4>1. api.id \in Bindings /\ api.id \in DOMAIN Declared(Bindings) /\ Readable(Bindings)
        BY <1>3, <2>2, <3>1, <3>2 DEF LoadSucceeds
      <4>2. PICK t \in TempFiles(Bindings) : t.id = api.id
        BY <1>2, <3>1, <4>1, DeclaredEntities
      <4> QED
        BY <1>1, <1>2, <4>1, <4>2, OnlyOrphans DEF ChangeInv
    <3> QED
      BY <2>1, <2>4, <3>1, <3>2 DEF c
  <2> QED
    BY <2>3, <2>4
<1>4. Stage'
  BY <1>1 DEF TypeInv, Request, ChangeInv, Stage, Same
<1>6. PutsBack' /\ Reads'
  BY <1>1 DEF ChangeInv, PutsBack, Reads, Same
<1>5. Tells'
  BY <1>1, <1>3 DEF Tells, Answered, RejectedChangeUndone, Same, Outlived
<1> QED
  BY <1>4, <1>5, <1>6 DEF ChangeInv

LEMMA ChangeStep ==
    ASSUME TypeInv, ChangeInv, [Next]_vars
    PROVE  ChangeInv'
<1>1. CASE Accepts
  BY <1>1, AcceptedRequest
     DEF ChangeInv, Stage, PutsBack, Reads, Tells, Answered, RejectedChangeUndone
<1>2. CASE ApiLoadsAgain
  <2>1. /\ Same(api') /\ api.pc = "recheck" /\ api'.pc = "idle" /\ api'.touched = api.touched
        /\ api'.code \in {422, 500} /\ UNCHANGED <<disk, temp, orphan>>
    BY <1>2, SecondLoadEnds
  <2> QED
    BY <2>1 DEF ChangeInv, Stage, PutsBack, Reads, Tells, Answered, RejectedChangeUndone, Same
<1>3. CASE ApiCrashes \/ ApiRestarts
  <2>1. api'.op = "none" /\ api'.pc \in {"idle", "down"} /\ api'.code = 0 /\ temp' = Absent
    BY <1>3 DEF ApiCrashes, ApiRestarts, NoRequest, ChangeInv, Stage
  <2> QED
    BY <2>1 DEF ChangeInv, Stage, PutsBack, Reads, Tells, Answered, RejectedChangeUndone
<1>4. CASE ReloadReads \/ ReloadSwaps \/ Connects \/ UNCHANGED vars
  <2>1. UNCHANGED <<disk, temp, orphan, api>>
    BY <1>4 DEF ReloadReads, ReloadSwaps, Connects, SetIntegrationRegistry, LoadDefaultRegistry,
                ResolveSource, Connect, ConnectFails, Files, vars
  <2>2. seen'["api"] = seen["api"] /\ current'["api"] = current["api"]
    BY <1>4 DEF ReloadReads, ReloadSwaps, Connects, SetIntegrationRegistry, LoadDefaultRegistry,
                ResolveSource, Connect, ConnectFails, vars, ReadSources, Swap, TypeInv, Procs
  <2> QED
    BY <2>1, <2>2 DEF ChangeInv, Stage, PutsBack, Reads, Tells, Answered, RejectedChangeUndone, Outlived
<1> QED
  BY <1>1, <1>2, <1>3, <1>4, NextSplit, WritesKeep, EditsKeep, ReadKeeps, LoadKeeps

-----------------------------------------------------------------------------
(* Connections.                                                            *)

\* The parts of the state that say what a federated query connects to.
Engine == <<server, bound, conns, late, thread>>

\* The API changes the registry of its own process only.
LEMMA ServerKeepsRegistry ==
    ASSUME TypeInv,
           Accepts \/ Writes \/ Edits \/ ApiReadsSources \/ ApiLoads \/ ApiLoadsAgain
             \/ ApiCrashes \/ ApiRestarts
    PROVE  current'["server"] = current["server"] /\ UNCHANGED Engine
<1>1. CASE Accepts
  BY <1>1, AcceptedRequest DEF Engine
<1>2. CASE Writes \/ ApiReadsSources \/ ApiLoads \/ ApiLoadsAgain
  BY <1>2 DEF Writes, WriteTemp, FillTemp, WriteFails, RenameTemp, UnlinkFile, UndoChange, RestoreBytes,
              ApiReadsSources, ApiLoads, ApiLoadsAgain, Elsewhere, Engine, Swap, TypeInv, Procs
<1>3. CASE Edits \/ ApiCrashes \/ ApiRestarts
  BY <1>3 DEF Edits, EditFile, ClearOrphan, ApiCrashes, ApiRestarts, Elsewhere, Engine, TypeInv, Procs
<1> QED
  BY <1>1, <1>2, <1>3

LEMMA ConnStep ==
    ASSUME TypeInv, ConnInv, [Next]_vars
    PROVE  ConnInv'
<1>1. CASE Accepts \/ Writes \/ Edits \/ ApiReadsSources \/ ApiLoads \/ ApiLoadsAgain
             \/ ApiCrashes \/ ApiRestarts
  BY <1>1, ServerKeepsRegistry DEF ConnInv, Engine
<1>2. CASE ReloadReads
  BY <1>2 DEF ReloadReads, ConnInv
<1>3. CASE ReloadSwaps
  BY <1>3 DEF ReloadSwaps, ConnInv
<1>4. CASE SetIntegrationRegistry
  <2>1. \A t \in Threads : thread[t] # Absent => thread[t].source \in late'
    BY <1>4 DEF SetIntegrationRegistry, Connecting
  <2> QED
    BY <1>4, <2>1 DEF SetIntegrationRegistry, ConnInv
<1>5. CASE LoadDefaultRegistry
  <2>1. bound' # ByReference
    BY <1>5, DeclaredEntities, ContentsAssumption DEF LoadDefaultRegistry, Loads
  <2> QED
    BY <1>5, <2>1 DEF LoadDefaultRegistry, ConnInv
<1>6. ASSUME NEW t \in Threads, NEW s \in Sources, ResolveSource(t, s) PROVE ConnInv'
  <2>1. thread'[t] = [source |-> s, revision |-> EngineRegistry[s]] /\ DOMAIN thread' = Threads
        /\ \A u \in Threads \ {t} : thread'[u] = thread[u]
    BY <1>6 DEF ResolveSource, ConnInv
  <2>2. s \in DOMAIN EngineRegistry /\ UNCHANGED <<current, server, bound, conns, late>>
    BY <1>6 DEF ResolveSource
  <2>3. bound = ByReference => EngineRegistry = current["server"]
    BY DEF EngineRegistry
  <2> QED
    BY <2>1, <2>2, <2>3 DEF ConnInv
<1>7. ASSUME NEW t \in Threads, Connect(t) \/ ConnectFails(t) PROVE ConnInv'
  <2>1. thread'[t] = Absent /\ DOMAIN thread' = Threads
        /\ \A u \in Threads \ {t} : thread'[u] = thread[u]
    BY <1>7 DEF Connect, ConnectFails, ConnInv
  <2>2. thread[t] # Absent /\ thread[t].source \in Sources /\ UNCHANGED <<current, server, bound, late>>
    BY <1>7 DEF Connect, ConnectFails, ConnInv
  <2>3. /\ DOMAIN conns' = Sources
        /\ \A s \in Sources : \/ conns'[s] = conns[s]
                              \/ s = thread[t].source /\ conns'[s] = thread[t].revision
    <3>1. CASE Connect(t)
      BY <2>2, <3>1 DEF Connect, ConnInv
    <3>2. CASE ConnectFails(t)
      BY <3>2 DEF ConnectFails, ConnInv
    <3> QED
      BY <1>7, <3>1, <3>2
  <2> QED
    BY <2>1, <2>2, <2>3 DEF ConnInv
<1>8. CASE UNCHANGED vars
  BY <1>8 DEF vars, ConnInv
<1> QED
  BY <1>1, <1>2, <1>3, <1>4, <1>5, <1>6, <1>7, <1>8, NextSplit DEF Connects

-----------------------------------------------------------------------------
(* The theorems.                                                           *)

Inv == TypeInv /\ ChangeInv /\ ConnInv

LEMMA InitInv == Init => Inv /\ ServedIsConsistent
<1> SUFFICES ASSUME Init PROVE Inv /\ ServedIsConsistent
  OBVIOUS
<1>1. disk \in [Ids -> Bodies \cup {Absent, Broken, Torn}]
  <2>1. PICK s \in [Sources -> Revisions \cup {Absent}], b \in [Bindings -> BindingBody \cup {Absent}] :
          disk = Both(s, b)
    BY DEF Init
  <2> QED
    BY <2>1 DEF Both, Ids, Bodies
<1>2. api = NoRequest /\ NoRequest \in Request
  BY DEF Init, NoRequest, Request, Stages, Codes
<1>3. Declared(Ids) \in Registries /\ Consistent(Declared(Ids))
  <2> DEFINE D == {j \in Ids : disk[j] # Absent}
  <2>1. TempFiles(Ids) = {} /\ Readable(Ids)
    BY DEF Init, TempFiles, Loads
  <2>2. Declared(Ids) = [i \in D |-> disk[i]]
    BY <2>1 DEF Declared
  <2>3. Declared(Ids) \in [D -> Bodies] /\ D \in SUBSET Ids
    BY <1>1, <2>1, <2>2 DEF Readable
  <2> HIDE DEF D
  <2> QED
    BY <2>3 DEF Registries, Init, Loads
<1>4. TypeInv
  BY <1>1, <1>2, <1>3 DEF Init, TypeInv
<1>5. ChangeInv
  BY <1>2 DEF Init, NoRequest, ChangeInv, Stage, PutsBack, Reads, Tells, Answered, RejectedChangeUndone
<1>6. ConnInv
  BY ContentsAssumption DEF Init, ConnInv
<1> QED
  BY <1>3, <1>4, <1>5, <1>6 DEF Inv, Init, ServedIsConsistent

LEMMA InvStep == Inv /\ [Next]_vars => Inv'
BY TypeStep, ChangeStep, ConnStep DEF Inv, ChangeInv

\* No registry that a process serves has two bindings on one live table or a
\* binding without its source, whatever became of the files while it was read:
\* every one of them was checked as a whole before it was published.
THEOREM RegistriesAreConsistent == Spec => []ServedIsConsistent
<1>1. Inv /\ ServedIsConsistent /\ [Next]_vars => ServedIsConsistent'
  <2> SUFFICES ASSUME Inv, ServedIsConsistent, [Next]_vars PROVE ServedIsConsistent'
    OBVIOUS
  <2>1. TypeInv /\ "api" \in Procs /\ "server" \in Procs /\ Procs = {"api", "server"}
    BY DEF Inv, Procs
  <2>2. CASE ApiLoads
    BY <2>1, <2>2, LoadEnds, SwapIn DEF ServedIsConsistent
  <2>3. CASE ApiLoadsAgain
    BY <2>1, <2>3, SecondLoadEnds, SwapIn DEF ServedIsConsistent
  <2>4. CASE ReloadSwaps
    BY <2>1, <2>4, SwapIn DEF ReloadSwaps, ServedIsConsistent
  <2>5. CASE ApiRestarts
    BY <2>1, <2>5 DEF ApiRestarts, Loads, ServedIsConsistent, TypeInv
  <2>6. CASE Accepts \/ Writes \/ Edits \/ Connects \/ ApiReadsSources \/ ApiCrashes
               \/ ReloadReads \/ UNCHANGED vars
    <3>1. Accepts => current' = current
      BY <2>1, AcceptedRequest
    <3>2. current' = current
      BY <2>6, <3>1
         DEF Writes, WriteTemp, FillTemp, WriteFails, RenameTemp, UnlinkFile, UndoChange, RestoreBytes,
             Edits, EditFile, ClearOrphan, Connects, SetIntegrationRegistry, LoadDefaultRegistry,
             ResolveSource, Connect, ConnectFails, ApiReadsSources, ApiCrashes, ReloadReads, vars
    <3> QED
      BY <3>2 DEF ServedIsConsistent
  <2> QED
    BY <2>2, <2>3, <2>4, <2>5, <2>6, NextSplit
<1> QED
  BY <1>1, InitInv, InvStep, PTL DEF Spec

\* What the API answers is what has become of the change: in the file and in
\* the registry it serves when it says so, and taken back when it was rejected,
\* with other processes' reloads, edits and crashes in between.
THEOREM AnswersAreTrue == Spec => []AnswersTell
<1>1. Inv => AnswersTell
  <2> SUFFICES ASSUME Inv PROVE AnswersTell
    OBVIOUS
  <2>1. Tells
    BY DEF Inv, ChangeInv
  <2>2. orphan = Absent => ~Outlived
    BY DEF Outlived
  <2> QED
    BY <2>1, <2>2 DEF Tells, AnswersTell, AcceptedIsServed
<1> QED
  BY <1>1, InitInv, InvStep, PTL DEF Spec

\* A query never uses a connection made from a declaration that a reload has
\* replaced, unless it was being made when the engine was rebound.
THEOREM ConnectionsAreCurrent == Spec => []ReloadDropsConnections
<1>1. Inv => ReloadDropsConnections
  BY DEF Inv, ConnInv, ReloadDropsConnections
<1> QED
  BY <1>1, InitInv, InvStep, PTL DEF Spec

=============================================================================
