-------------------------- MODULE ReadServiceProofs --------------------------
(***************************************************************************)
(* What the read service promises for any requests, users, caps, profiles, *)
(* batches and sequence of registries; and, for any facts, registry,       *)
(* hierarchy, calendar and request, what a report keeps of the scopes, and *)
(* that its figures are the facts their labels name.                       *)
(***************************************************************************)
EXTENDS ReadService, FinancialTable, FiniteSetTheorems, SequenceTheorems, TLAPS

-----------------------------------------------------------------------------
(* Scenario keys: a key that stands for something goes on standing for it. *)

\* Row sets that NamesAssumption describes.
Unambiguous(reg) ==
    /\ \A s \in reg : \A n \in Spellings(s) : n \in Seq(STRING) /\ Unmistakable(n)
    /\ \A s, t \in reg : s # t => Spellings(s) \cap Spellings(t) = {}

\* What a reference is called tells it from Unknown.
LEMMA References ==
    ASSUME NEW x, NEW y
    PROVE  Real(x) # Unknown /\ Moved(x, y) # Unknown
BY DEF Real, Moved, Unknown

\* Alias before id is no choice: a name is one row's.
LEMMA RealStays ==
    ASSUME NEW all, Unambiguous(all), NEW reg, reg \subseteq all, NEW k,
           FindReal(reg, k) # Unknown
    PROVE  FindReal(all, k) = FindReal(reg, k)
<1>1. PICK s \in reg : k \in Spellings(s)
  BY DEF FindReal, Spellings
<1>2. \A t \in all : k \in Spellings(t) => t = s
  BY <1>1 DEF Unambiguous
<1> QED
  BY <1>1, <1>2 DEF FindReal, Spellings

\* A suffix is that of one alias, and no row is named like an alias with one.
LEMMA ShiftedStays ==
    ASSUME NEW all, Unambiguous(all), NEW reg, reg \subseteq all, NEW k,
           FindShifted(reg, k) # Unknown
    PROVE  /\ FindReal(all, k) = Unknown
           /\ FindShifted(all, k) = FindShifted(reg, k)
<1> DEFINE based(R) == {s \in R : s.alias = Front(k)}
<1>1. (EndsIn(k, "py") \/ EndsIn(k, "pp")) /\ based(reg) # {}
  BY DEF FindShifted
<1>2. \A s \in all : k \notin Spellings(s)
  BY <1>1 DEF Unambiguous, Unmistakable, ValidAlias
<1>3. \A s, t \in all : s.alias = t.alias => s = t
  BY DEF Unambiguous, Spellings
<1>4. based(all) = based(reg)
  BY <1>1, <1>3
<1>5. FindReal(all, k) = Unknown
  BY <1>2 DEF FindReal, Spellings
<1>6. \A R : FindShifted(R, k) = IF (EndsIn(k, "py") \/ EndsIn(k, "pp")) /\ based(R) # {}
                               THEN Moved(CHOOSE s \in based(R) : TRUE, k[Len(k)])
                               ELSE Unknown
  BY Zenon DEF FindShifted
<1> HIDE DEF based
<1>7. FindShifted(all, k) = FindShifted(reg, k)
  BY <1>4, <1>6, Zenon
<1> QED
  BY <1>5, <1>7

\* The same of every key without a comparison.
LEMMA SimpleStays ==
    ASSUME NEW all, Unambiguous(all), NEW reg, reg \subseteq all, NEW k,
           FindSimple(reg, k) # Unknown
    PROVE  FindSimple(all, k) = FindSimple(reg, k)
<1> DEFINE c == Canonical(k)
<1>1. c # <<>>
  BY DEF FindSimple
<1> HIDE DEF c
<1>2. CASE FindReal(reg, c) # Unknown
  BY <1>1, <1>2, RealStays DEF FindSimple, c
<1>3. CASE FindReal(reg, c) = Unknown
  <2>1. FindSimple(reg, k) = FindShifted(reg, c)
    BY <1>1, <1>3 DEF FindSimple, c
  <2>2. FindReal(all, c) = Unknown /\ FindShifted(all, c) = FindShifted(reg, c)
    BY <1>1, <2>1, ShiftedStays
  <2> QED
    BY <1>1, <2>1, <2>2 DEF FindSimple, c
<1> QED
  BY <1>2, <1>3

\* A comparison can be read in one way only, and its two sides keep theirs.
THEOREM KeysKeepMeaning ==
    ASSUME NEW all, Unambiguous(all), NEW reg, reg \subseteq all, NEW k \in Seq(STRING),
           Resolve(reg, k) # Unknown
    PROVE  Resolve(all, k) = Resolve(reg, k)
<1> DEFINE c == Canonical(k)
<1>1. CASE FindSimple(reg, k) # Unknown
  BY <1>1, SimpleStays DEF Resolve
<1>2. CASE FindSimple(reg, k) = Unknown
  <2>1. k # <<>> /\ FindVariance(reg, c) # Unknown /\ Resolve(reg, k) = FindVariance(reg, c)
    BY <1>2 DEF Resolve
  <2> DEFINE pct == EndsIn(c, "pct")
             body == IF pct THEN Front(c) ELSE c
             cuts == {i \in 2 .. Len(body) - 1 : body[i] = "vs"}
             i == CHOOSE x \in cuts : \A d \in cuts : x <= d
             lk == SubSeq(body, 1, i - 1)
             rk == SubSeq(body, i + 1, Len(body))
             variance(R) == [node |-> IF pct THEN "variance_pct" ELSE "variance",
                             left |-> FindSimple(R, lk), right |-> FindSimple(R, rk)]
  <2>2. \A R : FindVariance(R, c) =
                IF cuts = {} THEN Unknown
                ELSE IF Unknown \in {FindSimple(R, lk), FindSimple(R, rk)} THEN Unknown
                ELSE variance(R)
    BY Zenon DEF FindVariance
  <2>3. cuts # {} /\ FindSimple(reg, lk) # Unknown /\ FindSimple(reg, rk) # Unknown
    BY <2>1, <2>2
  <2>4. FindSimple(all, lk) = FindSimple(reg, lk) /\ FindSimple(all, rk) = FindSimple(reg, rk)
    <3> HIDE DEF lk, rk
    <3> QED
      BY <2>3, SimpleStays
  <2>5. FindVariance(all, c) = FindVariance(reg, c)
    <3> HIDE DEF lk, rk, cuts
    <3> QED
      BY <2>2, <2>4
  <2>6. k \notin DOMAIN Compatible /\ c = k
    <3>1. SUFFICES ASSUME k \in DOMAIN Compatible PROVE FALSE
      BY DEF Canonical
    <3>2. c = <<"actuals", "py">> \/ c = <<"actuals", "pp">>
      BY <3>1 DEF Canonical, Compatible
    <3>3. Len(c) = 2 /\ ~pct
      BY <3>2 DEF EndsIn
    <3> HIDE DEF c
    <3>4. Len(body) = 2
      BY <3>3
    <3>5. 2 .. Len(body) - 1 = {}
      <4> HIDE DEF body
      <4> QED
        BY <3>4
    <3>6. cuts = {}
      BY <3>5
    <3> QED
      BY <2>3, <3>6
  <2>7. PICK j \in 2 .. Len(body) - 1 : body[j] = "vs"
    BY <2>3
  <2>8. \A s \in all : k \notin Spellings(s)
    <3>1. SUFFICES ASSUME Unmistakable(k) PROVE FALSE
      BY DEF Unambiguous
    <3>2. ~pct /\ body = k
      BY <2>6, <3>1 DEF Unmistakable, ValidAlias
    <3> QED
      BY <2>7, <3>1, <3>2 DEF Unmistakable, ValidAlias
  <2>9. FindReal(all, k) = Unknown
    BY <2>8 DEF FindReal, Spellings
  <2>10. FindShifted(all, k) = Unknown
    <3>1. SUFFICES ASSUME EndsIn(k, "py") \/ EndsIn(k, "pp"), NEW s \in all, s.alias = Front(k)
                   PROVE  FALSE
      BY DEF FindShifted
    <3>2. body = k
      BY <2>6, <3>1 DEF EndsIn
    <3>3. Len(k) \in Nat /\ Len(k) > 1
      BY <3>1 DEF EndsIn
    <3>4. Len(Front(k)) = Len(k) - 1 /\ \A x \in 1 .. Len(k) - 1 : Front(k)[x] = k[x]
      BY <3>3, SubSeqProperties DEF Front
    <3>5. Unmistakable(Front(k))
      BY <3>1 DEF Unambiguous, Spellings
    <3> DEFINE f == Front(k)
    <3>6. Len(f) = Len(k) - 1 /\ j \in 2 .. Len(f) /\ f[j] = "vs"
      <4> HIDE DEF body
      <4> QED
        BY <2>7, <3>2, <3>3, <3>4
    <3>7. ValidAlias(f) /\ ~EndsIn(f, "vs")
      BY <3>5 DEF Unmistakable
    <3> HIDE DEF f
    <3>8. j \notin 2 .. Len(f) - 1
      BY <3>6, <3>7 DEF ValidAlias
    <3>9. j = Len(f) /\ Len(f) > 1
      BY <3>3, <3>6, <3>8
    <3> QED
      BY <3>6, <3>7, <3>9 DEF EndsIn
  <2>11. FindSimple(all, k) = Unknown
    BY <2>1, <2>6, <2>9, <2>10 DEF FindSimple
  <2> QED
    BY <2>1, <2>5, <2>6, <2>11 DEF Resolve
<1> QED
  BY <1>1, <1>2

-----------------------------------------------------------------------------
(* The inductive invariant, in four parts.                                 *)

\* What the process holds of the scenarios lies between the last of its own
\* writes that has returned and the table.
RegistryOrder ==
    /\ {table, settled} \subseteq Versions /\ settled <= table
    /\ writer \in {"idle", "wrote"}
    /\ cache # NoRegistry => cache \in settled .. table
    /\ loading # NoLoad => loading.by \in Requests /\ loading.v \in settled .. table

\* What is asked of the process, and what a profile may grant there.
CallsOf == UNION {{b[i] : i \in DOMAIN b} : b \in Batches}
Grants == {<<>>} \cup {Granted[p][v] : p \in Profiles \cup {FirstProfile}, v \in Versions}
Assignable == Profiles \cup {FirstProfile, <<>>}

\* A scope is what the grants say of the scenarios, or says nothing where
\* they leave everything open.
ScopeFits(q) ==
    \/ q.scope = ReadScopes(q.perms, q.gated)
    \/ q.scope = NoScope /\ \A id \in q.gated : q.perms[id]["read"] = Everything

\* Where a request stands says what it has been granted and what it ran.
Standing(q) ==
    /\ q.pc \in {"idle", "auth", "next", "slot", "slots", "engine", "watch", "commit",
                 "fetch", "renew", "leave", "answered"}
    /\ q.rest \in Seq(CallsOf) /\ (q.pc \notin {"idle", "answered"} => q.rest # <<>>)
    /\ q.profile \in Assignable /\ (q.pc = "auth" => q.profile # <<>>)
    /\ q.perms \in Grants
    /\ q.pc \in {"idle", "auth", "next", "answered"} =>
         q.gated = {} /\ q.ran = {} /\ q.scope = NoScope /\ q.served = NoScope
    /\ q.ran \subseteq q.gated /\ q.gated \subseteq Readable(q.perms)
    /\ ScopeFits(q)
    /\ q.pc \in {"slot", "slots", "engine"} /\ Head(q.rest).tool = "run" =>
         \E v \in Versions \cup {NoRegistry} : q.gated = Asked[v][KeyOfCall(Head(q.rest))]
    /\ q.pc = "engine" => Head(q.rest).tool = "run"
    /\ \A id \in DOMAIN q.served :
         id \in Readable(q.perms) /\ q.perms[id]["read"] = q.served[id]

\* A snapshot's stamp covers what it was computed under.
Stamped(entry) ==
    \A id \in DOMAIN entry.under :
        id \in DOMAIN entry.stamp /\ entry.under[id] = entry.stamp[id]

Standings ==
    /\ owner \in [Requests -> Users]
    /\ profile \in [Users -> Assignable]
    /\ DOMAIN req = Requests /\ \A r \in Requests : DOMAIN req[r] = DOMAIN Idle
    /\ \A r \in Requests : Standing(req[r])
    /\ \A x \in DOMAIN snaps : Stamped(snaps[x])

\* Slots are free or held, and the caps are numbers.
Slots ==
    /\ caps \in [user : Nat, global : Nat]
    /\ userFree \in [Users -> Nat] /\ globalFree \in Nat
    /\ SlotsAccounted

\* A writer whose watched keys nobody has touched still has room.
Quota ==
    /\ IsFiniteSet(DOMAIN snaps)
    /\ SnapshotQuotaKept
    /\ \A r \in Requests :
         At(r, "commit") /\ r \in clean => Cardinality(Of(owner[r])) < MaxSnapshots

Inv == RegistryOrder /\ Standings /\ Slots /\ Quota

-----------------------------------------------------------------------------
(* The registry.                                                           *)

\* Being served the registry, in either way, keeps the order.
LEMMA ObtainsInOrder ==
    ASSUME RegistryOrder, NEW r \in Requests, NEW v, Obtains(r, v)
    PROVE  RegistryOrder' /\ v \in Versions
<1>1. CASE Hit(r, v)
  BY <1>1, RegistriesAssumption DEF RegistryOrder, Hit, registry
<1>2. CASE Publish(r, v)
  <2>1. loading # NoLoad
    BY <1>2, RequestsAssumption DEF Publish, NoLoad
  <2> QED
    BY <1>2, <2>1, RegistriesAssumption DEF RegistryOrder, Publish
<1> QED
  BY <1>1, <1>2 DEF Obtains

LEMMA FailsInOrder ==
    ASSUME RegistryOrder, NEW r, LoadFails(r)
    PROVE  RegistryOrder'
BY DEF RegistryOrder, LoadFails

\* The served version is never behind a local write that has returned: a load
\* and an invalidation exclude each other under the registry's lock.
LEMMA RegistryStep ==
    ASSUME RegistryOrder, [Next]_vars
    PROVE  RegistryOrder'
<1>1. CASE UNCHANGED registry
  BY <1>1 DEF RegistryOrder, registry
<1>2. ASSUME NEW r \in Requests, Query(r)
      PROVE  RegistryOrder'
  BY <1>2, RegistriesAssumption DEF Query, RegistryOrder
<1>3. ASSUME NEW r \in Requests, Authenticate(r) \/ Gate(r) \/ Execute(r)
      PROVE  RegistryOrder'
  BY <1>3, ObtainsInOrder, FailsInOrder DEF Authenticate, Gate, Execute
<1>4. ASSUME NEW r \in Requests, AuthenticateFails(r) \/ ExecuteFails(r)
      PROVE  RegistryOrder'
  BY <1>4, FailsInOrder DEF AuthenticateFails, ExecuteFails
<1>5. ASSUME NEW r \in Requests,
             \/ Arrive(r) \/ PassGate(r) \/ TakeUser(r) \/ NoUserSlot(r) \/ TakeGlobal(r)
             \/ NoGlobalSlot(r) \/ Watch(r) \/ Commit(r) \/ Fetch(r) \/ Renew(r) \/ Leave(r)
      PROVE  RegistryOrder'
  <2>1. UNCHANGED registry
    BY <1>5 DEF Arrive, PassGate, TakeUser, NoUserSlot, TakeGlobal, NoGlobalSlot, Watch,
                Commit, Fetch, Renew, Leave
  <2> QED
    BY <2>1, <1>1
<1>6. CASE Expire
  BY <1>6 DEF Expire, RegistryOrder, NoRegistry
<1>7. CASE LocalWrite \/ RemoteWrite
  BY <1>7, RegistriesAssumption DEF LocalWrite, RemoteWrite, RegistryOrder
<1>8. CASE LocalInvalidate
  BY <1>8, RegistriesAssumption DEF LocalInvalidate, RegistryOrder, NoRegistry
<1>9. CASE Lapse \/ ChangeProfile
  BY <1>9, <1>1 DEF Lapse, ChangeProfile
<1>10. CASE UNCHANGED vars
  BY <1>10, <1>1 DEF vars, registry
<1> QED
  BY <1>2, <1>3, <1>4, <1>5, <1>6, <1>7, <1>8, <1>9, <1>10 DEF Next, Serve

\* OwnWritesSeen, for every history of writes, loads, failures and expiries.
THEOREM LocalWritesAreSeen == Spec => []OwnWritesSeen
<1>1. Init => RegistryOrder
  BY RegistriesAssumption DEF Init, RegistryOrder
<1>2. RegistryOrder => OwnWritesSeen
  BY RegistriesAssumption DEF RegistryOrder, OwnWritesSeen
<1> QED
  BY <1>1, <1>2, RegistryStep, PTL DEF Spec

-----------------------------------------------------------------------------
(* The requests.                                                           *)

Shaped == DOMAIN req = Requests /\ \A r \in Requests : DOMAIN req[r] = DOMAIN Idle

\* A step of one request is no step of another.
LEMMA OneMoves ==
    ASSUME Shaped, NEW r \in Requests, NEW q, DOMAIN q = DOMAIN Idle, Becomes(r, q)
    PROVE  Shaped' /\ req'[r] = q /\ \A s \in Requests \ {r} : req'[s] = req[s]
BY DEF Shaped, Becomes, Idle

LEMMA GotoMoves ==
    ASSUME Shaped, NEW r \in Requests, NEW pc, Goto(r, pc)
    PROVE  /\ Shaped' /\ req'[r] = [req[r] EXCEPT !.pc = pc] /\ req'[r].pc = pc
           /\ \A s \in Requests \ {r} : req'[s] = req[s]
BY DEF Shaped, Goto, Idle

\* What a request is once a call is over.
LEMMA FinishedIs ==
    ASSUME Shaped, NEW r \in Requests
    PROVE  /\ DOMAIN Finished(r) = DOMAIN Idle
           /\ Finished(r).pc \in {"answered", "next"}
           /\ Finished(r).pc = "next" => Tail(req[r].rest) # <<>>
           /\ Finished(r).rest = Tail(req[r].rest)
           /\ Finished(r).profile = req[r].profile /\ Finished(r).perms = req[r].perms
           /\ Finished(r).gated = {} /\ Finished(r).ran = {}
           /\ Finished(r).scope = NoScope /\ Finished(r).served = NoScope
BY DEF Shaped, Finished, Cleared, Idle

\* The same of a transaction that is tried again, or no more.
LEMMA RetryIs ==
    ASSUME Shaped, NEW r \in Requests, NEW pc, Retry(r, pc)
    PROVE  /\ Shaped' /\ \A s \in Requests \ {r} : req'[s] = req[s]
           /\ req'[r].pc \in {"leave", pc} /\ req'[r].served = NoScope
           /\ \A f \in {"rest", "profile", "perms", "gated", "scope", "ran"} :
                req'[r][f] = req[r][f]
<1> DEFINE q == [req[r] EXCEPT !.pc = IF req[r].tries + 1 = MaxTries THEN "leave" ELSE pc,
                               !.served = NoScope,
                               !.tries = IF req[r].tries + 1 = MaxTries THEN @ ELSE @ + 1]
<1>1. Becomes(r, q) /\ DOMAIN q = DOMAIN Idle
  BY DEF Retry, Shaped
<1>2. /\ q.pc \in {"leave", pc} /\ q.served = NoScope
      /\ \A f \in {"rest", "profile", "perms", "gated", "scope", "ran"} : q[f] = req[r][f]
  BY DEF Shaped, Idle
<1> HIDE DEF q
<1> QED
  BY <1>1, <1>2, OneMoves

-----------------------------------------------------------------------------
(* The slots.                                                              *)

Running == {"engine", "watch", "commit", "fetch", "renew", "leave"}
Holders == Running \cup {"slots"}
InThread == {r \in Requests : req[r].pc \in Running}
WithSlot(u) == {r \in Requests : req[r].pc \in Holders /\ owner[r] = u}

SlotsFor(u) == userFree[u] + Cardinality(WithSlot(u)) = caps.user
SlotsForAll == globalFree + Cardinality(InThread) = caps.global

LEMMA SlotsAre ==
    SlotsAccounted <=> (\A u \in Users : SlotsFor(u)) /\ SlotsForAll
<1>1. \A u : WithSlot(u) = {r \in {s \in Requests : req[s].pc \in Running \cup {"slots"}} : owner[r] = u}
  BY DEF WithSlot, Holders
<1> QED
  BY <1>1, Zenon DEF SlotsAccounted, SlotsFor, SlotsForAll, InThread, Running

LEMMA SlotsAreNext ==
    SlotsAccounted' <=> ((\A u \in Users : SlotsFor(u)) /\ SlotsForAll)'
BY SlotsAre, PTL

\* The sets are finite, so their sizes are numbers.
LEMMA HoldersFinite ==
    /\ IsFiniteSet(InThread) /\ Cardinality(InThread) \in Nat
    /\ \A u : IsFiniteSet(WithSlot(u)) /\ Cardinality(WithSlot(u)) \in Nat
<1>1. InThread \subseteq Requests /\ \A u : WithSlot(u) \subseteq Requests
  BY DEF InThread, WithSlot
<1> QED
  BY <1>1, RequestsAssumption, FS_Subset, FS_CardinalityType

\* A move that neither takes nor gives a slot.
LEMMA SlotsUntouched ==
    ASSUME Slots, UNCHANGED <<owner, caps, userFree, globalFree>>,
           \A r \in Requests :
               /\ req'[r].pc \in Running <=> req[r].pc \in Running
               /\ req'[r].pc \in Holders <=> req[r].pc \in Holders
    PROVE  Slots'
<1>1. InThread' = InThread
  BY DEF InThread, Running
<1>2. ASSUME NEW u PROVE WithSlot(u)' = WithSlot(u)
  BY DEF WithSlot, Holders, Running
<1>3. SlotsForAll' /\ \A u \in Users : SlotsFor(u)'
  BY <1>1, <1>2, SlotsAre DEF Slots, SlotsFor, SlotsForAll
<1>4. SlotsAccounted'
  BY <1>3, SlotsAreNext
<1> QED
  BY <1>4 DEF Slots

\* A request of user u moves into a place, or out of one: one more, one less.
LEMMA OneMore ==
    ASSUME Shaped, NEW r \in Requests, req[r].pc \notin Holders, req'[r].pc = "slots",
           UNCHANGED owner, \A s \in Requests \ {r} : req'[s] = req[s]
    PROVE  /\ InThread' = InThread
           /\ Cardinality(WithSlot(owner[r])') = Cardinality(WithSlot(owner[r])) + 1
           /\ \A u : u # owner[r] => WithSlot(u)' = WithSlot(u)
<1>1. InThread' = InThread
  BY DEF InThread, Holders, Running
<1>2. ASSUME NEW u, u # owner[r] PROVE WithSlot(u)' = WithSlot(u)
  BY <1>2 DEF WithSlot, Holders, Running
<1>3. WithSlot(owner[r])' = WithSlot(owner[r]) \cup {r} /\ r \notin WithSlot(owner[r])
  BY DEF WithSlot, Holders, Running
<1>4. Cardinality(WithSlot(owner[r]) \cup {r}) = Cardinality(WithSlot(owner[r])) + 1
  BY <1>3, HoldersFinite, FS_AddElement
<1> QED
  BY <1>1, <1>2, <1>3, <1>4

LEMMA OneLess ==
    ASSUME Shaped, NEW r \in Requests, req[r].pc \in Holders, req'[r].pc \notin Holders,
           UNCHANGED owner, \A s \in Requests \ {r} : req'[s] = req[s]
    PROVE  /\ Cardinality(WithSlot(owner[r])') = Cardinality(WithSlot(owner[r])) - 1
           /\ \A u : u # owner[r] => WithSlot(u)' = WithSlot(u)
           /\ req[r].pc = "slots" => InThread' = InThread
           /\ req[r].pc # "slots" => Cardinality(InThread') = Cardinality(InThread) - 1
<1>1. ASSUME NEW u, u # owner[r] PROVE WithSlot(u)' = WithSlot(u)
  BY <1>1 DEF WithSlot, Holders, Running
<1>2. WithSlot(owner[r])' = WithSlot(owner[r]) \ {r} /\ r \in WithSlot(owner[r])
  BY DEF WithSlot, Holders, Running
<1>3. Cardinality(WithSlot(owner[r]) \ {r}) = Cardinality(WithSlot(owner[r])) - 1
  BY <1>2, HoldersFinite, FS_RemoveElement
<1>4. CASE req[r].pc = "slots"
  <2>1. InThread' = InThread
    BY <1>4 DEF InThread, Holders, Running
  <2> QED
    BY <1>1, <1>2, <1>3, <1>4, <2>1
<1>5. CASE req[r].pc # "slots"
  <2>1. InThread' = InThread \ {r} /\ r \in InThread
    BY <1>5 DEF InThread, Holders, Running
  <2>2. Cardinality(InThread \ {r}) = Cardinality(InThread) - 1
    BY <2>1, HoldersFinite, FS_RemoveElement
  <2> QED
    BY <1>1, <1>2, <1>3, <1>5, <2>1, <2>2
<1> QED
  BY <1>4, <1>5

LEMMA OneEnters ==
    ASSUME Shaped, NEW r \in Requests, req[r].pc = "slots", req'[r].pc \in Running,
           UNCHANGED owner, \A s \in Requests \ {r} : req'[s] = req[s]
    PROVE  /\ \A u : WithSlot(u)' = WithSlot(u)
           /\ Cardinality(InThread') = Cardinality(InThread) + 1
<1>1. ASSUME NEW u PROVE WithSlot(u)' = WithSlot(u)
  BY DEF WithSlot, Holders, Running
<1>2. InThread' = InThread \cup {r} /\ r \notin InThread
  BY DEF InThread, Running
<1>3. Cardinality(InThread \cup {r}) = Cardinality(InThread) + 1
  BY <1>2, HoldersFinite, FS_AddElement
<1> QED
  BY <1>1, <1>2, <1>3

\* A call is one of a batch, and asks for a key the tables have.
LEMMA CallsAre ==
    /\ \A b \in Batches : b \in Seq(CallsOf) /\ b # <<>>
    /\ \A c \in CallsOf : c.tool \in {"run", "search", "chart"} /\ KeyOfCall(c) \in Keys
    /\ Keys \subseteq Seq(STRING)
<1> DEFINE C == [tool : {"run", "search", "chart"}, key : Seq(STRING)]
<1>1. ASSUME NEW b \in Batches, NEW i \in DOMAIN b
      PROVE  b[i] \in CallsOf /\ b[i] \in C /\ b[i].key \in Keys
  <2>1. b \in Seq(C)
    BY BatchesAssumption
  <2>2. b[i] \in C
    <3> HIDE DEF C
    <3> QED
      BY <2>1, LenProperties, ElementOfSeq
  <2>3. b[i] \in CallsOf /\ b[i].key \in Keys
    BY DEF CallsOf, Keys
  <2> QED
    BY <2>2, <2>3
<1>2. ASSUME NEW b \in Batches PROVE b \in Seq(CallsOf) /\ b # <<>>
  <2>1. b \in Seq(C) /\ b # <<>>
    BY BatchesAssumption
  <2>2. Len(b) \in Nat /\ b \in [1 .. Len(b) -> C]
    BY <2>1, LenProperties
  <2>3. b \in [1 .. Len(b) -> CallsOf]
    <3> HIDE DEF C
    <3> QED
      BY <1>1, <2>2
  <2>4. b \in Seq(CallsOf)
    <3> HIDE DEF C
    <3> QED
      BY <2>2, <2>3, SeqDef
  <2> QED
    BY <2>1, <2>4
<1>3. ASSUME NEW c \in CallsOf
      PROVE  c.tool \in {"run", "search", "chart"} /\ KeyOfCall(c) \in Keys
  BY <1>1 DEF CallsOf, KeyOfCall, Keys
<1>4. ASSUME NEW k \in Keys PROVE k \in Seq(STRING)
  <2>1. k = DefaultKey \/ \E b \in Batches : \E i \in DOMAIN b : k = b[i].key
    BY DEF Keys
  <2> QED
    BY <1>1, <2>1, DefaultKeyAssumption
<1> QED
  BY <1>2, <1>3, <1>4

\* Each place is taken, kept and given back by the request that is in it.
LEMMA SlotsStep ==
    ASSUME Standings, Slots, [Next]_vars
    PROVE  Slots'
<1>1. Shaped
  BY DEF Standings, Shaped
<1>2. ASSUME UNCHANGED <<owner, limiter, req>> PROVE Slots'
  BY <1>2, SlotsUntouched DEF limiter
<1>3. ASSUME NEW r \in Requests,
             \/ Arrive(r) \/ Authenticate(r) \/ AuthenticateFails(r) \/ Gate(r) \/ PassGate(r)
             \/ NoUserSlot(r)
      PROVE  Slots'
  <2>1. UNCHANGED <<owner, limiter>> /\ req[r].pc \notin Holders
    BY <1>3 DEF Arrive, Authenticate, AuthenticateFails, Gate, PassGate, NoUserSlot, AtGate, At,
                people, Holders, Running
  <2>2. /\ \A s \in Requests \ {r} : req'[s] = req[s]
        /\ req'[r].pc \in {"auth", "next", "slot", "answered"}
    <3>1. ASSUME NEW q, DOMAIN q = DOMAIN Idle, q.pc \in {"auth", "next", "slot", "answered"},
                 Becomes(r, q)
          PROVE  /\ \A s \in Requests \ {r} : req'[s] = req[s]
                 /\ req'[r].pc \in {"auth", "next", "slot", "answered"}
      BY <1>1, <3>1, OneMoves
    <3> QED
      BY <1>1, <1>3, <3>1, FinishedIs DEF Arrive, Authenticate, AuthenticateFails, Gate, GateWith, PassGate,
         NoUserSlot, Shaped, Idle
  <2> QED
    BY <2>1, <2>2, SlotsUntouched DEF Holders, Running, limiter
<1>4. ASSUME NEW r \in Requests, TakeUser(r)
      PROVE  Slots'
  <2>1. /\ \A s \in Requests \ {r} : req'[s] = req[s]
        /\ req[r].pc = "slot" /\ req'[r].pc = "slots"
    BY <1>1, <1>4, GotoMoves DEF TakeUser, At
  <2>2. /\ userFree[owner[r]] > 0 /\ userFree' = [userFree EXCEPT ![owner[r]] = @ - 1]
        /\ UNCHANGED <<owner, caps, globalFree>>
    BY <1>4 DEF TakeUser, people
  <2>3. owner[r] \in Users /\ userFree' \in [Users -> Nat]
    BY <2>2 DEF Standings, Slots
  <2>4. /\ InThread' = InThread
        /\ Cardinality(WithSlot(owner[r])') = Cardinality(WithSlot(owner[r])) + 1
        /\ \A u : u # owner[r] => WithSlot(u)' = WithSlot(u)
    BY <1>1, <2>1, <2>2, OneMore DEF Holders, Running
  <2>5. SlotsForAll' /\ \A u \in Users : SlotsFor(u)'
    BY <2>2, <2>3, <2>4, SlotsAre, HoldersFinite DEF Slots, SlotsFor, SlotsForAll
  <2>6. SlotsAccounted'
    BY <2>5, SlotsAreNext
  <2> QED
    BY <2>2, <2>3, <2>6 DEF Slots
<1>5. ASSUME NEW r \in Requests, TakeGlobal(r)
      PROVE  Slots'
  <2>1. req[r].pc = "slots" /\ Call(r) \in CallsOf
    BY <1>5, HeadTailProperties DEF TakeGlobal, At, Standings, Standing, Call
  <2>2. Tools[Call(r).tool] \in Running
    BY <2>1, CallsAre DEF Tools, Running
  <2>3. /\ \A s \in Requests \ {r} : req'[s] = req[s]
        /\ req'[r].pc \in Running
    BY <1>1, <1>5, <2>2, GotoMoves DEF TakeGlobal
  <2>4. /\ globalFree > 0 /\ globalFree' = globalFree - 1 /\ UNCHANGED <<owner, caps, userFree>>
    BY <1>5 DEF TakeGlobal, people
  <2>5. /\ \A u : WithSlot(u)' = WithSlot(u)
        /\ Cardinality(InThread') = Cardinality(InThread) + 1
    BY <1>1, <2>1, <2>3, <2>4, OneEnters
  <2>6. SlotsForAll' /\ \A u \in Users : SlotsFor(u)'
    BY <2>4, <2>5, SlotsAre, HoldersFinite DEF Slots, SlotsFor, SlotsForAll
  <2>7. SlotsAccounted'
    BY <2>6, SlotsAreNext
  <2> QED
    BY <2>4, <2>7 DEF Slots
<1>6. ASSUME NEW r \in Requests, NoGlobalSlot(r) \/ Leave(r)
      PROVE  Slots'
  <2>1. /\ \A s \in Requests \ {r} : req'[s] = req[s]
        /\ req[r].pc \in Holders /\ req'[r].pc \notin Holders
    BY <1>1, <1>6, FinishedIs, OneMoves DEF NoGlobalSlot, Leave, At, Holders, Running
  <2>2. /\ userFree' = [userFree EXCEPT ![owner[r]] = @ + 1] /\ UNCHANGED <<owner, caps>>
        /\ req[r].pc = "slots" => UNCHANGED globalFree
        /\ req[r].pc # "slots" => globalFree' = globalFree + 1
    BY <1>6 DEF NoGlobalSlot, Leave, people, At
  <2>3. owner[r] \in Users /\ userFree' \in [Users -> Nat] /\ globalFree' \in Nat
    BY <2>2 DEF Standings, Slots
  <2>4. /\ Cardinality(WithSlot(owner[r])') = Cardinality(WithSlot(owner[r])) - 1
        /\ \A u : u # owner[r] => WithSlot(u)' = WithSlot(u)
        /\ req[r].pc = "slots" => InThread' = InThread
        /\ req[r].pc # "slots" => Cardinality(InThread') = Cardinality(InThread) - 1
    BY <1>1, <2>1, <2>2, OneLess
  <2>5. \A u \in Users : SlotsFor(u)'
    BY <2>2, <2>3, <2>4, SlotsAre, HoldersFinite DEF Slots, SlotsFor
  <2>6. SlotsForAll'
    BY <2>2, <2>3, <2>4, SlotsAre, HoldersFinite DEF Slots, SlotsForAll
  <2>7. SlotsAccounted'
    BY <2>5, <2>6, SlotsAreNext
  <2> QED
    BY <2>2, <2>3, <2>7 DEF Slots
<1>7. ASSUME NEW r \in Requests,
             Execute(r) \/ ExecuteFails(r) \/ Watch(r) \/ Commit(r) \/ Fetch(r) \/ Renew(r)
      PROVE  Slots'
  <2>1. UNCHANGED <<owner, limiter>> /\ req[r].pc \in Running
    BY <1>7 DEF Execute, ExecuteFails, Watch, Commit, Fetch, Renew, At, people, Running
  <2>2. /\ \A s \in Requests \ {r} : req'[s] = req[s]
        /\ req'[r].pc \in Running
    <3>1. ASSUME NEW q, DOMAIN q = DOMAIN Idle, q.pc \in Running, Becomes(r, q)
          PROVE  /\ \A s \in Requests \ {r} : req'[s] = req[s]
                 /\ req'[r].pc \in Running
      BY <1>1, <3>1, OneMoves
    <3>2. CASE Execute(r) \/ ExecuteFails(r)
      BY <1>1, <3>1, <3>2, GotoMoves DEF Execute, ExecuteFails, Shaped, Idle, Running
    <3>3. CASE Watch(r)
      BY <1>1, <3>3, GotoMoves DEF Watch, Running
    <3>4. CASE Commit(r)
      BY <1>1, <3>4, GotoMoves, RetryIs DEF Commit, Running
    <3>5. CASE Fetch(r)
      BY <1>1, <3>1, <3>5, GotoMoves DEF Fetch, Shaped, Idle, Running
    <3>6. CASE Renew(r)
      BY <1>1, <3>6, GotoMoves, RetryIs DEF Renew, Running
    <3> QED
      BY <1>7, <3>2, <3>3, <3>4, <3>5, <3>6
  <2> QED
    BY <2>1, <2>2, SlotsUntouched DEF Holders, Running, limiter
<1>8. ASSUME NEW r \in Requests, Query(r)
      PROVE  Slots'
  BY <1>2, <1>8 DEF Query, people
<1>9. CASE Expire \/ LocalWrite \/ LocalInvalidate \/ RemoteWrite \/ Lapse \/ ChangeProfile
  BY <1>2, <1>9 DEF Expire, LocalWrite, LocalInvalidate, RemoteWrite, Lapse, ChangeProfile, people
<1>10. CASE UNCHANGED vars
  BY <1>2, <1>10 DEF vars, limiter
<1> QED
  BY <1>3, <1>4, <1>5, <1>6, <1>7, <1>8, <1>9, <1>10 DEF Next, Serve

-----------------------------------------------------------------------------
(* The snapshots' quota.                                                   *)

\* What a user has is finite, and has a size.
LEMMA OfFinite ==
    ASSUME IsFiniteSet(DOMAIN snaps)
    PROVE  \A u : IsFiniteSet(Of(u)) /\ Cardinality(Of(u)) \in Nat
<1>1. \A u : Of(u) \subseteq DOMAIN snaps
  BY DEF Of
<1> QED
  BY <1>1, FS_Subset, FS_CardinalityType

\* Nobody has more than before, and nobody is at a commit who was not.
LEMMA QuotaUntouched ==
    ASSUME Quota, UNCHANGED owner, IsFiniteSet(DOMAIN snaps'), \A u : Of(u)' \subseteq Of(u),
           \A r \in Requests : req'[r].pc = "commit" /\ r \in clean' =>
                              req[r].pc = "commit" /\ r \in clean
    PROVE  Quota'
<1>1. \A u : Cardinality(Of(u)') \in Nat /\ Cardinality(Of(u)') <= Cardinality(Of(u))
  <2>1. ASSUME NEW u
        PROVE  Cardinality(Of(u)') \in Nat /\ Cardinality(Of(u)') <= Cardinality(Of(u))
    <3>1. IsFiniteSet(Of(u)) /\ Of(u)' \subseteq Of(u)
      BY OfFinite DEF Quota
    <3> QED
      BY <3>1, FS_Subset, FS_CardinalityType
  <2> QED
    BY <2>1
<1>2. \A u : Cardinality(Of(u)) \in Nat
  BY OfFinite DEF Quota
<1>3. SnapshotQuotaKept'
  BY <1>1, <1>2, SnapshotsAssumption DEF Quota, SnapshotQuotaKept
<1>4. ASSUME NEW r \in Requests, At(r, "commit")', r \in clean'
      PROVE  Cardinality(Of(owner[r])') < MaxSnapshots
  BY <1>1, <1>2, <1>4, SnapshotsAssumption DEF Quota, At
<1> QED
  BY <1>3, <1>4 DEF Quota

Elsewhere == {"idle", "auth", "next", "slot", "slots", "engine", "watch", "fetch", "renew", "leave",
              "answered"}

\* A commit finds room: the count was below the cap when it was taken, and a
\* writer who has been overtaken since does not commit.
LEMMA QuotaStep ==
    ASSUME Standings, Quota, [Next]_vars
    PROVE  Quota'
<1>1. Shaped
  BY DEF Standings, Shaped
<1>2. ASSUME UNCHANGED <<owner, snaps, clean>>,
             \A r \in Requests : req'[r].pc = "commit" => req[r].pc = "commit"
      PROVE  Quota'
  BY <1>2, QuotaUntouched DEF Quota, Of
<1>3. ASSUME NEW r \in Requests, Watch(r)
      PROVE  Quota'
  <2>1. CASE Cardinality(Of(owner[r])) >= MaxSnapshots
    <3>1. /\ UNCHANGED <<owner, snaps>> /\ clean' = clean \ {r}
          /\ \A s \in Requests \ {r} : req'[s] = req[s]
      BY <1>1, <1>3, <2>1, GotoMoves DEF Watch, people
    <3> QED
      BY <3>1, QuotaUntouched DEF Quota, Of
  <2>2. CASE ~(Cardinality(Of(owner[r])) >= MaxSnapshots)
    <3>1. /\ UNCHANGED <<owner, snaps>> /\ clean' = clean \cup {r}
          /\ \A s \in Requests \ {r} : req'[s] = req[s]
      BY <1>1, <1>3, <2>2, GotoMoves DEF Watch, people
    <3>2. Cardinality(Of(owner[r])) < MaxSnapshots
      BY <2>2, OfFinite, SnapshotsAssumption DEF Quota
    <3> QED
      BY <3>1, <3>2 DEF Quota, SnapshotQuotaKept, Of, At
  <2> QED
    BY <2>1, <2>2
<1>4. ASSUME NEW r \in Requests, Commit(r)
      PROVE  Quota'
  <2>u. PICK u : u = owner[r]
    OBVIOUS
  <2> DEFINE x == <<r, Len(req[r].rest)>>
             entry == [owner |-> u, stamp |-> Stamp(req[r].perms),
                       under |-> [id \in req[r].ran |->
                                    IF id \in DOMAIN req[r].scope THEN req[r].scope[id]
                                                                  ELSE Everything]]
  <2>1. CASE Undisturbed(r)
    <3>1. /\ UNCHANGED owner /\ clean' = clean \ Touched(u)
          /\ snaps' = [y \in DOMAIN snaps \cup {x} |-> IF y = x THEN entry ELSE snaps[y]]
          /\ req[r].pc = "commit" /\ r \in clean
          /\ \A s \in Requests \ {r} : req'[s] = req[s]
      BY <1>1, <1>4, <2>u, <2>1, GotoMoves DEF Commit, people, Undisturbed, At
    <3>2. entry.owner = u
      OBVIOUS
    <3> HIDE DEF x, entry
    <3>3. Of(u)' \subseteq Of(u) \cup {x} /\ \A w : w # u => Of(w)' \subseteq Of(w)
      BY <3>1, <3>2 DEF Of
    <3>4. IsFiniteSet(DOMAIN snaps')
      BY <3>1, FS_AddElement DEF Quota
    <3>5. Cardinality(Of(u)') <= MaxSnapshots
      <4>1. IsFiniteSet(Of(u)) /\ Cardinality(Of(u)) \in Nat /\ Cardinality(Of(u)) < MaxSnapshots
        <5>1. Cardinality(Of(owner[r])) < MaxSnapshots
          BY <3>1 DEF Quota, At
        <5> QED
          BY <2>u, <5>1, OfFinite DEF Quota
      <4>2. /\ IsFiniteSet(Of(u) \cup {x})
            /\ Cardinality(Of(u) \cup {x}) \in Nat
            /\ Cardinality(Of(u) \cup {x}) <= Cardinality(Of(u)) + 1
        <5>1. /\ IsFiniteSet(Of(u) \cup {x})
              /\ \/ Cardinality(Of(u) \cup {x}) = Cardinality(Of(u))
                 \/ Cardinality(Of(u) \cup {x}) = Cardinality(Of(u)) + 1
          BY <4>1, FS_AddElement
        <5> QED
          BY <4>1, <5>1
      <4>3. Cardinality(Of(u)') \in Nat /\ Cardinality(Of(u)') <= Cardinality(Of(u) \cup {x})
        BY <3>3, <4>2, FS_Subset, FS_CardinalityType
      <4> QED
        BY <4>1, <4>2, <4>3, SnapshotsAssumption
    <3>6. \A w : w # u => /\ Cardinality(Of(w)') \in Nat /\ Cardinality(Of(w)) \in Nat
                         /\ Cardinality(Of(w)') <= Cardinality(Of(w))
      <4>1. \A w : IsFiniteSet(Of(w)) /\ Cardinality(Of(w)) \in Nat
        BY OfFinite DEF Quota
      <4> QED
        BY <3>3, <4>1, FS_Subset, FS_CardinalityType
    <3>7. SnapshotQuotaKept'
      <4>1. ASSUME NEW w \in Users PROVE Cardinality(Of(w)') <= MaxSnapshots
        <5>1. w # u => Cardinality(Of(w)) <= MaxSnapshots
          BY DEF Quota, SnapshotQuotaKept
        <5> QED
          BY <3>5, <3>6, <5>1, SnapshotsAssumption
      <4> QED
        BY <4>1 DEF SnapshotQuotaKept
    <3>8. ASSUME NEW s \in Requests, At(s, "commit")', s \in clean'
          PROVE  Cardinality(Of(owner[s])') < MaxSnapshots
      <4>1. owner[s] # u /\ s # r /\ s \in clean /\ At(s, "commit")
        BY <2>u, <3>1, <3>8 DEF Touched, At
      <4>2. PICK w : w = owner[s]
        OBVIOUS
      <4>3. w # u /\ Cardinality(Of(w)) < MaxSnapshots
        BY <4>1, <4>2 DEF Quota
      <4>4. Of(owner[s])' = Of(w)'
        BY <3>1, <4>2 DEF Of
      <4> QED
        BY <3>6, <4>3, <4>4, SnapshotsAssumption
    <3> QED
      BY <3>1, <3>4, <3>7, <3>8 DEF Quota
  <2>2. CASE ~Undisturbed(r)
    <3>1. UNCHANGED <<owner, snaps, clean>>
      BY <1>4, <2>2 DEF Commit, people, store
    <3>2. \A s \in Requests : req'[s].pc = "commit" => req[s].pc = "commit"
      BY <1>1, <1>4, <2>2, RetryIs DEF Commit
    <3> QED
      BY <1>2, <3>1, <3>2
  <2> QED
    BY <2>1, <2>2
<1>5. ASSUME NEW r \in Requests, Fetch(r) \/ Renew(r) \/ Leave(r)
      PROVE  Quota'
  <2>1. UNCHANGED <<owner, snaps>> /\ \A s \in Requests \ {r} : s \in clean' => s \in clean
    BY <1>5 DEF Fetch, Renew, Leave, people
  <2>2. req'[r].pc \in Elsewhere /\ \A s \in Requests \ {r} : req'[s] = req[s]
    <3>1. ASSUME NEW q, DOMAIN q = DOMAIN Idle, q.pc \in Elsewhere, Becomes(r, q)
          PROVE  req'[r].pc \in Elsewhere /\ \A s \in Requests \ {r} : req'[s] = req[s]
      BY <1>1, <3>1, OneMoves
    <3>2. CASE Fetch(r)
      BY <1>1, <3>1, <3>2, GotoMoves DEF Fetch, Shaped, Idle, Elsewhere
    <3>3. CASE Renew(r)
      BY <1>1, <3>3, GotoMoves, RetryIs DEF Renew, Elsewhere
    <3>4. CASE Leave(r)
      BY <1>1, <3>1, <3>4, FinishedIs DEF Leave, Elsewhere
    <3> QED
      BY <1>5, <3>2, <3>3, <3>4
  <2>3. IsFiniteSet(DOMAIN snaps') /\ \A u : Of(u)' \subseteq Of(u)
    BY <2>1 DEF Quota, Of
  <2> QED
    BY <2>1, <2>2, <2>3, QuotaUntouched DEF Elsewhere
<1>6. ASSUME NEW r \in Requests,
             \/ Arrive(r) \/ Authenticate(r) \/ AuthenticateFails(r) \/ Gate(r) \/ PassGate(r)
             \/ NoUserSlot(r) \/ TakeUser(r) \/ TakeGlobal(r) \/ NoGlobalSlot(r) \/ Execute(r)
             \/ ExecuteFails(r)
      PROVE  Quota'
  <2>1. UNCHANGED <<owner, snaps, clean>>
    BY <1>6 DEF Arrive, Authenticate, AuthenticateFails, Gate, PassGate, NoUserSlot, TakeUser,
                TakeGlobal, NoGlobalSlot, Execute, ExecuteFails, people, store
  <2>2. req'[r].pc \in Elsewhere /\ \A s \in Requests \ {r} : req'[s] = req[s]
    <3>1. ASSUME NEW q, DOMAIN q = DOMAIN Idle, q.pc \in Elsewhere, Becomes(r, q)
          PROVE  req'[r].pc \in Elsewhere /\ \A s \in Requests \ {r} : req'[s] = req[s]
      BY <1>1, <3>1, OneMoves
    <3>2. CASE Arrive(r) \/ Authenticate(r) \/ AuthenticateFails(r) \/ PassGate(r)
      BY <1>1, <3>1, <3>2 DEF Arrive, Authenticate, AuthenticateFails, PassGate, Shaped, Idle, Elsewhere
    <3>3. CASE Gate(r) \/ NoUserSlot(r) \/ NoGlobalSlot(r)
      BY <1>1, <3>1, <3>3, FinishedIs DEF Gate, GateWith, NoUserSlot, NoGlobalSlot, Shaped, Idle, Elsewhere
    <3>4. CASE TakeUser(r) \/ ExecuteFails(r)
      BY <1>1, <3>4, GotoMoves DEF TakeUser, ExecuteFails, Elsewhere
    <3>5. CASE TakeGlobal(r)
      <4>1. Call(r) \in CallsOf
        BY <3>5, HeadTailProperties DEF TakeGlobal, At, Standings, Standing, Call
      <4>2. Tools[Call(r).tool] \in Elsewhere
        BY <4>1, CallsAre DEF Tools, Elsewhere
      <4> QED
        BY <1>1, <3>5, <4>2, GotoMoves DEF TakeGlobal
    <3>6. CASE Execute(r)
      BY <1>1, <3>1, <3>6 DEF Execute, Shaped, Idle, Elsewhere
    <3> QED
      BY <1>6, <3>2, <3>3, <3>4, <3>5, <3>6
  <2> QED
    BY <1>2, <2>1, <2>2 DEF Elsewhere
<1>7. CASE Lapse
  <2>1. PICK x \in DOMAIN snaps : /\ snaps' = [y \in DOMAIN snaps \ {x} |-> snaps[y]]
                                /\ clean' = clean \ Touched(snaps[x].owner)
    BY <1>7 DEF Lapse
  <2>2. UNCHANGED <<owner, req>>
    BY <1>7 DEF Lapse, people
  <2>3. IsFiniteSet(DOMAIN snaps')
    BY <2>1, FS_RemoveElement DEF Quota
  <2>4. \A u : Of(u)' \subseteq Of(u)
    BY <2>1 DEF Of
  <2> QED
    BY <2>1, <2>2, <2>3, <2>4, QuotaUntouched
<1>8. ASSUME NEW r \in Requests, Query(r)
      PROVE  Quota'
  BY <1>2, <1>8 DEF Query, people, store
<1>9. CASE Expire \/ LocalWrite \/ LocalInvalidate \/ RemoteWrite \/ ChangeProfile
  BY <1>2, <1>9 DEF Expire, LocalWrite, LocalInvalidate, RemoteWrite, ChangeProfile, people, store
<1>10. CASE UNCHANGED vars
  BY <1>2, <1>10 DEF vars
<1> QED
  BY <1>3, <1>4, <1>5, <1>6, <1>7, <1>8, <1>9, <1>10 DEF Next, Serve

-----------------------------------------------------------------------------
(* The grants.                                                             *)

\* Every version is made of the known rows, which NamesAssumption describes.
LEMMA RowsAre ==
    /\ Unambiguous(Known)
    /\ \A v \in Versions \cup {NoRegistry} : RowsOf(v) \subseteq Known
BY NamesAssumption DEF Unambiguous, RowsOf, Known

\* The id of a scenario names that scenario.
LEMMA IdsName ==
    ASSUME NEW s \in Known
    PROVE  Resolve(Known, s.id) = Real(s)
<1>1. /\ Unmistakable(s.id)
      /\ \A t \in Known : s.id \in Spellings(t) => t = s
  BY NamesAssumption DEF Spellings
<1>2. FindReal(Known, s.id) = Real(s)
  BY <1>1 DEF FindReal, Spellings
<1>3. s.id # <<>> /\ Canonical(s.id) = s.id
  BY <1>1 DEF Unmistakable, ValidAlias, Canonical
<1>4. FindSimple(Known, s.id) = Real(s)
  BY <1>2, <1>3, References DEF FindSimple
<1> QED
  BY <1>4, References DEF Resolve

\* What the gate asks for and what the engine runs are the same scenarios,
\* though each looks the key up in a registry of its own moment, provided the
\* gate was asked for scenarios that exist at all.
LEMMA KeysAgree ==
    ASSUME NEW v \in Versions \cup {NoRegistry}, NEW w \in Versions, NEW k \in Keys,
           Asked[v][k] \subseteq {s.id : s \in Known}
    PROVE  Resolved[w][k] \subseteq Asked[v][k]
<1> DEFINE there == Resolve(RowsOf(v), k)
           here == Resolve(RowsOf(w), k)
           all == Resolve(Known, k)
<1>1. Resolved[w][k] = IF here = Unknown THEN {} ELSE Dependencies(here)
  BY DEF Resolved
<1>2. Asked[v][k] = IF there = Unknown THEN {k} ELSE Dependencies(there)
  BY DEF Asked, Involved
<1>3. k \in Seq(STRING)
  BY CallsAre
<1>4. here # Unknown => all = here
  BY <1>3, RowsAre, KeysKeepMeaning
<1>5. there # Unknown => all = there
  BY <1>3, RowsAre, KeysKeepMeaning
<1>6. there = Unknown => Dependencies(all) = {k}
  <2>1. SUFFICES ASSUME there = Unknown PROVE Dependencies(all) = {k}
    OBVIOUS
  <2>2. PICK s \in Known : s.id = k
    BY <1>2, <2>1
  <2>3. all = Real(s)
    BY <2>2, IdsName
  <2> QED
    BY <2>2, <2>3 DEF Dependencies, Compares, Real
<1> HIDE DEF there, here, all
<1> QED
  BY <1>1, <1>2, <1>4, <1>5, <1>6

\* Nothing is readable but what is known.
LEMMA GrantsAre ==
    /\ \A p \in Grants : Readable(p) \subseteq {s.id : s \in Known}
    /\ <<>> \in Grants
    /\ \A p \in Profiles \cup {FirstProfile}, v \in Versions : Granted[p][v] \in Grants
<1>1. \A p \in Profiles \cup {FirstProfile}, v \in Versions :
         Granted[p][v] = Permissions(p, RowsOf(v))
  BY DEF Granted
<1>2. \A p, reg : DOMAIN Permissions(p, reg) \subseteq {s.id : s \in reg}
  BY DEF Permissions
<1>3. ASSUME NEW p \in Profiles \cup {FirstProfile}, NEW v \in Versions
      PROVE  Readable(Granted[p][v]) \subseteq {s.id : s \in Known}
  <2>1. DOMAIN Granted[p][v] \subseteq {s.id : s \in RowsOf(v)}
    BY <1>1, <1>2
  <2>2. {s.id : s \in RowsOf(v)} \subseteq {s.id : s \in Known}
    BY RowsAre
  <2> QED
    BY <2>1, <2>2 DEF Readable
<1>4. Readable(<<>>) = {}
  <2>1. DOMAIN <<>> = {}
    OBVIOUS
  <2> QED
    BY <2>1, Zenon DEF Readable
<1>5. ASSUME NEW g \in Grants PROVE Readable(g) \subseteq {s.id : s \in Known}
  <2>1. g = <<>> \/ \E p \in Profiles \cup {FirstProfile}, v \in Versions : g = Granted[p][v]
    BY DEF Grants
  <2> QED
    BY <1>3, <1>4, <2>1
<1>6. ASSUME NEW p \in Profiles \cup {FirstProfile}, NEW v \in Versions
      PROVE  Granted[p][v] \in Grants
  BY DEF Grants
<1> QED
  BY <1>5, <1>6 DEF Grants

-----------------------------------------------------------------------------
(* The standings.                                                          *)

LEMMA NothingScoped == DOMAIN NoScope = {}
BY DEF NoScope

\* A request that waits for nothing and holds nothing.
LEMMA QuietStands ==
    ASSUME NEW q, q.pc \in {"idle", "auth", "next", "answered"},
           q.rest \in Seq(CallsOf), q.pc \in {"auth", "next"} => q.rest # <<>>,
           q.profile \in Assignable, q.pc = "auth" => q.profile # <<>>,
           q.perms \in Grants,
           q.gated = {}, q.ran = {}, q.scope = NoScope, q.served = NoScope
    PROVE  Standing(q)
BY NothingScoped DEF Standing, ScopeFits

\* A call is over, and the next one starts from nothing.
LEMMA FinishedStands ==
    ASSUME Standings, NEW r \in Requests, req[r].pc \notin {"idle", "answered"}
    PROVE  Standing(Finished(r)) /\ DOMAIN Finished(r) = DOMAIN Idle
<1>1. Shaped /\ Standing(req[r])
  BY DEF Standings, Shaped
<1>2. Tail(req[r].rest) \in Seq(CallsOf)
  BY <1>1, HeadTailProperties DEF Standing
<1>3. req[r].profile \in Assignable /\ req[r].perms \in Grants
  BY <1>1 DEF Standing
<1> DEFINE q == Finished(r)
<1>4. /\ DOMAIN q = DOMAIN Idle /\ q.pc \in {"next", "answered"}
      /\ q.rest \in Seq(CallsOf) /\ (q.pc = "next" => q.rest # <<>>)
      /\ q.profile \in Assignable /\ q.perms \in Grants
      /\ q.gated = {} /\ q.ran = {} /\ q.scope = NoScope /\ q.served = NoScope
  BY <1>1, <1>2, <1>3, FinishedIs
<1> HIDE DEF q
<1>5. Standing(q)
  BY <1>4, QuietStands
<1> QED
  BY <1>4, <1>5 DEF q

\* A request that goes on from one place to another keeps what it was granted.
LEMMA OnwardStands ==
    ASSUME NEW p, NEW q, Standing(p),
           p.pc \notin {"idle", "auth", "next", "answered"},
           \/ p.pc = "slot" /\ q.pc = "slots"
           \/ p.pc = "slots" /\ q.pc = "engine" /\ Head(p.rest).tool = "run"
           \/ q.pc \in {"watch", "commit", "fetch", "leave"},
           q.rest = p.rest, q.profile = p.profile, q.perms = p.perms,
           q.gated = p.gated, q.ran = p.ran, q.scope = p.scope,
           q.served \in {p.served, NoScope}
    PROVE  Standing(q)
<1>1. \A id \in DOMAIN q.served :
         id \in Readable(q.perms) /\ q.perms[id]["read"] = q.served[id]
  BY NothingScoped DEF Standing
<1>2. ScopeFits(q)
  BY DEF Standing, ScopeFits
<1> QED
  BY <1>1, <1>2 DEF Standing

\* One request has moved, and it stands.
LEMMA StandingsMove ==
    ASSUME Standings, UNCHANGED <<people, snaps>>, NEW r \in Requests,
           Shaped', \A s \in Requests \ {r} : req'[s] = req[s], Standing(req'[r])
    PROVE  Standings'
<1>1. \A s \in Requests : Standing(req'[s])
  BY DEF Standings
<1>2. \A s \in Requests : Standing(req[s])'
  BY <1>1 DEF Standing, ScopeFits
<1> QED
  BY <1>2 DEF Standings, Shaped, people

Stands(r) == Shaped' /\ (\A s \in Requests \ {r} : req'[s] = req[s]) /\ Standing(req'[r])

LEMMA BecomesStands ==
    ASSUME Shaped, NEW r \in Requests, NEW q, DOMAIN q = DOMAIN Idle, Standing(q), Becomes(r, q)
    PROVE  Stands(r)
BY OneMoves DEF Stands

\* A place further on, with nothing else changed.
LEMMA GotoStands ==
    ASSUME Standings, NEW r \in Requests, NEW pc, Goto(r, pc),
           req[r].pc \notin {"idle", "auth", "next", "answered"},
           \/ req[r].pc = "slot" /\ pc = "slots"
           \/ req[r].pc = "slots" /\ pc = "engine" /\ Call(r).tool = "run"
           \/ pc \in {"watch", "commit", "fetch", "leave"}
    PROVE  Stands(r)
<1> DEFINE p == req[r]
           q == [req[r] EXCEPT !.pc = pc]
<1>1. Shaped /\ Standing(p)
  BY DEF Standings, Shaped
<1>2. /\ q.pc = pc /\ q.rest = p.rest /\ q.profile = p.profile /\ q.perms = p.perms
      /\ q.gated = p.gated /\ q.ran = p.ran /\ q.scope = p.scope /\ q.served = p.served
  BY <1>1 DEF Shaped, Idle
<1>3. Shaped' /\ req'[r] = q /\ \A s \in Requests \ {r} : req'[s] = req[s]
  BY <1>1, GotoMoves
<1>4. \/ p.pc = "slot" /\ q.pc = "slots"
      \/ p.pc = "slots" /\ q.pc = "engine" /\ Head(p.rest).tool = "run"
      \/ q.pc \in {"watch", "commit", "fetch", "leave"}
  BY <1>2 DEF Call
<1> HIDE DEF p, q
<1>5. Standing(q)
  BY <1>1, <1>2, <1>4, OnwardStands DEF p
<1> QED
  BY <1>3, <1>5 DEF Stands

LEMMA RetryStands ==
    ASSUME Standings, NEW r \in Requests, NEW pc, Retry(r, pc),
           req[r].pc \notin {"idle", "auth", "next", "answered"}, pc \in {"watch", "fetch"}
    PROVE  Stands(r)
<1> DEFINE p == req[r]
           q == req'[r]
<1>1. Shaped /\ Standing(p)
  BY DEF Standings, Shaped
<1>2. /\ Shaped' /\ \A s \in Requests \ {r} : req'[s] = req[s]
      /\ q.pc \in {"leave", pc} /\ q.served = NoScope
      /\ \A f \in {"rest", "profile", "perms", "gated", "scope", "ran"} : q[f] = p[f]
  BY <1>1, RetryIs
<1>3. /\ q.rest = p.rest /\ q.profile = p.profile /\ q.perms = p.perms
      /\ q.gated = p.gated /\ q.ran = p.ran /\ q.scope = p.scope
  BY <1>2
<1> HIDE DEF p, q
<1>4. Standing(q)
  BY <1>1, <1>2, <1>3, OnwardStands DEF p
<1> QED
  BY <1>2, <1>4 DEF Stands, q

\* The gate admits exactly what the caller may read, under the scopes the
\* caller has there, or the call is over.
LEMMA GateStands ==
    ASSUME Standings, NEW r \in Requests, req[r].pc = "next", Call(r).tool = "run",
           NEW v \in Versions \cup {NoRegistry}, GateWith(r, v)
    PROVE  Stands(r)
<1> DEFINE ids == Asked[v][KeyOfCall(Call(r))]
           scopes == ReadScopes(req[r].perms, ids)
           q == [req[r] EXCEPT !.pc = "slot", !.gated = ids,
                               !.scope = IF \E id \in ids : scopes[id] # Everything
                                         THEN scopes ELSE Cleared(@)]
<1>1. Shaped /\ Standing(req[r])
  BY DEF Standings, Shaped
<1>2. CASE ~(ids \subseteq Readable(req[r].perms))
  BY <1>1, <1>2, FinishedStands, BecomesStands DEF GateWith
<1>3. CASE ids \subseteq Readable(req[r].perms)
  <2>1. Becomes(r, q) /\ DOMAIN q = DOMAIN Idle
    BY <1>1, <1>3 DEF GateWith, Shaped
  <2>2. /\ q.pc = "slot" /\ q.rest = req[r].rest /\ q.profile = req[r].profile
        /\ q.perms = req[r].perms /\ q.gated = ids /\ q.ran = req[r].ran
        /\ q.served = req[r].served
        /\ q.scope = IF \E id \in ids : scopes[id] # Everything THEN scopes ELSE NoScope
    BY <1>1 DEF Shaped, Idle, Cleared
  <2>3. ScopeFits(q)
    <3>1. \A id \in ids : scopes[id] = req[r].perms[id]["read"]
      BY DEF ReadScopes
    <3> HIDE DEF q, ids, scopes
    <3> QED
      BY <2>2, <3>1 DEF ScopeFits, scopes
  <2>4. q.ran = {} /\ q.served = NoScope
    BY <1>1, <2>2 DEF Standing
  <2>5. q.gated = Asked[v][KeyOfCall(Head(q.rest))]
    BY <2>2 DEF Call
  <2> HIDE DEF q
  <2>6. Standing(q)
    BY <1>1, <1>3, <2>2, <2>3, <2>4, <2>5, NothingScoped DEF Standing
  <2> QED
    BY <1>1, <2>1, <2>6, BecomesStands
<1> QED
  BY <1>2, <1>3

\* The engine runs what the gate of this call has admitted.
LEMMA ExecuteStands ==
    ASSUME Standings, RegistryOrder, NEW r \in Requests, Execute(r)
    PROVE  Stands(r)
<1>1. PICK v : /\ Obtains(r, v)
               /\ LET ids == Resolved[v][KeyOfCall(Call(r))]
                  IN Becomes(r, [req[r] EXCEPT !.pc = IF ids = {} THEN "leave" ELSE "watch",
                                               !.ran = ids])
  BY DEF Execute
<1>2. v \in Versions
  BY <1>1, ObtainsInOrder
<1> DEFINE p == req[r]
           k == KeyOfCall(Call(r))
           ids == Resolved[v][k]
           q == [req[r] EXCEPT !.pc = IF ids = {} THEN "leave" ELSE "watch", !.ran = ids]
<1>3. Shaped /\ Standing(p) /\ p.pc = "engine"
  BY DEF Standings, Shaped, Execute, At
<1>4. p.rest # <<>> /\ p.rest \in Seq(CallsOf) /\ Call(r) = Head(p.rest) /\ Call(r).tool = "run"
  BY <1>3 DEF Standing, Call
<1>5. k \in Keys
  BY <1>4, HeadTailProperties, CallsAre
<1>6. PICK w \in Versions \cup {NoRegistry} : p.gated = Asked[w][k]
  BY <1>3, <1>4 DEF Standing
<1>7. p.gated \subseteq {s.id : s \in Known}
  BY <1>3, GrantsAre DEF Standing
<1>8. ids \subseteq p.gated
  BY <1>2, <1>5, <1>6, <1>7, KeysAgree
<1>9. Becomes(r, q) /\ DOMAIN q = DOMAIN Idle
  BY <1>1, <1>3 DEF Shaped
<1>10. /\ q.pc \in {"leave", "watch"} /\ q.rest = p.rest /\ q.profile = p.profile
       /\ q.perms = p.perms /\ q.gated = p.gated /\ q.ran = ids /\ q.scope = p.scope
       /\ q.served = p.served
  BY <1>3 DEF Shaped, Idle
<1> HIDE DEF p, q, ids, k
<1>11. Standing(q)
  BY <1>3, <1>4, <1>8, <1>10 DEF Standing, ScopeFits
<1> QED
  BY <1>3, <1>9, <1>11, BecomesStands

\* A chart is served what was kept under the very grants of its request.
LEMMA FetchStands ==
    ASSUME Standings, NEW r \in Requests, Fetch(r)
    PROVE  Stands(r)
<1> DEFINE p == req[r]
<1>1. Shaped /\ Standing(p) /\ p.pc = "fetch"
  BY DEF Standings, Shaped, Fetch, At
<1>2. ASSUME Goto(r, "leave") PROVE Stands(r)
  BY <1>1, <1>2, GotoStands
<1>3. ASSUME NEW x \in DOMAIN snaps, MayFetch(r, x),
             Becomes(r, [req[r] EXCEPT !.pc = "renew", !.served = snaps[x].under])
      PROVE  Stands(r)
  <2> DEFINE q == [req[r] EXCEPT !.pc = "renew", !.served = snaps[x].under]
             under == snaps[x].under
  <2>1. /\ q.pc = "renew" /\ q.rest = p.rest /\ q.profile = p.profile /\ q.perms = p.perms
        /\ q.gated = p.gated /\ q.ran = p.ran /\ q.scope = p.scope /\ q.served = under
        /\ DOMAIN q = DOMAIN Idle
    BY <1>1 DEF Shaped, Idle
  <2>2. snaps[x].stamp = Stamp(p.perms) /\ Stamped(snaps[x])
    BY <1>3 DEF MayFetch, Standings
  <2>3. ASSUME NEW id \in DOMAIN under
        PROVE  id \in Readable(p.perms) /\ p.perms[id]["read"] = under[id]
    <3>1. id \in DOMAIN snaps[x].stamp /\ under[id] = snaps[x].stamp[id]
      BY <2>2 DEF Stamped
    <3>2. Stamp(p.perms) = [i \in Readable(p.perms) |-> p.perms[i]["read"]]
      BY DEF Stamp, ReadScopes
    <3> QED
      BY <2>2, <3>1, <3>2
  <2>4. Becomes(r, q)
    BY <1>3
  <2> HIDE DEF p, q, under
  <2>5. Standing(q)
    BY <1>1, <2>1, <2>3 DEF Standing, ScopeFits
  <2> QED
    BY <1>1, <2>1, <2>4, <2>5, BecomesStands
<1> QED
  BY <1>2, <1>3 DEF Fetch

\* A call without a scenario has nothing to ask for.
LEMMA PassGateStands ==
    ASSUME Standings, NEW r \in Requests, PassGate(r)
    PROVE  Stands(r)
<1> DEFINE p == req[r]
           q == [req[r] EXCEPT !.pc = "slot", !.scope = Cleared(@)]
<1>1. Shaped /\ Standing(p) /\ p.pc = "next" /\ Head(p.rest).tool # "run"
  BY DEF Standings, Shaped, PassGate, AtGate, Call
<1>2. /\ q.pc = "slot" /\ q.rest = p.rest /\ q.profile = p.profile /\ q.perms = p.perms
      /\ q.gated = p.gated /\ q.ran = p.ran /\ q.scope = NoScope /\ q.served = p.served
      /\ DOMAIN q = DOMAIN Idle
  BY <1>1 DEF Shaped, Idle, Cleared
<1>3. Becomes(r, q)
  BY DEF PassGate
<1> HIDE DEF p, q
<1>4. Standing(q)
  BY <1>1, <1>2 DEF Standing, ScopeFits
<1> QED
  BY <1>1, <1>2, <1>3, <1>4, BecomesStands

\* Who arrives is given a profile, or none; who is authenticated, its grants.
LEMMA AuthenticationStands ==
    ASSUME Standings, RegistryOrder, NEW r \in Requests,
           Arrive(r) \/ Authenticate(r) \/ AuthenticateFails(r)
    PROVE  Stands(r)
<1> DEFINE p == req[r]
<1>1. Shaped /\ Standing(p)
  BY DEF Standings, Shaped
<1>2. CASE Arrive(r)
  <2>1. PICK b \in Batches :
           LET a == profile[owner[r]]
           IN Becomes(r, [req[r] EXCEPT !.pc = IF a = <<>> THEN "next" ELSE "auth",
                                        !.rest = b, !.profile = a])
    BY <1>2 DEF Arrive
  <2> DEFINE a == profile[owner[r]]
             q == [req[r] EXCEPT !.pc = IF a = <<>> THEN "next" ELSE "auth",
                                 !.rest = b, !.profile = a]
  <2>2. p.pc = "idle" /\ a \in Assignable
    BY <1>2 DEF Arrive, At, Standings
  <2>3. /\ q.pc = (IF a = <<>> THEN "next" ELSE "auth") /\ q.rest = b /\ q.profile = a
        /\ q.perms = p.perms /\ q.gated = p.gated /\ q.ran = p.ran /\ q.scope = p.scope
        /\ q.served = p.served /\ DOMAIN q = DOMAIN Idle
    BY <1>1 DEF Shaped, Idle
  <2>4. b \in Seq(CallsOf) /\ b # <<>>
    BY CallsAre
  <2>5. Becomes(r, q)
    BY <2>1
  <2> HIDE DEF p, q, a
  <2>6. Standing(q)
    BY <1>1, <2>2, <2>3, <2>4 DEF Standing, ScopeFits
  <2> QED
    BY <1>1, <2>3, <2>5, <2>6, BecomesStands
<1>3. CASE Authenticate(r)
  <2>1. PICK v \in Versions :
           /\ Obtains(r, v)
           /\ Becomes(r, [req[r] EXCEPT !.pc = "next", !.perms = Granted[req[r].profile][v]])
    BY <1>3 DEF Authenticate
  <2> DEFINE q == [req[r] EXCEPT !.pc = "next", !.perms = Granted[req[r].profile][v]]
  <2>2. p.pc = "auth" /\ p.profile \in Profiles \cup {FirstProfile}
    BY <1>1, <1>3 DEF Authenticate, At, Standing, Assignable
  <2>3. /\ q.pc = "next" /\ q.rest = p.rest /\ q.profile = p.profile
        /\ q.perms = Granted[p.profile][v] /\ q.gated = p.gated /\ q.ran = p.ran
        /\ q.scope = p.scope /\ q.served = p.served /\ DOMAIN q = DOMAIN Idle
    BY <1>1 DEF Shaped, Idle
  <2>4. q.perms \in Grants
    BY <2>2, <2>3, GrantsAre
  <2>5. Becomes(r, q)
    BY <2>1
  <2> HIDE DEF p, q
  <2>6. /\ q.rest \in Seq(CallsOf) /\ q.rest # <<>> /\ q.profile \in Assignable
        /\ q.gated = {} /\ q.ran = {} /\ q.scope = NoScope /\ q.served = NoScope
    BY <1>1, <2>2, <2>3 DEF Standing
  <2>7. Standing(q)
    BY <2>3, <2>4, <2>6, QuietStands
  <2> QED
    BY <1>1, <2>3, <2>5, <2>7, BecomesStands
<1>4. CASE AuthenticateFails(r)
  <2> DEFINE q == [req[r] EXCEPT !.pc = "answered", !.rest = <<>>]
  <2>1. p.pc = "auth" /\ Becomes(r, q)
    BY <1>4 DEF AuthenticateFails, At
  <2>2. /\ q.pc = "answered" /\ q.rest = <<>> /\ q.profile = p.profile
        /\ q.perms = p.perms /\ q.gated = p.gated /\ q.ran = p.ran
        /\ q.scope = p.scope /\ q.served = p.served /\ DOMAIN q = DOMAIN Idle
    BY <1>1 DEF Shaped, Idle
  <2> HIDE DEF p, q
  <2>3. /\ q.profile \in Assignable /\ q.perms \in Grants
        /\ q.gated = {} /\ q.ran = {} /\ q.scope = NoScope /\ q.served = NoScope
    BY <1>1, <2>1, <2>2 DEF Standing
  <2>4. q.rest \in Seq(CallsOf)
    BY <2>2, EmptySeq, Zenon
  <2>5. q.pc \in {"idle", "auth", "next", "answered"} /\ q.pc \notin {"auth", "next"}
    BY <2>2
  <2>6. Standing(q)
    BY <2>3, <2>4, <2>5, QuietStands
  <2> QED
    BY <1>1, <2>1, <2>2, <2>6, BecomesStands
<1> QED
  BY <1>2, <1>3, <1>4

\* What a request was granted, what it ran and what it was served agree
\* wherever it stands.
LEMMA StandingsStep ==
    ASSUME Standings, RegistryOrder, [Next]_vars
    PROVE  Standings'
<1>1. Shaped
  BY DEF Standings, Shaped
<1>2. ASSUME UNCHANGED <<people, req, snaps>> PROVE Standings'
  BY <1>2 DEF Standings, people, Standing, ScopeFits
<1>3. ASSUME NEW r \in Requests, UNCHANGED <<people, snaps>>, Stands(r)
      PROVE  Standings'
  BY <1>3, StandingsMove DEF Stands
<1>4. ASSUME NEW r \in Requests, Arrive(r) \/ Authenticate(r) \/ AuthenticateFails(r)
      PROVE  Standings'
  <2>1. UNCHANGED <<people, snaps>>
    BY <1>4 DEF Arrive, Authenticate, AuthenticateFails, people, store
  <2> QED
    BY <1>3, <1>4, <2>1, AuthenticationStands
<1>5. ASSUME NEW r \in Requests, Gate(r) \/ PassGate(r)
      PROVE  Standings'
  <2>1. UNCHANGED <<people, snaps>>
    BY <1>5 DEF Gate, PassGate, people, store
  <2>2. CASE Gate(r)
    <3>1. PICK v \in Versions \cup {NoRegistry} : GateWith(r, v)
      BY <2>2 DEF Gate
    <3> QED
      BY <1>3, <2>1, <2>2, <3>1, GateStands DEF Gate, AtGate
  <2> QED
    BY <1>3, <1>5, <2>1, <2>2, PassGateStands
<1>6. ASSUME NEW r \in Requests, NoUserSlot(r) \/ NoGlobalSlot(r) \/ Leave(r)
      PROVE  Standings'
  <2>1. UNCHANGED <<people, snaps>> /\ Becomes(r, Finished(r))
    BY <1>6 DEF NoUserSlot, NoGlobalSlot, Leave, people, store
  <2>2. req[r].pc \notin {"idle", "answered"}
    BY <1>6 DEF NoUserSlot, NoGlobalSlot, Leave, At
  <2> QED
    BY <1>1, <1>3, <2>1, <2>2, FinishedStands, BecomesStands
<1>7. ASSUME NEW r \in Requests, TakeUser(r) \/ TakeGlobal(r)
      PROVE  Standings'
  <2>1. UNCHANGED <<people, snaps>>
    BY <1>7 DEF TakeUser, TakeGlobal, people, store
  <2>2. CASE TakeUser(r)
    BY <1>3, <2>1, <2>2, GotoStands DEF TakeUser, At
  <2>3. CASE TakeGlobal(r)
    <3>1. req[r].pc = "slots" /\ Call(r) \in CallsOf
      BY <2>3, HeadTailProperties DEF TakeGlobal, At, Standings, Standing, Call
    <3>2. \/ Call(r).tool = "run" /\ Tools[Call(r).tool] = "engine"
          \/ Tools[Call(r).tool] \in {"fetch", "leave"}
      BY <3>1, CallsAre DEF Tools
    <3>3. Goto(r, Tools[Call(r).tool])
      BY <2>3 DEF TakeGlobal
    <3> QED
      BY <1>3, <2>1, <3>1, <3>2, <3>3, GotoStands
  <2> QED
    BY <1>7, <2>2, <2>3
<1>8. ASSUME NEW r \in Requests, Execute(r) \/ ExecuteFails(r)
      PROVE  Standings'
  <2>1. UNCHANGED <<people, snaps>>
    BY <1>8 DEF Execute, ExecuteFails, people, store
  <2>2. CASE ExecuteFails(r)
    BY <1>3, <2>1, <2>2, GotoStands DEF ExecuteFails, At
  <2> QED
    BY <1>3, <1>8, <2>1, <2>2, ExecuteStands
<1>9. ASSUME NEW r \in Requests, Watch(r) \/ Renew(r)
      PROVE  Standings'
  <2>1. UNCHANGED <<people, snaps>>
    BY <1>9 DEF Watch, Renew, people
  <2>2. CASE Watch(r)
    BY <1>3, <2>1, <2>2, GotoStands DEF Watch, At
  <2>3. CASE Renew(r)
    BY <1>3, <2>1, <2>3, GotoStands, RetryStands DEF Renew, At
  <2> QED
    BY <1>9, <2>2, <2>3
<1>10. ASSUME NEW r \in Requests, Commit(r)
       PROVE  Standings'
  <2>1. CASE Undisturbed(r)
    <3> DEFINE p == req[r]
               x == <<r, Len(req[r].rest)>>
               entry == [owner |-> owner[r], stamp |-> Stamp(req[r].perms),
                         under |-> [id \in req[r].ran |->
                                      IF id \in DOMAIN req[r].scope THEN req[r].scope[id]
                                                                    ELSE Everything]]
    <3>1. /\ UNCHANGED people /\ Goto(r, "leave") /\ p.pc = "commit"
          /\ snaps' = [y \in DOMAIN snaps \cup {x} |-> IF y = x THEN entry ELSE snaps[y]]
      BY <1>10, <2>1 DEF Commit, At
    <3>2. Stands(r)
      BY <3>1, GotoStands
    <3>3. Stamped(entry)
      <4>1. p.ran \subseteq p.gated /\ p.gated \subseteq Readable(p.perms) /\ ScopeFits(p)
        BY DEF Standings, Standing
      <4>2. /\ DOMAIN entry.stamp = Readable(p.perms)
            /\ \A id \in Readable(p.perms) : entry.stamp[id] = p.perms[id]["read"]
        BY DEF Stamp, ReadScopes
      <4>3. /\ DOMAIN entry.under = p.ran
            /\ \A id \in p.ran : entry.under[id] = IF id \in DOMAIN p.scope THEN p.scope[id]
                                                                        ELSE Everything
        OBVIOUS
      <4>4. \A id \in p.ran : entry.under[id] = p.perms[id]["read"]
        <5>1. CASE p.scope = ReadScopes(p.perms, p.gated)
          BY <4>1, <4>3, <5>1 DEF ReadScopes
        <5>2. CASE p.scope = NoScope /\ \A id \in p.gated : p.perms[id]["read"] = Everything
          BY <4>1, <4>3, <5>2, NothingScoped
        <5> QED
          BY <4>1, <5>1, <5>2 DEF ScopeFits
      <4> HIDE DEF p, entry
      <4> QED
        BY <4>1, <4>2, <4>3, <4>4 DEF Stamped
    <3> HIDE DEF p, x, entry
    <3>4. \A y \in DOMAIN snaps' : Stamped(snaps'[y])
      BY <3>1, <3>3 DEF Standings
    <3>5. \A s \in Requests : Standing(req'[s])
      BY <3>2 DEF Stands, Standings
    <3>6. \A s \in Requests : Standing(req[s])'
      BY <3>5 DEF Standing, ScopeFits
    <3> QED
      BY <3>1, <3>2, <3>4, <3>6 DEF Stands, Standings, Shaped, people
  <2>2. CASE ~Undisturbed(r)
    <3>1. UNCHANGED <<people, snaps>> /\ Retry(r, "watch") /\ req[r].pc = "commit"
      BY <1>10, <2>2 DEF Commit, people, store, At
    <3> QED
      BY <1>3, <3>1, RetryStands
  <2> QED
    BY <2>1, <2>2
<1>11. ASSUME NEW r \in Requests, Fetch(r)
       PROVE  Standings'
  <2>1. UNCHANGED <<people, snaps>>
    BY <1>11 DEF Fetch, people
  <2> QED
    BY <1>3, <1>11, <2>1, FetchStands
<1>12. ASSUME NEW r \in Requests, Query(r)
       PROVE  Standings'
  BY <1>2, <1>12 DEF Query, people, store
<1>13. CASE Expire \/ LocalWrite \/ LocalInvalidate \/ RemoteWrite
  BY <1>2, <1>13 DEF Expire, LocalWrite, LocalInvalidate, RemoteWrite, people, store
<1>14. CASE Lapse
  <2>1. PICK x \in DOMAIN snaps : snaps' = [y \in DOMAIN snaps \ {x} |-> snaps[y]]
    BY <1>14 DEF Lapse
  <2>2. UNCHANGED <<people, req>>
    BY <1>14 DEF Lapse
  <2>3. \A y \in DOMAIN snaps' : Stamped(snaps'[y])
    BY <2>1 DEF Standings
  <2>4. \A s \in Requests : Standing(req[s])'
    BY <2>2 DEF Standings, Standing, ScopeFits
  <2> QED
    BY <2>2, <2>3, <2>4 DEF Standings, people
<1>15. CASE ChangeProfile
  <2>1. UNCHANGED <<owner, req, snaps>>
    BY <1>15 DEF ChangeProfile, store
  <2>2. profile' \in [Users -> Assignable]
    BY <1>15 DEF ChangeProfile, Standings, Assignable
  <2>3. \A s \in Requests : Standing(req[s])'
    BY <2>1 DEF Standings, Standing, ScopeFits
  <2> QED
    BY <2>1, <2>2, <2>3 DEF Standings
<1>16. CASE UNCHANGED vars
  BY <1>2, <1>16 DEF vars, people
<1> QED
  BY <1>4, <1>5, <1>6, <1>7, <1>8, <1>9, <1>10, <1>11, <1>12, <1>13, <1>14, <1>15, <1>16
     DEF Next, Serve

-----------------------------------------------------------------------------
(* The promises.                                                           *)

LEMMA InitInv == Init => Inv
<1> SUFFICES ASSUME Init PROVE Inv
  OBVIOUS
<1>1. RegistryOrder
  BY RegistriesAssumption DEF Init, RegistryOrder
<1>2. PICK s \in Settings : owner = s.owner /\ caps = s.caps
  BY DEF Init
<1>3. owner \in [Requests -> Users] /\ caps \in [user : Nat, global : Nat]
  BY <1>2, SettingsAssumption
<1>4. req = [r \in Requests |-> Idle] /\ DOMAIN snaps = {}
  BY DEF Init
<1>5. Standing(Idle)
  <2>1. <<>> \in Seq(CallsOf)
    BY EmptySeq, Zenon
  <2>2. /\ Idle.pc \in {"idle", "auth", "next", "answered"} /\ Idle.pc \notin {"auth", "next"}
        /\ Idle.rest = <<>> /\ Idle.profile = <<>> /\ Idle.perms = <<>>
        /\ Idle.gated = {} /\ Idle.ran = {} /\ Idle.scope = NoScope /\ Idle.served = NoScope
    BY DEF Idle
  <2>3. Idle.profile \in Assignable /\ Idle.perms \in Grants
    BY <2>2, GrantsAre DEF Assignable
  <2>4. PICK q : q = Idle
    OBVIOUS
  <2>5. /\ q.pc \in {"idle", "auth", "next", "answered"} /\ q.pc \notin {"auth", "next"}
        /\ q.rest \in Seq(CallsOf) /\ q.profile \in Assignable /\ q.perms \in Grants
        /\ q.gated = {} /\ q.ran = {} /\ q.scope = NoScope /\ q.served = NoScope
    BY <2>1, <2>2, <2>3, <2>4
  <2>6. Standing(q)
    BY <2>5, QuietStands
  <2> QED
    BY <2>4, <2>6
<1>6. Standings
  BY <1>3, <1>4, <1>5 DEF Init, Standings, Assignable
<1>7. \A r \in Requests : req[r].pc = "idle"
  BY <1>4 DEF Idle
<1>8. userFree = [u \in Users |-> caps.user] /\ globalFree = caps.global
  BY DEF Init
<1>9. IsFiniteSet({}) /\ Cardinality({}) = 0
  BY FS_EmptySet
<1>10. Slots
  <2>1. \A r \in Requests : req[r].pc \notin Holders /\ req[r].pc \notin Running
    BY <1>7 DEF Holders, Running
  <2>2. InThread = {} /\ \A u : WithSlot(u) = {}
    BY <2>1 DEF InThread, WithSlot
  <2>3. (\A u \in Users : SlotsFor(u)) /\ SlotsForAll
    BY <1>3, <1>8, <1>9, <2>2 DEF SlotsFor, SlotsForAll
  <2> QED
    BY <1>3, <1>8, <2>3, SlotsAre DEF Slots
<1>11. Quota
  <2>1. \A u : Of(u) = {}
    BY <1>4 DEF Of
  <2>2. \A r \in Requests : ~At(r, "commit")
    BY <1>7 DEF At
  <2>3. SnapshotQuotaKept
    BY <1>9, <2>1, SnapshotsAssumption DEF SnapshotQuotaKept
  <2>4. IsFiniteSet(DOMAIN snaps)
    BY <1>4, <1>9
  <2> QED
    BY <2>2, <2>3, <2>4 DEF Quota
<1> QED
  BY <1>1, <1>6, <1>10, <1>11 DEF Inv

LEMMA InvStep == Inv /\ [Next]_vars => Inv'
BY RegistryStep, StandingsStep, SlotsStep, QuotaStep DEF Inv

\* CapsKept: whatever waits time out, fail, are retried or overtake each other,
\* no slot is lost or used twice, and no user keeps more snapshots than may be.
THEOREM CapsAreKept == Spec => []CapsKept
<1>1. Inv => CapsKept
  BY DEF Inv, Slots, Quota, CapsKept
<1> QED
  BY <1>1, InitInv, InvStep, PTL DEF Spec

\* GrantsHold: for any profiles, batches and histories of the registry, a call
\* runs what its gate admitted, and a chart serves what its request may read.
THEOREM GrantsAreRespected == Spec => []GrantsHold
<1>1. Standings => GrantsHold
  BY DEF Standings, Standing, ScopeFits, GrantsHold, RunsAsAdmitted, SnapshotsMatchGrants
<1> QED
  BY <1>1, InitInv, InvStep, PTL DEF Inv, Spec

-----------------------------------------------------------------------------
(* Reports: what a key stands for is what its public key does.             *)

\* A set of numbers has a least one.
LEMMA LeastOf ==
    ASSUME NEW S \in SUBSET Nat, S # {}
    PROVE  \E n \in S : \A m \in S : n <= m
<1> DEFINE T == {0 .. m : m \in S}
<1>1. T \subseteq FiniteSubsetsOf(Nat) /\ T # {}
  <2>1. \A m \in S : IsFiniteSet(0 .. m) /\ (0 .. m) \subseteq Nat
    BY FS_Interval
  <2>2. QED
    BY <2>1 DEF FiniteSubsetsOf
<1>2. \E x \in T : \A y \in T : ~(<<y, x>> \in StrictSubsetOrdering(Nat))
  BY <1>1, FS_StrictSubsetOrderingWellFounded, WFMin
<1>3. PICK n \in S : \A m \in S : ~(<<0 .. m, 0 .. n>> \in StrictSubsetOrdering(Nat))
  BY <1>2
<1>4. ASSUME NEW m \in S PROVE n <= m
  <2>1. SUFFICES ASSUME m < n PROVE FALSE
    OBVIOUS
  <2>2. (0 .. m) \subseteq (0 .. n) /\ n \in 0 .. n /\ n \notin 0 .. m
    BY <2>1
  <2>3. <<0 .. m, 0 .. n>> \in StrictSubsetOrdering(Nat)
    BY <2>2 DEF StrictSubsetOrdering
  <2>4. QED
    BY <2>3, <1>3
<1>5. QED
  BY <1>4

\* A compatibility alias stands for a key that is not one itself.
LEMMA CanonicalAgain ==
    ASSUME NEW k
    PROVE  Canonical(Canonical(k)) = Canonical(k)
<1>1. CASE k \in DOMAIN Compatible
  <2>1. Canonical(k) = <<"actuals", "py">> \/ Canonical(k) = <<"actuals", "pp">>
    BY <1>1 DEF Canonical, Compatible
  <2>2. <<"actuals", "py">> \notin DOMAIN Compatible /\ <<"actuals", "pp">> \notin DOMAIN Compatible
    BY DEF Compatible
  <2>3. QED
    BY <2>1, <2>2 DEF Canonical
<1>2. CASE k \notin DOMAIN Compatible
  BY <1>2 DEF Canonical
<1>3. QED
  BY <1>1, <1>2

\* Two members make a sequence.
LEMMA PairIn ==
    ASSUME NEW S, NEW x \in S, NEW y \in S
    PROVE  <<x, y>> \in Seq(S)
OBVIOUS

\* A sequence over a set is one over a larger set.
LEMMA WiderSeq ==
    ASSUME NEW S, NEW T, S \subseteq T, NEW s \in Seq(S)
    PROVE  s \in Seq(T)
OBVIOUS

\* The words of keys, with those the compatibility aliases lead to.
Words == STRING \cup {"actuals", "py", "pp"}

\* What a compatibility alias stands for is a text too.
LEMMA CanonicalText ==
    ASSUME NEW k \in Seq(Words)
    PROVE  Canonical(k) \in Seq(Words)
<1>1. "actuals" \in Words /\ "py" \in Words /\ "pp" \in Words
  BY DEF Words
<1>2. <<"actuals", "py">> \in Seq(Words) /\ <<"actuals", "pp">> \in Seq(Words)
  BY <1>1, PairIn, Zenon
<1>3. QED
  BY <1>2 DEF Canonical, Compatible

\* What a key without a comparison stands for is also what its public key does.
LEMMA SimpleAgain ==
    ASSUME NEW k \in Seq(Words), FindSimple(Registry, k) # Unknown
    PROVE  LET ref == FindSimple(Registry, k)
           IN ref.node \in {"real", "shifted"} /\ Resolve(Registry, KeyOf(ref)) = ref
<1> DEFINE c == Canonical(k)
<1>1. c # <<>> /\ c \in Seq(Words) /\ Canonical(c) = c
  BY CanonicalAgain, CanonicalText DEF FindSimple
<1>2. FindSimple(Registry, k) = IF FindReal(Registry, c) # Unknown THEN FindReal(Registry, c)
                                ELSE FindShifted(Registry, c)
  BY <1>1 DEF FindSimple
<1>3. FindSimple(Registry, c) = FindSimple(Registry, k)
  <2>1. FindSimple(Registry, c) = IF FindReal(Registry, c) # Unknown THEN FindReal(Registry, c)
                                  ELSE FindShifted(Registry, c)
    BY <1>1 DEF FindSimple
  <2>2. QED
    BY <1>2, <2>1
<1> HIDE DEF c
<1>4. CASE FindReal(Registry, c) # Unknown
  <2>1. PICK s \in Registry : FindReal(Registry, c) = Real(s)
    BY <1>4 DEF FindReal
  <2>2. KeyOf(Real(s)) = s.alias /\ Real(s).node = "real"
    BY DEF KeyOf, Real, Compares
  <2>3. ValidAlias(s.alias) /\ \A t \in Registry : t.alias = s.alias => t = s
    BY RegistryLoads DEF Loadable
  <2>4. Canonical(s.alias) = s.alias /\ s.alias # <<>>
    BY <2>3 DEF ValidAlias, Canonical
  <2>5. FindReal(Registry, s.alias) = Real(s)
    BY <2>3 DEF FindReal
  <2>6. Real(s) # Unknown
    BY DEF Real, Unknown
  <2>7. FindSimple(Registry, s.alias) = Real(s)
    BY <2>4, <2>5, <2>6 DEF FindSimple
  <2>8. Resolve(Registry, s.alias) = Real(s)
    BY <2>6, <2>7 DEF Resolve
  <2>9. QED
    BY <1>2, <1>4, <2>1, <2>2, <2>8
<1>5. CASE FindReal(Registry, c) = Unknown
  <2>1. FindShifted(Registry, c) # Unknown /\ FindSimple(Registry, k) = FindShifted(Registry, c)
    BY <1>2, <1>5
  <2>2. PICK s \in Registry : s.alias = Front(c) /\ FindShifted(Registry, c) = Moved(s, c[Len(c)])
    BY <2>1 DEF FindShifted
  <2>3. KeyOf(Moved(s, c[Len(c)])) = Append(s.alias, c[Len(c)]) /\ Moved(s, c[Len(c)]).node = "shifted"
    BY DEF KeyOf, Moved, Compares
  <2>4. Append(Front(c), c[Len(c)]) = c
    BY <1>1 DEF Front
  <2>5. Moved(s, c[Len(c)]) # Unknown
    BY DEF Moved, Unknown
  <2>6. Resolve(Registry, c) = FindSimple(Registry, c)
    BY <1>3, <2>1 DEF Resolve
  <2>7. QED
    BY <1>3, <2>1, <2>2, <2>3, <2>4, <2>6
<1>6. QED
  BY <1>4, <1>5

\* What a key stands for, and what its sides do, is what their public keys do.
LEMMA ResolvedAgain ==
    ASSUME NEW k \in Seq(Words), NEW ref, ref = Resolve(Registry, k), ref # Unknown
    PROVE  /\ ~Compares(ref) => Resolve(Registry, KeyOf(ref)) = ref
           /\ Compares(ref) => /\ Resolve(Registry, KeyOf(ref.left)) = ref.left
                               /\ Resolve(Registry, KeyOf(ref.right)) = ref.right
<1>1. CASE FindSimple(Registry, k) # Unknown
  BY <1>1, SimpleAgain DEF Resolve, Compares
<1>2. CASE FindSimple(Registry, k) = Unknown
  <2> DEFINE c == Canonical(k)
             body == IF EndsIn(c, "pct") THEN Front(c) ELSE c
             cuts == {i \in 2 .. Len(body) - 1 : body[i] = "vs"}
             i == CHOOSE x \in cuts : \A d \in cuts : x <= d
             lk == SubSeq(body, 1, i - 1)
             rk == SubSeq(body, i + 1, Len(body))
             l == FindSimple(Registry, lk)
             r == FindSimple(Registry, rk)
  <2>1. ref = FindVariance(Registry, c)
    BY <1>2 DEF Resolve
  <2>2. /\ cuts # {} /\ Unknown \notin {l, r}
        /\ ref = [node |-> IF EndsIn(c, "pct") THEN "variance_pct" ELSE "variance", left |-> l, right |-> r]
    <3>1. FindVariance(Registry, c) =
            IF cuts = {} THEN Unknown
            ELSE IF Unknown \in {l, r} THEN Unknown
            ELSE [node |-> IF EndsIn(c, "pct") THEN "variance_pct" ELSE "variance", left |-> l, right |-> r]
      BY Zenon DEF FindVariance
    <3> HIDE DEF cuts, l, r, c
    <3>2. QED
      BY <2>1, <3>1
  <2>3. c \in Seq(Words)
    BY CanonicalText
  <2>4. body \in Seq(Words)
    <3> HIDE DEF c
    <3>1. EndsIn(c, "pct") => Front(c) \in Seq(Words)
      BY <2>3 DEF Front, EndsIn
    <3>2. QED
      BY <2>3, <3>1
  <2>5. lk \in Seq(Words) /\ rk \in Seq(Words)
    <3> HIDE DEF body
    <3>1. PICK x \in cuts : TRUE
      BY <2>2
    <3>2. cuts \subseteq Nat
      BY <2>4
    <3>3. i \in cuts
      <4>1. PICK y \in cuts : \A d \in cuts : y <= d
        <5>1. \E y \in cuts : \A d \in cuts : y <= d
          BY <3>1, <3>2, LeastOf
        <5>2. QED
          BY <5>1
      <4>2. QED
        BY <4>1
    <3>4. i \in 2 .. Len(body) - 1
      BY <3>3
    <3> HIDE DEF i
    <3>5. QED
      BY <2>4, <3>4
  <2> HIDE DEF l, r, lk, rk
  <2>6. Resolve(Registry, KeyOf(l)) = l /\ Resolve(Registry, KeyOf(r)) = r
    BY <2>2, <2>5, SimpleAgain DEF l, r
  <2>7. ref.left = l /\ ref.right = r /\ Compares(ref)
    BY <2>2 DEF Compares
  <2>8. QED
    BY <2>6, <2>7
<1>3. QED
  BY <1>1, <1>2

\* The scenario that is read for a part is one whose permission was asked for.
LEMMA ReadsInvolved ==
    ASSUME NEW a \in Asks, ~Refused(a), NEW p \in AllParts(a)
    PROVE  Substituted(QueryFor(a, p)).scenario \in InvolvedIn(a)
<1>1. PICK b \in BlocksOf(a) : p \in Parts(b)
  BY DEF AllParts
<1> DEFINE ref == Resolve(Registry, b.key)
<1>2. b.key \in Seq(Words) /\ ref # Unknown
  <2>1. b.key \in Seq(STRING) /\ ref # Unknown
    BY <1>1, AsksAssumption DEF BlocksOf, Refused
  <2>2. STRING \subseteq Words
    BY DEF Words
  <2>3. QED
    BY <2>1, <2>2, WiderSeq
<1>3. /\ Resolve(Registry, p.key).base.id \in Dependencies(ref)
      /\ p.fork = b.fork \/ p.fork = <<"none">>
  <2>1. CASE Compares(ref)
    <3>1. p = Plain(KeyOf(ref.left)) \/ p = Plain(KeyOf(ref.right))
      BY <1>1, <2>1 DEF Parts
    <3>2. Resolve(Registry, KeyOf(ref.left)) = ref.left /\ Resolve(Registry, KeyOf(ref.right)) = ref.right
      BY <1>2, <2>1, ResolvedAgain
    <3>3. Dependencies(ref) = {ref.left.base.id, ref.right.base.id}
      BY <2>1 DEF Dependencies
    <3> HIDE DEF ref
    <3>4. QED
      BY <3>1, <3>2, <3>3 DEF Plain
  <2>2. CASE ~Compares(ref)
    <3>1. p = [b EXCEPT !.key = KeyOf(ref)]
      BY <1>1, <2>2 DEF Parts, Filed
    <3>2. Resolve(Registry, KeyOf(ref)) = ref
      BY <1>2, <2>2, ResolvedAgain
    <3>3. Dependencies(ref) = {ref.base.id}
      BY <2>2 DEF Dependencies
    <3>4. p.fork = b.fork
      BY <3>1
    <3>5. p.key = KeyOf(ref) \/ p.fork = <<"none">>
      BY <3>1
    <3> HIDE DEF ref
    <3>6. QED
      BY <3>1, <3>2, <3>3, <3>4
  <2>3. QED
    BY <2>1, <2>2
<1> DEFINE id == Resolve(Registry, p.key).base.id
           q == QueryFor(a, p)
<1>4. q.scenario = id /\ q.part = p
  BY DEF QueryFor
<1>5. id \in Dependencies(ref)
  BY <1>3
<1> HIDE DEF id, ref
<1>6. Substituted(q).scenario = IF p.fork = <<"none">> THEN id
                                ELSE IF p.fork = <<"parent">> THEN Parent(id) ELSE p.fork
  <2>1. CASE p.fork = <<"none">>
    BY <1>4, <2>1 DEF Substituted
  <2>2. CASE p.fork = <<"parent">> /\ p.fork # <<"none">>
    <3>1. Substituted(q) = [q EXCEPT !.scenario = Parent(q.scenario)]
      BY <1>4, <2>2 DEF Substituted
    <3>2. QED
      BY <1>4, <2>2, <3>1 DEF QueryFor
  <2>3. CASE p.fork # <<"parent">> /\ p.fork # <<"none">>
    <3>1. Substituted(q) = [q EXCEPT !.scenario = q.part.fork]
      BY <1>4, <2>3 DEF Substituted
    <3>2. QED
      BY <1>4, <2>3, <3>1 DEF QueryFor
  <2>4. QED
    BY <2>1, <2>2, <2>3
<1>7. InvolvedBy(b) = IF b.fork = <<"none">> THEN Dependencies(ref)
                      ELSE IF b.fork = <<"parent">> THEN Dependencies(ref) \cup {Parent(x) : x \in Dependencies(ref)}
                      ELSE Dependencies(ref) \cup {b.fork}
  BY DEF InvolvedBy, ref
<1> HIDE DEF q
<1>8. Substituted(q).scenario \in InvolvedBy(b)
  BY <1>3, <1>5, <1>6, <1>7
<1>9. QED
  BY <1>1, <1>8 DEF q, InvolvedIn

-----------------------------------------------------------------------------
(* Facts in tables.                                                        *)

\* Every figure of a table adds facts of a set.
Within(t, S) == \A k \in DOMAIN t : \A m \in DOMAIN t[k] : Behind(t[k][m]) \subseteq S

\* The metrics of a row add facts of the row.
LEMMA DictWithin ==
    ASSUME NEW a, NEW S, NEW range, NEW closing, NEW m \in DOMAIN Dict(a, S, range, closing)
    PROVE  Behind(Dict(a, S, range, closing)[m]) \subseteq S
<1>1. m \in range \cup closing
  BY DEF Dict
<1>2. Dict(a, S, range, closing)[m] =
        IF Rollup[m] = "avg" THEN Average(a, S) ELSE Sum({f \in S : Holds(m, f)})
  BY <1>1 DEF Dict
<1>3. Behind(None) = {}
  BY DEF Behind, None
<1>4. Behind(Average(a, S)) \subseteq S
  <2>1. CASE S = {}
    BY <1>3, <2>1 DEF Average
  <2>2. CASE S # {}
    <3>1. Average(a, S) = <<"avg", S, Cardinality(Natives(a, S))>>
      BY <2>2 DEF Average
    <3>2. \A n : Behind(<<"avg", S, n>>) = S
      BY DEF Behind
    <3>3. QED
      BY <3>1, <3>2
  <2>3. QED
    BY <2>1, <2>2
<1>5. \A T : Behind(Sum(T)) = T
  BY DEF Behind, Sum
<1>6. Behind(Sum({f \in S : Holds(m, f)})) \subseteq S
  BY <1>5
<1>7. QED
  BY <1>2, <1>4, <1>6

\* The rows of a statement add facts of their groups.
LEMMA DictsWithin ==
    ASSUME NEW a, NEW groups, NEW metrics, NEW S, \A k \in DOMAIN groups : groups[k] \subseteq S
    PROVE  Within(Dicts(a, groups, metrics), S)
<1>1. ASSUME NEW k \in DOMAIN groups, NEW m \in DOMAIN Dict(a, groups[k], metrics, {})
      PROVE  Behind(Dict(a, groups[k], metrics, {})[m]) \subseteq S
  BY <1>1, DictWithin
<1>2. DOMAIN Dicts(a, groups, metrics) = DOMAIN groups
      /\ \A k \in DOMAIN groups : Dicts(a, groups, metrics)[k] = Dict(a, groups[k], metrics, {})
  BY DEF Dicts
<1>3. QED
  BY <1>1, <1>2 DEF Within

\* Merging rows adds nothing to a figure.
LEMMA MergedWithin ==
    ASSUME NEW tables, NEW S, \A t \in tables : Within(t, S)
    PROVE  Within(Merged(tables), S)
<1> DEFINE M == Merged(tables)
           dicts(k) == {t[k] : t \in {u \in tables : k \in DOMAIN u}}
<1>1. \A k \in DOMAIN M : M[k] = [m \in UNION {DOMAIN d : d \in dicts(k)} |->
                                     (CHOOSE d \in dicts(k) : m \in DOMAIN d)[m]]
  BY DEF Merged
<1> HIDE DEF M
<1>2. ASSUME NEW k \in DOMAIN M, NEW m \in DOMAIN M[k]
      PROVE  Behind(M[k][m]) \subseteq S
  <2> DEFINE D == dicts(k)
  <2>1. M[k] = [x \in UNION {DOMAIN d : d \in D} |-> (CHOOSE d \in D : x \in DOMAIN d)[x]]
    BY <1>1
  <2>2. \A d \in D : \E t \in tables : k \in DOMAIN t /\ d = t[k]
    OBVIOUS
  <2> HIDE DEF D
  <2>3. m \in UNION {DOMAIN d : d \in D} /\ M[k][m] = (CHOOSE d \in D : m \in DOMAIN d)[m]
    BY <2>1
  <2>4. \E d \in D : m \in DOMAIN d
    BY <2>3
  <2>5. PICK d \in D : m \in DOMAIN d /\ M[k][m] = d[m]
    BY <2>3, <2>4
  <2>6. PICK t \in tables : k \in DOMAIN t /\ d = t[k]
    BY <2>2
  <2>7. QED
    BY <2>5, <2>6 DEF Within
<1>3. Within(M, S)
  BY <1>2 DEF Within
<1>4. QED
  BY <1>3 DEF M

\* Moving the periods of a row adds nothing to a figure.
LEMMA RealignedWithin ==
    ASSUME NEW a, NEW q, NEW t, NEW S, Within(t, S)
    PROVE  Within(Realigned(a, q, t), S)
<1> DEFINE R == Realigned(a, q, t)
<1>1. \A k \in DOMAIN R : \E o \in DOMAIN t : R[k] = t[o]
  <2> DEFINE value(x, dim) ==
               IF x = Rolled \/ dim \notin TimeDims THEN x
               ELSE IF q.offset # 0 THEN <<dim, Forward(x[2], dim, q.offset)>>
               ELSE IF q.calendar /\ dim = "week" THEN <<dim, Succeeding(x[2], q.from, q.to)>>
               ELSE x
             moved(k) == [i \in DOMAIN k |-> value(k[i], a.dims[i])]
  <2>1. R = [k \in {moved(o) : o \in DOMAIN t} |-> t[CHOOSE o \in DOMAIN t : moved(o) = k]]
    BY Zenon DEF Realigned
  <2> HIDE DEF moved, R
  <2>2. ASSUME NEW k \in DOMAIN R PROVE \E o \in DOMAIN t : R[k] = t[o]
    <3>1. \E o \in DOMAIN t : moved(o) = k
      BY <2>1
    <3> DEFINE o1 == CHOOSE o \in DOMAIN t : moved(o) = k
    <3>2. o1 \in DOMAIN t
      BY <3>1
    <3>3. R[k] = t[o1]
      BY <2>1
    <3> HIDE DEF o1
    <3>4. QED
      BY <3>2, <3>3
  <2>3. QED
    BY <2>2
<1> HIDE DEF R
<1>2. Within(R, S)
  BY <1>1 DEF Within
<1>3. QED
  BY <1>2 DEF R

\* The rows of a query's scenario that the filters leave.
Reached(a, q, fs) == {f \in Rows(a, q) : \A d \in DOMAIN fs : f[d] \in fs[d]}

\* A larger set holds the facts too.
LEMMA WithinMore ==
    ASSUME NEW t, NEW S, NEW T, S \subseteq T, Within(t, S)
    PROVE  Within(t, T)
BY DEF Within

\* A group is made of the facts that were grouped.
LEMMA GroupedWithin ==
    ASSUME NEW S, NEW dims, NEW prefixes, NEW k \in DOMAIN Grouped(S, dims, prefixes)
    PROVE  Grouped(S, dims, prefixes)[k] \subseteq S
BY DEF Grouped

\* Every ClickHouse statement adds facts the filters leave.
LEMMA ClickHouseWithin ==
    ASSUME NEW a, NEW q, NEW fs, NEW t \in ClickHouse(a, q, fs)
    PROVE  Within(t, Reached(a, q, fs))
<1> DEFINE prefixes == GroupingSets(a)
           native   == Domains[a.domain].native
           single   == native \in Range(a.dims)
           groups   == TimeGroups(a)
           timeDims == groups \cup (IF single THEN {native} ELSE {})
           isLive(j) == \A i \in DOMAIN a.dims : a.dims[i] \in timeDims => i <= j
           live     == {j \in prefixes : isLive(j)}
           inRange  == {f \in KeptRows(a, q, fs) : InWindow(a, q, f)}
           closing  == {f \in KeptRows(a, q, fs) :
                          IF single THEN InWindow(a, q, f) ELSE IsClosing(a, q, f, groups)}
           R == Reached(a, q, fs)
<1>1. KeptRows(a, q, fs) \subseteq R
  BY DEF KeptRows, Reached
<1>2. inRange \subseteq R /\ closing \subseteq R
  BY <1>1
<1>3. \A k \in DOMAIN ClosingTotals(a, q, fs, timeDims, prefixes \ live) :
         ClosingTotals(a, q, fs, timeDims, prefixes \ live)[k] \subseteq R
  <2> HIDE DEF timeDims, prefixes, live, R
  <2> DEFINE S == {f \in KeptRows(a, q, fs) : IsClosing(a, q, f, {})}
             T == ClosingTotals(a, q, fs, timeDims, prefixes \ live)
  <2>1. \A k \in DOMAIN T : T[k] = {f \in S : InGroup(f, a.dims, k)}
    BY DEF ClosingTotals
  <2>2. S \subseteq R
    BY <1>1
  <2> HIDE DEF S, T
  <2>3. \A k \in DOMAIN T : T[k] \subseteq R
    BY <2>1, <2>2
  <2>4. QED
    BY <2>3 DEF T
<1>4. \/ t = Dicts(a, Grouped(inRange, a.dims, prefixes), RangeMetrics(a))
      \/ t = Dicts(a, Grouped(closing, a.dims, live), ClosingMetrics(a))
      \/ t = Dicts(a, ClosingTotals(a, q, fs, timeDims, prefixes \ live), ClosingMetrics(a))
  <2>1. ClickHouse(a, q, fs) =
           {Dicts(a, Grouped(inRange, a.dims, prefixes), RangeMetrics(a)) :
              x \in RangeMetrics(a)}
           \cup {Dicts(a, Grouped(closing, a.dims, live), ClosingMetrics(a)) :
                   x \in {m \in ClosingMetrics(a) : live # {}}}
           \cup {Dicts(a, ClosingTotals(a, q, fs, timeDims, prefixes \ live), ClosingMetrics(a)) :
                   x \in {m \in ClosingMetrics(a) : prefixes # live}}
    BY Zenon DEF ClickHouse
  <2> HIDE DEF inRange, closing, live, timeDims, prefixes
  <2>2. QED
    BY <2>1
<1> HIDE DEF inRange, closing, live, timeDims, prefixes, R
<1>5. CASE t = Dicts(a, Grouped(inRange, a.dims, prefixes), RangeMetrics(a))
  <2>1. Within(t, inRange)
    BY <1>5, GroupedWithin, DictsWithin
  <2>2. QED
    BY <1>2, <2>1, WithinMore DEF R
<1>6. CASE t = Dicts(a, Grouped(closing, a.dims, live), ClosingMetrics(a))
  <2>1. Within(t, closing)
    BY <1>6, GroupedWithin, DictsWithin
  <2>2. QED
    BY <1>2, <2>1, WithinMore DEF R
<1>7. CASE t = Dicts(a, ClosingTotals(a, q, fs, timeDims, prefixes \ live), ClosingMetrics(a))
  <2>1. Within(t, R)
    BY <1>3, <1>7, DictsWithin
  <2>2. QED
    BY <2>1 DEF R
<1>8. QED
  BY <1>4, <1>5, <1>6, <1>7

\* The rows of a ragged hierarchy add facts the filters leave.
LEMMA RaggedWithin ==
    ASSUME NEW a, NEW q, NEW fs, NEW t \in Ragged(a, q, fs)
    PROVE  Within(t, Reached(a, q, fs))
<1> DEFINE anchor == a.filters.tree
           nodeRows(S, metrics) ==
             [k \in {<<IF n = anchor THEN Rolled ELSE <<"tree", n>> >> :
                        n \in {x \in {anchor} \cup Children[anchor] :
                                 \E f \in S : f.cc \in Nodes[x]}} |->
                 Dict(a, {f \in S : f.cc \in Nodes[IF k[1] = Rolled THEN anchor ELSE k[1][2]]},
                      metrics, {})]
           inRange == {f \in KeptRows(a, q, fs) : InWindow(a, q, f)}
           closing == {f \in KeptRows(a, q, fs) : IsClosing(a, q, f, {})}
           R == Reached(a, q, fs)
<1>1. KeptRows(a, q, fs) \subseteq R
  BY DEF KeptRows, Reached
<1>2. inRange \subseteq R /\ closing \subseteq R
  BY <1>1
<1>3. Ragged(a, q, fs) = {nodeRows(inRange, RangeMetrics(a)) : x \in RangeMetrics(a)}
                           \cup {nodeRows(closing, ClosingMetrics(a)) : x \in ClosingMetrics(a)}
  BY Zenon DEF Ragged
<1>4. ASSUME NEW S, S \subseteq R, NEW metrics
      PROVE  Within(nodeRows(S, metrics), R)
  <2> DEFINE at(k) == {f \in S : f.cc \in Nodes[IF k[1] = Rolled THEN anchor ELSE k[1][2]]}
             D == DOMAIN nodeRows(S, metrics)
             U == nodeRows(S, metrics)
  <2>1. \A k \in D : U[k] = Dict(a, at(k), metrics, {})
    OBVIOUS
  <2>2. \A k : at(k) \subseteq R
    BY <1>4
  <2>3. D = DOMAIN U
    OBVIOUS
  <2> HIDE DEF at, D, U, R
  <2>4. ASSUME NEW k \in DOMAIN U, NEW m \in DOMAIN U[k] PROVE Behind(U[k][m]) \subseteq R
    <3>1. U[k] = Dict(a, at(k), metrics, {})
      BY <2>1, <2>3
    <3>2. Behind(Dict(a, at(k), metrics, {})[m]) \subseteq at(k)
      BY <3>1, DictWithin
    <3>3. QED
      BY <2>2, <3>1, <3>2
  <2>5. Within(U, R)
    BY <2>4 DEF Within
  <2>6. QED
    BY <2>5 DEF U
<1>5. Within(nodeRows(inRange, RangeMetrics(a)), R) /\ Within(nodeRows(closing, ClosingMetrics(a)), R)
  BY <1>2, <1>4
<1> HIDE DEF nodeRows, inRange, closing, R
<1>6. t = nodeRows(inRange, RangeMetrics(a)) \/ t = nodeRows(closing, ClosingMetrics(a))
  BY <1>3
<1>7. QED
  BY <1>5, <1>6 DEF R

\* The rolled-up rows of the federated backend add facts the filters leave.
LEMMA FederatedWithin ==
    ASSUME NEW a, NEW q, NEW fs, NEW t \in Federated(a, q, fs)
    PROVE  Within(t, Reached(a, q, fs))
<1> DEFINE S == {f \in Rows(a, q) : (\A d \in DOMAIN fs : f[d] \in fs[d])
                                      /\ TextInWindow(q, a.grain, f.month)}
           detail == Grouped(S, a.dims, {Len(a.dims)})
           rolled == Grouped(S, a.dims, GroupingSets(a))
           below(k) == {e \in DOMAIN detail : \A i \in DOMAIN a.dims : k[i] # Rolled => e[i] = k[i]}
           R == Reached(a, q, fs)
<1>1. S \subseteq R
  BY DEF Reached
<1>2. Federated(a, q, fs) = {[k \in DOMAIN rolled |->
                                Dict(a, UNION {detail[d] : d \in below(k)}, BaseMetrics(a), {})]}
  BY Zenon DEF Federated
<1>3. \A d \in DOMAIN detail : detail[d] \subseteq S
  <2> HIDE DEF S
  <2>1. QED
    BY GroupedWithin
<1>4. \A k : below(k) \subseteq DOMAIN detail
  OBVIOUS
<1> HIDE DEF S, detail, rolled, below, R
<1>5. DOMAIN t = DOMAIN rolled /\ \A k \in DOMAIN rolled :
         t[k] = Dict(a, UNION {detail[d] : d \in below(k)}, BaseMetrics(a), {})
  BY <1>2
<1>6. \A k : UNION {detail[d] : d \in below(k)} \subseteq R
  BY <1>1, <1>3, <1>4
<1>7. ASSUME NEW k \in DOMAIN t, NEW m \in DOMAIN t[k] PROVE Behind(t[k][m]) \subseteq R
  <2> DEFINE U == UNION {detail[d] : d \in below(k)}
  <2>1. t[k] = Dict(a, U, BaseMetrics(a), {}) /\ U \subseteq R
    BY <1>5, <1>6
  <2> HIDE DEF U
  <2>2. Behind(Dict(a, U, BaseMetrics(a), {})[m]) \subseteq U
    BY <2>1, DictWithin
  <2>3. QED
    BY <2>1, <2>2
<1>8. Within(t, R)
  BY <1>7 DEF Within
<1>9. QED
  BY <1>8 DEF R

\* What is retrieved, on either backend, adds facts the filters leave.
LEMMA RetrievedWithin ==
    ASSUME NEW a, NEW q, NEW fs
    PROVE  Within(Retrieved(a, q, fs), Reached(a, q, fs))
<1> DEFINE tables == CASE Domains[a.domain].backend = "ibis" -> Federated(a, q, fs)
                       [] "tree" \in Range(a.dims) -> Ragged(a, q, fs)
                       [] OTHER -> ClickHouse(a, q, fs)
<1>1. tables \in {Federated(a, q, fs), Ragged(a, q, fs), ClickHouse(a, q, fs)}
  OBVIOUS
<1>2. Retrieved(a, q, fs) = Merged(tables)
  BY Zenon DEF Retrieved
<1> HIDE DEF tables
<1>3. \A t \in tables : Within(t, Reached(a, q, fs))
  BY <1>1, FederatedWithin, RaggedWithin, ClickHouseWithin
<1>4. QED
  BY <1>2, <1>3, MergedWithin

-----------------------------------------------------------------------------
(* What the scopes leave.                                                   *)

\* What the scope leaves of a dimension is what its axes say of each member.
LEMMA ScopeFiltersTell ==
    ASSUME NEW s, NEW d, NEW m
    PROVE  /\ d \in DOMAIN ScopeFilters(s) <=>
                (\E axis \in DOMAIN s.allow : LeafOf[axis] = d) \/ (\E axis \in DOMAIN s.deny : LeafOf[axis] = d)
           /\ d \in DOMAIN ScopeFilters(s) =>
                (m \in ScopeFilters(s)[d] <=>
                   /\ m \in Members[d]
                   /\ \A axis \in DOMAIN s.allow : LeafOf[axis] = d =>
                         \E v \in s.allow[axis] : m \in Leaves(axis, v)
                   /\ \A axis \in DOMAIN s.deny : LeafOf[axis] = d =>
                         \A v \in s.deny[axis] : m \notin Leaves(axis, v))
<1> DEFINE allowed == ScopeMembers(s.allow, TRUE)
           denied  == ScopeMembers(s.deny, FALSE)
           A == \E axis \in DOMAIN s.allow : LeafOf[axis] = d
           D == \E axis \in DOMAIN s.deny : LeafOf[axis] = d
<1>1. d \in DOMAIN allowed <=> A
  BY DEF ScopeMembers
<1>2. d \in DOMAIN denied <=> D
  BY DEF ScopeMembers
<1>3. ASSUME A
      PROVE  m \in allowed[d] <=>
               /\ m \in Members[d]
               /\ \A axis \in DOMAIN s.allow : LeafOf[axis] = d =>
                     \E v \in s.allow[axis] : m \in Leaves(axis, v)
  <2>1. allowed[d] = {x \in Members[d] :
           \A axis \in {y \in DOMAIN s.allow : LeafOf[y] = d} :
              x \in UNION {Leaves(axis, v) : v \in s.allow[axis]}}
    BY <1>3 DEF ScopeMembers
  <2> HIDE DEF allowed
  <2>2. QED
    BY <2>1
<1>4. ASSUME D
      PROVE  m \in denied[d] <=>
               \E axis \in DOMAIN s.deny : LeafOf[axis] = d /\ \E v \in s.deny[axis] : m \in Leaves(axis, v)
  <2>1. denied[d] = UNION {UNION {Leaves(axis, v) : v \in s.deny[axis]} :
                              axis \in {y \in DOMAIN s.deny : LeafOf[y] = d}}
    BY <1>4 DEF ScopeMembers
  <2> HIDE DEF denied
  <2>2. QED
    BY <2>1
<1>5. ScopeFilters(s) = [e \in DOMAIN allowed \cup DOMAIN denied |->
          (IF e \in DOMAIN allowed THEN allowed[e] ELSE Members[e])
            \ (IF e \in DOMAIN denied THEN denied[e] ELSE {})]
  BY Zenon DEF ScopeFilters
<1>6. ASSUME A PROVE m \in allowed[d] => m \in Members[d]
  BY <1>3, <1>6
<1> HIDE DEF allowed, denied
<1>7. d \in DOMAIN ScopeFilters(s) <=> A \/ D
  BY <1>1, <1>2, <1>5
<1>8. d \in DOMAIN ScopeFilters(s) => ScopeFilters(s)[d] =
          (IF d \in DOMAIN allowed THEN allowed[d] ELSE Members[d])
            \ (IF d \in DOMAIN denied THEN denied[d] ELSE {})
  BY <1>5
<1> DEFINE P == \A axis \in DOMAIN s.allow : LeafOf[axis] = d =>
                     \E v \in s.allow[axis] : m \in Leaves(axis, v)
           Q == \A axis \in DOMAIN s.deny : LeafOf[axis] = d =>
                     \A v \in s.deny[axis] : m \notin Leaves(axis, v)
<1>9. A => (m \in allowed[d] <=> m \in Members[d] /\ P)
  BY <1>3
<1>10. D => (m \in denied[d] <=> ~Q)
  BY <1>4
<1>11. (~A => P) /\ (~D => Q)
  OBVIOUS
<1> HIDE DEF A, D, P, Q
<1>12. d \in DOMAIN ScopeFilters(s) => (m \in ScopeFilters(s)[d] <=> m \in Members[d] /\ P /\ Q)
  BY <1>1, <1>2, <1>7, <1>8, <1>9, <1>10, <1>11
<1>13. QED
  BY <1>7, <1>12 DEF A, D, P, Q

\* A row the effective filters leave is one the scope admits.
LEMMA LeftIsAdmitted ==
    ASSUME NEW s, NEW user, NEW f, s.open \/ f.domain \in s.admits \ s.bars,
           \A d \in DOMAIN Effective(s, user) : f[d] \in Effective(s, user)[d]
    PROVE  Admitted(s, f)
<1>1. CASE s.open
  BY <1>1 DEF Admitted
<1>2. CASE ~s.open
  <2> DEFINE sf == ScopeFilters(s)
  <2>1. Effective(s, user) = Merge(user, sf)
    BY <1>2 DEF Effective
  <2>2. \A d \in DOMAIN sf : f[d] \in sf[d]
    <3> HIDE DEF sf
    <3>1. \A d \in DOMAIN sf : d \in DOMAIN Merge(user, sf) /\ Merge(user, sf)[d] \subseteq sf[d]
      BY DEF Merge
    <3>2. QED
      BY <2>1, <3>1
  <2>3. ASSUME NEW axis \in DOMAIN s.allow
        PROVE  \E v \in s.allow[axis] : f[LeafOf[axis]] \in Leaves(axis, v)
    <3>1. LeafOf[axis] \in DOMAIN sf
      BY ScopeFiltersTell
    <3>2. f[LeafOf[axis]] \in sf[LeafOf[axis]]
      BY <2>2, <3>1
    <3>3. QED
      BY <3>1, <3>2, ScopeFiltersTell
  <2>4. ASSUME NEW axis \in DOMAIN s.deny, NEW v \in s.deny[axis]
        PROVE  f[LeafOf[axis]] \notin Leaves(axis, v)
    <3>1. LeafOf[axis] \in DOMAIN sf
      BY ScopeFiltersTell
    <3>2. f[LeafOf[axis]] \in sf[LeafOf[axis]]
      BY <2>2, <3>1
    <3>3. QED
      BY <3>1, <3>2, ScopeFiltersTell
  <2>5. QED
    BY <1>2, <2>3, <2>4 DEF Admitted
<1>3. QED
  BY <1>1, <1>2

\* Discovery lists what some readable scenario allows.
LEMMA DiscoverableIsUnion ==
    ASSUME NEW a, NEW d
    PROVE  Discoverable(a, d) = {m \in Members[d] : \E id \in DOMAIN a.scope : Allows(a.scope[id], d, m)}
<1> DEFINE kept == {ScopeFilters(a.scope[id]) : id \in {i \in DOMAIN a.scope : ~a.scope[i].open}}
           free == (\E id \in DOMAIN a.scope : a.scope[id].open) \/ \E fs \in kept : d \notin DOMAIN fs
           U == {m \in Members[d] : \E id \in DOMAIN a.scope : Allows(a.scope[id], d, m)}
<1>1. Discoverable(a, d) = IF DOMAIN a.scope = {} THEN {}
                           ELSE IF free THEN Members[d] ELSE UNION {fs[d] : fs \in kept}
  BY Zenon DEF Discoverable
<1>2. CASE DOMAIN a.scope = {}
  <2>1. U = {}
    BY <1>2
  <2>2. QED
    BY <1>1, <1>2, <2>1
<1>3. CASE DOMAIN a.scope # {} /\ free
  <2>1. PICK id \in DOMAIN a.scope : a.scope[id].open \/ d \notin DOMAIN ScopeFilters(a.scope[id])
    BY <1>3
  <2>2. \A m : Allows(a.scope[id], d, m)
    <3>1. CASE a.scope[id].open
      BY <3>1 DEF Allows
    <3>2. CASE d \notin DOMAIN ScopeFilters(a.scope[id])
      <4> DEFINE t == a.scope[id]
      <4>1. ~(\E axis \in DOMAIN t.allow : LeafOf[axis] = d) /\ ~(\E axis \in DOMAIN t.deny : LeafOf[axis] = d)
        BY <3>2, ScopeFiltersTell
      <4> HIDE DEF t
      <4>2. \A m : Allows(t, d, m)
        BY <4>1 DEF Allows
      <4>3. QED
        BY <4>2 DEF t
    <3>3. QED
      BY <2>1, <3>1, <3>2
  <2>3. U = Members[d]
    BY <2>2
  <2> HIDE DEF U, free, kept
  <2>4. QED
    BY <1>1, <1>3, <2>3 DEF U
<1>4. CASE DOMAIN a.scope # {} /\ ~free
  <2>1. \A id \in DOMAIN a.scope : ~a.scope[id].open /\ d \in DOMAIN ScopeFilters(a.scope[id])
    BY <1>4
  <2>2. \A m, id : id \in DOMAIN a.scope =>
            (m \in ScopeFilters(a.scope[id])[d] <=> m \in Members[d] /\ Allows(a.scope[id], d, m))
    BY <2>1, ScopeFiltersTell DEF Allows
  <2>3. kept = {ScopeFilters(a.scope[id]) : id \in DOMAIN a.scope}
    BY <2>1
  <2> HIDE DEF kept
  <2>4. UNION {fs[d] : fs \in kept} = U
    BY <2>2, <2>3
  <2> HIDE DEF U, free
  <2>5. QED
    BY <1>1, <1>4, <2>4 DEF U
<1>5. QED
  BY <1>2, <1>3, <1>4

\* Finitely many arguments have finitely many values.
LEMMA FiniteImage ==
    ASSUME NEW S, IsFiniteSet(S), NEW f, DOMAIN f = S
    PROVE  IsFiniteSet({f[x] : x \in S})
<1> DEFINE T == {f[x] : x \in S}
           g == [x \in S |-> f[x]]
<1>1. g \in [S -> T] /\ \A t \in T : \E x \in S : g[x] = t
  OBVIOUS
<1>2. g \in Surjection(S, T)
  BY <1>1 DEF Surjection
<1>3. QED
  BY <1>2, FS_Surjection

\* A report involves finitely many scopes, so that the code can compare them.
LEMMA ScopesAreFew ==
    ASSUME NEW a \in Asks, NEW user
    PROVE  IsFiniteSet({Effective(s, user) : s \in Scopes(a)})
<1>1. a.blocks \in Seq({a.blocks[i] : i \in DOMAIN a.blocks})
  BY AsksAssumption
<1>2. IsFiniteSet(DOMAIN a.blocks)
  <2>1. DOMAIN a.blocks = 1 .. Len(a.blocks) /\ Len(a.blocks) \in Nat
    BY <1>1
  <2>2. IsFiniteSet(1 .. Len(a.blocks))
    <3>1. 1 \in Int /\ Len(a.blocks) \in Int
      BY <2>1
    <3>2. QED
      BY <3>1, FS_Interval
  <2>3. QED
    BY <2>1, <2>2
<1>3. IsFiniteSet(BlocksOf(a))
  BY <1>2, FiniteImage DEF BlocksOf
<1>4. ASSUME NEW b PROVE IsFiniteSet(InvolvedBy(b))
  <2> DEFINE ids == Dependencies(Resolve(Registry, b.key))
             parents == {Parent(id) : id \in ids}
  <2>1. IsFiniteSet(ids)
    <3>1. \E x, y : ids = {x} \cup {y}
      <4>1. ids = {Resolve(Registry, b.key).left.base.id} \cup {Resolve(Registry, b.key).right.base.id}
            \/ ids = {Resolve(Registry, b.key).base.id} \cup {Resolve(Registry, b.key).base.id}
        BY DEF Dependencies
      <4> HIDE DEF ids
      <4>2. QED
        BY <4>1, Zenon
    <3> HIDE DEF ids
    <3>2. PICK x, y : ids = {x} \cup {y}
      BY <3>1
    <3>3. IsFiniteSet({x}) /\ IsFiniteSet({y})
      BY FS_Singleton
    <3>4. QED
      BY <3>2, <3>3, FS_Union
  <2>2. InvolvedBy(b) = IF b.fork = <<"none">> THEN ids
                        ELSE IF b.fork = <<"parent">> THEN ids \cup parents
                        ELSE ids \cup {b.fork}
    BY DEF InvolvedBy
  <2>3. IsFiniteSet(parents)
    <3> DEFINE f == [id \in ids |-> Parent(id)]
    <3>1. parents = {f[id] : id \in ids} /\ DOMAIN f = ids
      OBVIOUS
    <3> HIDE DEF ids, parents, f
    <3>2. QED
      BY <2>1, <3>1, FiniteImage
  <2> HIDE DEF ids, parents
  <2>4. IsFiniteSet({b.fork})
    BY FS_Singleton
  <2>5. IsFiniteSet(ids \cup parents) /\ IsFiniteSet(ids \cup {b.fork})
    BY <2>1, <2>3, <2>4, FS_Union
  <2>6. QED
    BY <2>1, <2>2, <2>5
<1>5. IsFiniteSet({InvolvedBy(b) : b \in BlocksOf(a)})
  <2> DEFINE f == [b \in BlocksOf(a) |-> InvolvedBy(b)]
  <2>1. {InvolvedBy(b) : b \in BlocksOf(a)} = {f[b] : b \in BlocksOf(a)} /\ DOMAIN f = BlocksOf(a)
    OBVIOUS
  <2> HIDE DEF f
  <2>2. QED
    BY <1>3, <2>1, FiniteImage
<1>6. IsFiniteSet(InvolvedIn(a))
  <2>1. \A T \in {InvolvedBy(b) : b \in BlocksOf(a)} : IsFiniteSet(T)
    BY <1>4
  <2>2. QED
    BY <1>5, <2>1, FS_UNION DEF InvolvedIn
<1>7. QED
  <2> DEFINE f == [id \in InvolvedIn(a) |-> Effective(a.scope[id], user)]
  <2>1. {Effective(s, user) : s \in Scopes(a)} = {f[id] : id \in InvolvedIn(a)} /\ DOMAIN f = InvolvedIn(a)
    BY DEF Scopes
  <2> HIDE DEF f
  <2>2. QED
    BY <1>6, <2>1, FiniteImage

\* Filters that pass the check are those of every scenario in the report.
LEMMA ScopesAgree ==
    ASSUME NEW a \in Asks, NEW user, ~ScopesDiffer(a, user), NEW s \in Scopes(a),
           NEW fs, fs = CHOOSE x \in {Effective(t, user) : t \in Scopes(a)} : TRUE
    PROVE  fs = Effective(s, user)
<1> DEFINE E == {Effective(t, user) : t \in Scopes(a)}
<1>1. IsFiniteSet(E)
  BY ScopesAreFew
<1>2. Cardinality(E) <= 1 /\ Cardinality(E) \in Nat
  <2>1. ~(Cardinality(E) > 1)
    BY DEF ScopesDiffer
  <2> HIDE DEF E
  <2>2. Cardinality(E) \in Nat
    BY <1>1, FS_CardinalityType
  <2>3. QED
    BY <2>1, <2>2
<1>3. Effective(s, user) \in E
  OBVIOUS
<1> HIDE DEF E
<1>4. \E x : E = {x}
  <2>1. CASE Cardinality(E) = 0
    BY <1>1, <1>3, <2>1, FS_EmptySet
  <2>2. CASE Cardinality(E) = 1
    BY <1>1, <2>2, FS_Singleton
  <2>3. Cardinality(E) = 0 \/ Cardinality(E) = 1
    <3> DEFINE n == Cardinality(E)
    <3>1. n \in Nat /\ n <= 1
      BY <1>2
    <3> HIDE DEF n
    <3>2. n = 0 \/ n = 1
      BY <3>1
    <3>3. QED
      BY <3>2 DEF n
  <2>4. QED
    BY <2>1, <2>2, <2>3
<1>5. fs \in E
  <2>1. \E x \in E : TRUE
    BY <1>3
  <2>2. QED
    BY <2>1 DEF E
<1>6. QED
  BY <1>3, <1>4, <1>5

-----------------------------------------------------------------------------
(* The invariant of a report.                                               *)

\* The scope check is behind the report.
ScopeChecked == stage \in {"scoped", "retrieved", "answered", "drilled"}
\* The plan is made.
Planned == stage \in {"planned", "scoped", "retrieved", "answered", "drilled"}

\* The plan reads only scenarios whose permission was asked for and held.
PlanIsInvolved ==
    /\ Planned => ~Refused(ask) /\ ~GateCloses(ask)
    /\ stage = "planned" => \A q \in plan : Substituted(q).scenario \in InvolvedIn(ask)
    /\ ScopeChecked => \A q \in plan : q.scenario \in InvolvedIn(ask)

\* The filters are those every scenario of the report leaves.
FiltersAreShared ==
    ScopeChecked =>
        \A s \in Scopes(ask) : /\ filters = Effective(s, ResolveFilters(ask.filters))
                               /\ s.open \/ ask.domain \in s.admits \ s.bars

\* The figures retrieved add facts of scenarios the caller may read.
OnlyReadable ==
    \A p \in DOMAIN raw : \A k \in DOMAIN raw[p] : \A m \in DOMAIN raw[p][k] :
        \A f \in Behind(raw[p][k][m]) : f.scenario \in DOMAIN ask.scope

\* The records of a drill are ones its scenario's scope admits.
RecordsInScope ==
    stage = "drilled" =>
        \A f \in records[2] : f.scenario \in DOMAIN ask.scope /\ Admitted(ask.scope[f.scenario], f)

\* The inductive invariant: ScopesHold needs the plan and the filters it was checked with.
ReportInv ==
    /\ ask \in Asks
    /\ PlanIsInvolved
    /\ FiltersAreShared
    /\ NothingOutOfScope
    /\ OnlyReadable
    /\ RecordsInScope
    /\ DiscoveryIsUnion

\* The invariant of a report holds before anything is planned.
LEMMA ReportInvInit == ReportInit => ReportInv
<1> SUFFICES ASSUME ReportInit PROVE ReportInv
  OBVIOUS
<1>1. DOMAIN raw = {}
  BY DEF ReportInit
<1>2. NothingOutOfScope /\ OnlyReadable
  BY <1>1 DEF NothingOutOfScope, OnlyReadable
<1>3. stage = "asked" /\ ask \in Asks
  BY DEF ReportInit
<1>4. QED
  BY <1>2, <1>3 DEF ReportInv, PlanIsInvolved, FiltersAreShared, Planned, ScopeChecked, RecordsInScope,
                    DiscoveryIsUnion

\* What is said of the figures stays true while they and the question stay.
LEMMA FiguresStay ==
    ASSUME ReportInv, ask' = ask, raw' = raw
    PROVE  ask' \in Asks /\ NothingOutOfScope' /\ OnlyReadable'
BY DEF ReportInv, NothingOutOfScope, OnlyReadable

\* A refusal keeps it.
LEMMA RefuseKeeps == ReportInv /\ Refuse => ReportInv'
<1> SUFFICES ASSUME ReportInv, Refuse PROVE ReportInv'
  OBVIOUS
<1>1. stage' = "refused" /\ ask' = ask /\ raw' = raw
  BY DEF Refuse
<1>2. QED
  BY <1>1, FiguresStay
     DEF ReportInv, PlanIsInvolved, FiltersAreShared, Planned, ScopeChecked, RecordsInScope, DiscoveryIsUnion

\* Planning keeps it: what is read was asked permission for.
LEMMA PlanKeeps == ReportInv /\ Plan => ReportInv'
<1> SUFFICES ASSUME ReportInv, Plan PROVE ReportInv'
  OBVIOUS
<1>1. CASE Refuse
  BY <1>1, RefuseKeeps
<1>2. CASE ~Refuse
  <2>1. /\ ~Refused(ask) /\ ~GateCloses(ask) /\ stage' = "planned" /\ ask' = ask /\ raw' = raw
        /\ plan' = Deduplicated({QueryFor(ask, p) : p \in AllParts(ask)})
    BY <1>2 DEF Plan
  <2>2. \A q \in plan' : \E p \in AllParts(ask) : q = QueryFor(ask, p)
    BY <2>1 DEF Deduplicated
  <2>3. \A q \in plan' : Substituted(q).scenario \in InvolvedIn(ask)
    <3>1. ask \in Asks
      BY DEF ReportInv
    <3>2. QED
      BY <2>1, <2>2, <3>1, ReadsInvolved
  <2>4. QED
    BY <2>1, <2>3, FiguresStay
       DEF ReportInv, PlanIsInvolved, FiltersAreShared, Planned, ScopeChecked, RecordsInScope, DiscoveryIsUnion
<1>3. QED
  BY <1>1, <1>2

\* The scope check keeps it: one filter stands for every scenario.
LEMMA ScopeKeeps == ReportInv /\ Scope => ReportInv'
<1> SUFFICES ASSUME ReportInv, Scope PROVE ReportInv'
  OBVIOUS
<1> DEFINE user == ResolveFilters(ask.filters)
<1>1. CASE Refuse
  BY <1>1, RefuseKeeps
<1>2. CASE ~Refuse
  <2>1. /\ stage = "planned" /\ ~ScopesDiffer(ask, user) /\ stage' = "scoped" /\ ask' = ask /\ raw' = raw
        /\ filters' = CHOOSE fs \in {Effective(s, user) : s \in Scopes(ask)} : TRUE
        /\ plan' = {Substituted(q) : q \in plan}
    BY <1>2 DEF Scope
  <2>2. \A s \in Scopes(ask) : filters' = Effective(s, user)
    <3>1. ask \in Asks
      BY DEF ReportInv
    <3> HIDE DEF user
    <3>2. QED
      BY <2>1, <3>1, ScopesAgree
  <2>3. \A s \in Scopes(ask) : s.open \/ ask.domain \in s.admits \ s.bars
    BY <2>1 DEF ScopesDiffer, DomainBarred
  <2>4. FiltersAreShared'
    BY <2>1, <2>2, <2>3 DEF FiltersAreShared
  <2>5. PlanIsInvolved'
    BY <2>1 DEF ReportInv, PlanIsInvolved, Planned
  <2>6. QED
    BY <2>1, <2>4, <2>5, FiguresStay DEF ReportInv, RecordsInScope, DiscoveryIsUnion
<1>3. QED
  BY <1>1, <1>2

\* The retrieval keeps it: what the filters leave is what the scopes admit.
LEMMA RetrieveKeeps == ReportInv /\ Retrieve => ReportInv'
<1> SUFFICES ASSUME ReportInv, Retrieve PROVE ReportInv'
  OBVIOUS
<1> DEFINE query(p) == CHOOSE q \in plan : q.part = p
           parts == {q.part : q \in plan}
<1>1. CASE Refuse
  BY <1>1, RefuseKeeps
<1>2. CASE ~Refuse
  <2>1. /\ stage = "scoped" /\ stage' = "retrieved" /\ ask' = ask /\ plan' = plan /\ filters' = filters
        /\ raw' = [p \in parts |-> Realigned(ask, query(p), Retrieved(ask, query(p), filters))]
    BY <1>2 DEF Retrieve
  <2>2. \A q \in plan : q.scenario \in InvolvedIn(ask)
    BY <2>1 DEF ReportInv, PlanIsInvolved, ScopeChecked
  <2>3. InvolvedIn(ask) \subseteq DOMAIN ask.scope
    BY <2>1 DEF ReportInv, PlanIsInvolved, Planned, GateCloses
  <2>4. \A s \in Scopes(ask) : /\ filters = Effective(s, ResolveFilters(ask.filters))
                               /\ s.open \/ ask.domain \in s.admits \ s.bars
    BY <2>1 DEF ReportInv, FiltersAreShared, ScopeChecked
  <2>5. ASSUME NEW p \in parts, NEW f \in Reached(ask, query(p), filters)
        PROVE  f.scenario \in DOMAIN ask.scope /\ Admitted(ask.scope[f.scenario], f)
    <3>1. query(p) \in plan
      OBVIOUS
    <3>2. f.domain = ask.domain /\ f.scenario = query(p).scenario /\ \A d \in DOMAIN filters : f[d] \in filters[d]
      BY DEF Reached, Rows
    <3> HIDE DEF query
    <3>3. f.scenario \in InvolvedIn(ask)
      BY <2>2, <3>1, <3>2
    <3> DEFINE s == ask.scope[f.scenario]
    <3>4. s \in Scopes(ask)
      BY <3>3 DEF Scopes
    <3> HIDE DEF s
    <3>5. Admitted(s, f)
      BY <2>4, <3>2, <3>4, LeftIsAdmitted
    <3>6. QED
      BY <2>3, <3>3, <3>5 DEF s
  <2>6. ASSUME NEW p \in DOMAIN raw', NEW k \in DOMAIN raw'[p], NEW m \in DOMAIN raw'[p][k],
               NEW f \in Behind(raw'[p][k][m])
        PROVE  f.scenario \in DOMAIN ask.scope /\ Admitted(ask.scope[f.scenario], f)
    <3> DEFINE t == Realigned(ask, query(p), Retrieved(ask, query(p), filters))
               R == Reached(ask, query(p), filters)
    <3>1. p \in parts /\ raw'[p] = t
      BY <2>1
    <3> HIDE DEF parts, query
    <3>2. Within(t, R)
      BY RetrievedWithin, RealignedWithin
    <3>3. f \in R
      <4> HIDE DEF t, R
      <4>1. QED
        BY <3>1, <3>2 DEF Within
    <3>4. QED
      BY <2>5, <3>1, <3>3
  <2>7. NothingOutOfScope' /\ OnlyReadable'
    <3>1. \A p \in DOMAIN raw' : \A k \in DOMAIN raw'[p] : \A m \in DOMAIN raw'[p][k] :
             \A f \in Behind(raw'[p][k][m]) :
                f.scenario \in DOMAIN ask.scope /\ Admitted(ask.scope[f.scenario], f)
      BY <2>6
    <3>2. ask' = ask
      BY <2>1
    <3>3. NothingOutOfScope'
      BY <3>1, <3>2 DEF NothingOutOfScope
    <3>4. OnlyReadable'
      BY <3>1, <3>2 DEF OnlyReadable
    <3>5. QED
      BY <3>3, <3>4
  <2>8. PlanIsInvolved' /\ FiltersAreShared'
    BY <2>1 DEF ReportInv, PlanIsInvolved, FiltersAreShared, Planned, ScopeChecked
  <2>9. QED
    BY <2>1, <2>7, <2>8 DEF ReportInv, RecordsInScope, DiscoveryIsUnion
<1>3. QED
  BY <1>1, <1>2

\* The arithmetic and the formatting keep it.
LEMMA PresentKeeps == ReportInv /\ Present => ReportInv'
<1> SUFFICES ASSUME ReportInv, Present PROVE ReportInv'
  OBVIOUS
<1>1. /\ stage = "retrieved" /\ stage' \in {"failed", "answered"}
      /\ ask' = ask /\ plan' = plan /\ filters' = filters /\ raw' = raw
  BY DEF Present
<1>2. PlanIsInvolved' /\ FiltersAreShared'
  BY <1>1 DEF ReportInv, PlanIsInvolved, FiltersAreShared, Planned, ScopeChecked
<1>3. QED
  BY <1>1, <1>2, FiguresStay DEF ReportInv, RecordsInScope, DiscoveryIsUnion

\* The drill keeps it, although it builds its conditions a second time.
LEMMA DrillKeeps ==
    ASSUME ReportInv, NEW i \in DOMAIN ask.blocks, Drill(i)
    PROVE  ReportInv'
<1> DEFINE ref == Resolve(Registry, ask.blocks[i].key)
           id  == ref.base.id
           user == ResolveFilters(ask.filters)
           s   == ask.scope[id]
<1>1. /\ stage = "answered" /\ stage' = "drilled" /\ ref.node = "real"
      /\ ask' = ask /\ plan' = plan /\ filters' = filters /\ raw' = raw
      /\ records'[2] = Inspected(ask, id)
  BY DEF Drill
<1>2. id \in InvolvedIn(ask)
  <2>1. Dependencies(ref) = {id}
    BY <1>1 DEF Dependencies, Compares
  <2>2. id \in InvolvedBy(ask.blocks[i])
    BY <2>1 DEF InvolvedBy
  <2>3. QED
    BY <2>2 DEF InvolvedIn, BlocksOf
<1>3. id \in DOMAIN ask.scope /\ (s.open \/ ask.domain \in s.admits \ s.bars)
  <2>1. InvolvedIn(ask) \subseteq DOMAIN ask.scope
    BY <1>1 DEF ReportInv, PlanIsInvolved, Planned, GateCloses
  <2>2. s \in Scopes(ask)
    BY <1>2 DEF Scopes
  <2> HIDE DEF s, id, ref
  <2>3. s.open \/ ask.domain \in s.admits \ s.bars
    BY <1>1, <2>2 DEF ReportInv, FiltersAreShared, ScopeChecked
  <2>4. QED
    BY <1>2, <2>1, <2>3
<1> HIDE DEF id, ref, user
<1>4. ASSUME NEW f \in records'[2]
      PROVE  f.scenario = id /\ Admitted(s, f)
  <2>1. f.domain = ask.domain /\ f.scenario = id /\ \A d \in DOMAIN Effective(s, user) : f[d] \in Effective(s, user)[d]
    BY <1>1 DEF Inspected, user
  <2> HIDE DEF s
  <2>2. QED
    BY <1>3, <2>1, LeftIsAdmitted
<1>5. RecordsInScope'
  BY <1>1, <1>3, <1>4 DEF RecordsInScope
<1>6. PlanIsInvolved' /\ FiltersAreShared'
  BY <1>1 DEF ReportInv, PlanIsInvolved, FiltersAreShared, Planned, ScopeChecked
<1>7. QED
  BY <1>1, <1>5, <1>6, FiguresStay DEF ReportInv, DiscoveryIsUnion

\* Discovery keeps it.
LEMMA DiscoverKeeps == ReportInv /\ Discover => ReportInv'
<1> SUFFICES ASSUME ReportInv, Discover PROVE ReportInv'
  OBVIOUS
<1>1. stage' = "discovered" /\ ask' = ask /\ raw' = raw
  BY DEF Discover
<1>2. records'["cc"] = Discoverable(ask, "cc") /\ records'["client"] = Discoverable(ask, "client")
  BY DEF Discover
<1>3. DiscoveryIsUnion'
  <2>1. \A d \in DOMAIN Members : records'[d] = Discoverable(ask, d)
    BY <1>2, AsksAssumption
  <2>2. QED
    BY <1>1, <2>1, DiscoverableIsUnion DEF DiscoveryIsUnion
<1>4. QED
  BY <1>1, <1>3, FiguresStay
     DEF ReportInv, PlanIsInvolved, FiltersAreShared, Planned, ScopeChecked, RecordsInScope

\* A step elsewhere keeps it.
LEMMA NothingKeepsReport == ReportInv /\ UNCHANGED reportVars => ReportInv'
BY DEF reportVars, ReportInv, PlanIsInvolved, FiltersAreShared, Planned, ScopeChecked, NothingOutOfScope,
       OnlyReadable, RecordsInScope, DiscoveryIsUnion

\* Figures, records and discovery keep to the scopes (scope_enforcer.py): no
\* figure retrieved adds a fact that the caller's scope in the fact's own
\* scenario does not admit, whatever comparison, shift or fork brought the
\* scenario in; a drill returns only such facts; discovery lists exactly what
\* some readable scenario allows.
THEOREM ScopesAreKept == ReportSpec => [](ScopesHold /\ OnlyReadable /\ RecordsInScope)
<1>1. ReportInit => ReportInv
  BY ReportInvInit
<1>2. ReportInv /\ [ReportNext]_reportVars => ReportInv'
  BY PlanKeeps, ScopeKeeps, RetrieveKeeps, PresentKeeps, DrillKeeps, DiscoverKeeps, NothingKeepsReport
     DEF ReportNext, Done
<1>3. ReportInv => ScopesHold /\ OnlyReadable /\ RecordsInScope
  BY DEF ReportInv, ScopesHold
<1>4. QED
  BY <1>1, <1>2, <1>3, PTL DEF ReportSpec

\* A report that is shown, saved or extracted is a report: the sheets change
\* nothing of it (table_builder.py, worksheet.py, block_emit.py).
THEOREM TableImplementsReport == TableSpec => ReportSpec
<1>1. TableInit => ReportInit
  BY DEF TableInit
<1>2. [TableNext]_<<reportVars, sheets>> => [ReportNext]_reportVars
  BY DEF TableNext, Render, Save, Extract
<1>3. QED
  BY <1>1, <1>2, PTL DEF TableSpec, ReportSpec

\* The scopes hold for everything that is shown of a report.
THEOREM ShownScopesAreKept == TableSpec => [](ScopesHold /\ OnlyReadable /\ RecordsInScope)
BY TableImplementsReport, ScopesAreKept, PTL

-----------------------------------------------------------------------------
(* A metric that is no formula is the row's own figure.                    *)

\* The metrics, and what the formulas are made of.
LEMMA MetricNames ==
    /\ DOMAIN Rollup = {"flow", "billed", "mean", "stock"}
    /\ Metrics = {"flow", "billed", "mean", "stock", "ratio", "spread"}
    /\ Formula["ratio"] = <<"/", "flow", "stock">> /\ Formula["spread"] = <<"-", "ratio", "mean">>
    /\ Rollup["flow"] = "sum"
BY DEF Rollup, Formula, Metrics

\* The bases of a metric that is no formula are the metric.
LEMMA BasesAre ==
    /\ \A m \in DOMAIN Rollup : BaseOf[m] = {m}
    /\ BaseOf["ratio"] = {"flow", "stock"} /\ BaseOf["spread"] = {"flow", "stock", "mean"}
<1> DEFINE step(B, m) == IF m \in DOMAIN Rollup THEN {m} ELSE B[Formula[m][2]] \cup B[Formula[m][3]]
           W == [m \in Metrics |-> IF m \in DOMAIN Rollup THEN {m}
                                   ELSE IF m = "ratio" THEN {"flow", "stock"}
                                   ELSE {"flow", "stock", "mean"}]
<1>1. W["flow"] = {"flow"} /\ W["stock"] = {"stock"} /\ W["mean"] = {"mean"} /\ W["ratio"] = {"flow", "stock"}
  BY MetricNames
<1>2. \A m \in Metrics : W[m] = step(W, m)
  <2>1. \A m \in DOMAIN Rollup : m \in Metrics /\ W[m] = step(W, m)
    BY DEF Metrics
  <2>2. "ratio" \in Metrics /\ "ratio" \notin DOMAIN Rollup /\ "spread" \in Metrics /\ "spread" \notin DOMAIN Rollup
    BY MetricNames
  <2>3. W["ratio"] = {"flow", "stock"} /\ W["spread"] = {"flow", "stock", "mean"}
    BY <2>2, "ratio" # "spread"
  <2> HIDE DEF W
  <2>4. step(W, "ratio") = W["flow"] \cup W["stock"] /\ step(W, "spread") = W["ratio"] \cup W["mean"]
    BY <2>2, MetricNames
  <2>5. W["ratio"] = step(W, "ratio") /\ W["spread"] = step(W, "spread")
    BY <1>1, <2>3, <2>4
  <2>6. \A m \in Metrics : m \in DOMAIN Rollup \/ m = "ratio" \/ m = "spread"
    BY MetricNames
  <2> HIDE DEF step
  <2>7. QED
    BY <2>1, <2>5, <2>6
<1>3. W = [m \in Metrics |-> step(W, m)]
  <2>1. W = [m \in Metrics |-> W[m]]
    OBVIOUS
  <2> HIDE DEF W, step
  <2>2. [m \in Metrics |-> W[m]] = [m \in Metrics |-> step(W, m)]
    BY <1>2
  <2>3. QED
    BY <2>1, <2>2
<1>4. \E B : B = [m \in Metrics |-> step(B, m)]
  <2> HIDE DEF W, step
  <2>1. QED
    BY <1>3
<1>5. BaseOf = CHOOSE B : B = [m \in Metrics |-> step(B, m)]
  BY Zenon DEF BaseOf
<1>6. BaseOf = [m \in Metrics |-> step(BaseOf, m)]
  <2> HIDE DEF step
  <2>1. QED
    BY <1>4, <1>5
<1>7. \A m \in Metrics : BaseOf[m] = step(BaseOf, m)
  <2> HIDE DEF step
  <2>1. QED
    BY <1>6
<1>8. \A m \in DOMAIN Rollup : BaseOf[m] = {m}
  BY <1>7 DEF Metrics
<1>9. BaseOf["ratio"] = {"flow", "stock"}
  <2>1. BaseOf["ratio"] = BaseOf["flow"] \cup BaseOf["stock"]
    BY <1>7, MetricNames
  <2>2. BaseOf["flow"] = {"flow"} /\ BaseOf["stock"] = {"stock"}
    BY <1>8, MetricNames
  <2>3. QED
    BY <2>1, <2>2
<1>10. BaseOf["spread"] = {"flow", "stock", "mean"}
  <2>1. BaseOf["spread"] = BaseOf["ratio"] \cup BaseOf["mean"]
    BY <1>7, MetricNames
  <2>2. BaseOf["mean"] = {"mean"}
    BY <1>8, MetricNames
  <2>3. QED
    BY <1>9, <2>1, <2>2
<1>11. QED
  BY <1>8, <1>9, <1>10

\* A row has the metrics whose bases it has, each computed from the others.
LEMMA EvaluatedStep ==
    ASSUME NEW dict
    PROVE  /\ DOMAIN Evaluated(dict) = {n \in Metrics : BaseOf[n] \subseteq DOMAIN dict}
           /\ \A x \in DOMAIN Evaluated(dict) :
                Evaluated(dict)[x] =
                  IF x \in DOMAIN Rollup THEN dict[x]
                  ELSE Apply(Formula[x][1], Evaluated(dict)[Formula[x][2]], Evaluated(dict)[Formula[x][3]])
<1> DEFINE M == {n \in Metrics : BaseOf[n] \subseteq DOMAIN dict}
           step(v, m) == IF m \in DOMAIN Rollup THEN dict[m]
                         ELSE Apply(Formula[m][1], v[Formula[m][2]], v[Formula[m][3]])
           ratio == Apply("/", dict["flow"], dict["stock"])
           W == [m \in M |-> IF m \in DOMAIN Rollup THEN dict[m]
                             ELSE IF m = "ratio" THEN ratio ELSE Apply("-", ratio, dict["mean"])]
<1>1. \A m \in M : W[m] = step(W, m)
  <2>1. \A m \in M : m \in DOMAIN Rollup => W[m] = step(W, m)
    OBVIOUS
  <2>2. ASSUME "ratio" \in M PROVE W["ratio"] = step(W, "ratio") /\ W["ratio"] = ratio
    <3>1. {"flow", "stock"} \subseteq DOMAIN dict
      BY <2>2, BasesAre
    <3>2. "flow" \in M /\ "stock" \in M /\ "flow" \in DOMAIN Rollup /\ "stock" \in DOMAIN Rollup
      BY <3>1, BasesAre, MetricNames
    <3>3. W["flow"] = dict["flow"] /\ W["stock"] = dict["stock"]
      BY <3>2
    <3>4. "ratio" \notin DOMAIN Rollup
      BY MetricNames
    <3>5. W["ratio"] = ratio
      BY <2>2, <3>4
    <3> HIDE DEF W
    <3>6. step(W, "ratio") = Apply("/", W["flow"], W["stock"])
      BY <3>4, MetricNames
    <3>7. QED
      BY <3>3, <3>5, <3>6
  <2>3. ASSUME "spread" \in M PROVE W["spread"] = step(W, "spread")
    <3>1. {"flow", "stock", "mean"} \subseteq DOMAIN dict
      BY <2>3, BasesAre
    <3>2. "ratio" \in M /\ "mean" \in M /\ "mean" \in DOMAIN Rollup
      BY <3>1, BasesAre, MetricNames
    <3>3. W["ratio"] = ratio /\ W["mean"] = dict["mean"]
      BY <2>2, <3>2
    <3>4. "spread" \notin DOMAIN Rollup /\ "spread" # "ratio"
      BY MetricNames
    <3>5. W["spread"] = Apply("-", ratio, dict["mean"])
      BY <2>3, <3>4
    <3> HIDE DEF W, ratio
    <3>6. step(W, "spread") = Apply("-", W["ratio"], W["mean"])
      BY <3>4, MetricNames
    <3>7. QED
      BY <3>3, <3>5, <3>6
  <2>4. \A m \in M : m \in DOMAIN Rollup \/ m = "ratio" \/ m = "spread"
    BY MetricNames
  <2> HIDE DEF W, step, M
  <2>5. QED
    BY <2>1, <2>2, <2>3, <2>4
<1>2. W = [m \in M |-> step(W, m)]
  <2>1. W = [m \in M |-> W[m]]
    OBVIOUS
  <2> HIDE DEF W, step, M
  <2>2. [m \in M |-> W[m]] = [m \in M |-> step(W, m)]
    BY <1>1
  <2>3. QED
    BY <2>1, <2>2
<1> DEFINE E == CHOOSE v : v = [m \in M |-> step(v, m)]
<1>3. Evaluated(dict) = E
  BY Zenon DEF Evaluated
<1> HIDE DEF W, M
<1>4. E = [m \in M |-> step(E, m)]
  <2> HIDE DEF step
  <2>1. QED
    BY <1>2
<1>5. DOMAIN E = M /\ \A x \in M : E[x] = step(E, x)
  <2> HIDE DEF E, step
  <2>1. QED
    BY <1>4
<1> HIDE DEF E
<1>6. QED
  BY <1>3, <1>5 DEF M

\* Such a metric is shown as the row has it.
LEMMA EvaluatedIs ==
    ASSUME NEW dict, NEW x \in DOMAIN Rollup
    PROVE  /\ x \in DOMAIN Evaluated(dict) <=> x \in DOMAIN dict
           /\ x \in DOMAIN dict => Evaluated(dict)[x] = dict[x]
<1>1. x \in Metrics /\ BaseOf[x] = {x}
  BY BasesAre DEF Metrics
<1> DEFINE E == Evaluated(dict)
<1>2. DOMAIN E = {n \in Metrics : BaseOf[n] \subseteq DOMAIN dict}
      /\ (x \in DOMAIN E => E[x] = dict[x])
  BY EvaluatedStep
<1> HIDE DEF E
<1>3. x \in DOMAIN E <=> x \in DOMAIN dict
  BY <1>1, <1>2
<1>4. QED
  BY <1>2, <1>3 DEF E

\* The figure of a formula is computed from those of its inputs.
LEMMA FormulaFigures ==
    ASSUME NEW T, NEW k
    PROVE  /\ Figure(T, k, "ratio") = Apply("/", Figure(T, k, "flow"), Figure(T, k, "stock"))
           /\ Figure(T, k, "spread") = Apply("-", Figure(T, k, "ratio"), Figure(T, k, "mean"))
<1>1. \A op, x : Apply(op, x, None) = None /\ Apply(op, None, x) = None
  BY DEF Apply
<1>2. CASE k \notin DOMAIN T
  <2>1. \A m : Figure(T, k, m) = None
    BY <1>2 DEF Figure
  <2>2. QED
    BY <1>1, <2>1
<1>3. CASE k \in DOMAIN T
  <2> DEFINE E == Evaluated(T[k])
             d == DOMAIN T[k]
  <2>1. \A m : Figure(T, k, m) = IF m \in DOMAIN E THEN E[m] ELSE None
    BY <1>3 DEF Figure
  <2>2. DOMAIN E = {n \in Metrics : BaseOf[n] \subseteq d}
    BY EvaluatedStep
  <2>3. \A x \in DOMAIN E : x \notin DOMAIN Rollup => E[x] = Apply(Formula[x][1], E[Formula[x][2]], E[Formula[x][3]])
    BY EvaluatedStep
  <2> HIDE DEF E, d
  <2>4. /\ "flow" \in DOMAIN E <=> "flow" \in d
        /\ "stock" \in DOMAIN E <=> "stock" \in d
        /\ "mean" \in DOMAIN E <=> "mean" \in d
        /\ "ratio" \in DOMAIN E <=> "flow" \in d /\ "stock" \in d
        /\ "spread" \in DOMAIN E <=> "flow" \in d /\ "stock" \in d /\ "mean" \in d
    BY <2>2, BasesAre, MetricNames
  <2>5. "ratio" \in DOMAIN E => E["ratio"] = Apply("/", E["flow"], E["stock"])
    BY <2>3, MetricNames
  <2>6. "spread" \in DOMAIN E => E["spread"] = Apply("-", E["ratio"], E["mean"])
    BY <2>3, MetricNames
  <2>7. QED
    BY <1>1, <2>1, <2>4, <2>5, <2>6
<1>4. QED
  BY <1>2, <1>3

-----------------------------------------------------------------------------
(* What a row of a table adds.                                             *)

\* The metrics added up over a window.
Ranged == {"flow", "billed", "mean"}

\* The facts a query reads, on either backend.
Read(a, q, fs) ==
    IF Domains[a.domain].backend = "ibis"
    THEN {f \in Reached(a, q, fs) : TextInWindow(q, a.grain, f.month)}
    ELSE {f \in KeptRows(a, q, fs) : InWindow(a, q, f)}

\* The facts of a set in the row under a key.
Below(S, dims, k) == {f \in S : InGroup(f, dims, k)}

\* The figure of a metric over the facts of a row.
Worth(a, U, m) ==
    IF Rollup[m] = "avg" THEN Average(a, U) ELSE Sum({f \in U : Holds(m, f)})

\* A key names members of the dimensions of one grain asked for.
Spelled(dims, o) == o = [i \in DOMAIN dims |-> o[i]]
OfSomeGrain(a, k) ==
    /\ Spelled(a.dims, k)
    /\ \E j \in GroupingSets(a) : \A i \in DOMAIN a.dims : k[i] = Rolled <=> i > j

\* A table has a row's figure, and has it only where there are facts or a total.
Tells(T, a, S, k, m) ==
    LET U == Below(S, a.dims, k)
    IN IF U # {} \/ k = TotalKey(a.dims)
       THEN k \in DOMAIN T /\ m \in DOMAIN T[k] /\ T[k][m] = Worth(a, U, m)
       ELSE k \in DOMAIN T => m \notin DOMAIN T[k]

\* The dimensions of a breakdown are a list.
Listed(a) == Len(a.dims) \in Nat /\ DOMAIN a.dims = 1 .. Len(a.dims)

\* Those of a request are.
LEMMA DimsAreListed ==
    ASSUME NEW a \in Asks
    PROVE  Listed(a)
BY AsksAssumption DEF Listed

\* A grain is a number of leading dimensions.
LEMMA GrainsAre ==
    ASSUME NEW a, Listed(a)
    PROVE  GroupingSets(a) \subseteq 0 .. Len(a.dims)
<1>1. CASE Len(a.dims) = 0
  BY <1>1 DEF GroupingSets, Listed
<1>2. CASE Len(a.dims) # 0
  <2>1. \A j \in GroupingSets(a) : j = Len(a.dims) \/ j = 0 \/ j \in 1 .. Len(a.dims) - 1
    BY <1>2 DEF GroupingSets, Listed
  <2>2. QED
    BY <2>1 DEF Listed
<1>3. QED
  BY <1>1, <1>2

\* The total is asked for where it is of some grain.
LEMMA TotalIsAsked ==
    ASSUME NEW a, Listed(a), OfSomeGrain(a, TotalKey(a.dims))
    PROVE  0 \in GroupingSets(a)
<1>1. PICK j \in GroupingSets(a) : \A i \in DOMAIN a.dims : TotalKey(a.dims)[i] = Rolled <=> i > j
  BY DEF OfSomeGrain
<1>2. j \in 0 .. Len(a.dims)
  BY <1>1, GrainsAre
<1>3. \A i \in 1 .. Len(a.dims) : i > j
  BY <1>1 DEF TotalKey, Listed
<1>4. j = 0
  BY <1>2, <1>3 DEF Listed
<1>5. QED
  BY <1>1, <1>4

\* A row of a grain is the key of each of its facts.
LEMMA RowIsKey ==
    ASSUME NEW dims, NEW k, NEW f, NEW j, Spelled(dims, k), InGroup(f, dims, k),
           \A i \in DOMAIN dims : k[i] = Rolled <=> i > j, DOMAIN dims \subseteq Int, j \in Int
    PROVE  k = KeyAt(f, dims, j)
<1>1. \A i \in DOMAIN dims : k[i] = IF i <= j THEN ValueOf(f, dims[i]) ELSE Rolled
  BY DEF InGroup
<1>2. [i \in DOMAIN dims |-> k[i]] = KeyAt(f, dims, j)
  BY <1>1 DEF KeyAt
<1>3. QED
  BY <1>2 DEF Spelled

\* Facts are in the groups of their keys, and in the total.
LEMMA InOwnGroup ==
    ASSUME NEW dims, NEW f, NEW j
    PROVE  InGroup(f, dims, KeyAt(f, dims, j)) /\ InGroup(f, dims, TotalKey(dims))
BY DEF InGroup, KeyAt, TotalKey

\* A key of one grain.
AtGrain(a, k, j) == Spelled(a.dims, k) /\ \A i \in DOMAIN a.dims : k[i] = Rolled <=> i > j

\* The groups of some grains have the facts under the labels of one of them.
LEMMA GrainTells ==
    ASSUME NEW a, Listed(a), NEW S, NEW js \in SUBSET GroupingSets(a), NEW j \in js, NEW k, AtGrain(a, k, j)
    PROVE  LET G == Grouped(S, a.dims, js)
           IN /\ k \in DOMAIN G <=> Below(S, a.dims, k) # {} \/ k = TotalKey(a.dims)
              /\ k \in DOMAIN G => G[k] = Below(S, a.dims, k)
<1> DEFINE D == {KeyAt(f, a.dims, x) : f \in S, x \in js}
                   \cup (IF 0 \in js THEN {TotalKey(a.dims)} ELSE {})
           G == Grouped(S, a.dims, js)
<1>1. G = [x \in D |-> {f \in S : InGroup(f, a.dims, x)}]
  BY DEF Grouped
<1>2. j \in 0 .. Len(a.dims) /\ DOMAIN a.dims \subseteq Int /\ Spelled(a.dims, k)
      /\ \A i \in DOMAIN a.dims : k[i] = Rolled <=> i > j
  BY GrainsAre DEF AtGrain, Listed
<1>3. ASSUME NEW f \in S, InGroup(f, a.dims, k) PROVE k \in D
  <2>1. k = KeyAt(f, a.dims, j)
    BY <1>2, <1>3, RowIsKey
  <2>2. QED
    BY <2>1
<1>4. k = TotalKey(a.dims) => k \in D
  <2>1. SUFFICES ASSUME k = TotalKey(a.dims) PROVE 0 \in js
    OBVIOUS
  <2>2. \A i \in 1 .. Len(a.dims) : i > j
    BY <1>2, <2>1 DEF TotalKey, Listed
  <2>3. j = 0
    BY <1>2, <2>2 DEF Listed
  <2>4. QED
    BY <2>3
<1>5. ASSUME k \in D PROVE Below(S, a.dims, k) # {} \/ k = TotalKey(a.dims)
  <2>1. CASE \E f \in S, x \in js : k = KeyAt(f, a.dims, x)
    BY <2>1, InOwnGroup DEF Below
  <2>2. CASE k = TotalKey(a.dims)
    BY <2>2
  <2>3. QED
    BY <1>5, <2>1, <2>2
<1>6. \A f \in Below(S, a.dims, k) : f \in S /\ InGroup(f, a.dims, k)
  BY DEF Below
<1> HIDE DEF D
<1>7. DOMAIN G = D /\ (k \in D => G[k] = {f \in S : InGroup(f, a.dims, k)})
  BY <1>1
<1>8. k \in D <=> Below(S, a.dims, k) # {} \/ k = TotalKey(a.dims)
  BY <1>3, <1>4, <1>5, <1>6
<1> HIDE DEF G
<1>9. k \in DOMAIN G => G[k] = Below(S, a.dims, k)
  BY <1>7 DEF Below
<1>10. QED
  BY <1>7, <1>8, <1>9 DEF G

\* The groups of all grains have the facts under every label.
LEMMA GroupedTells ==
    ASSUME NEW a, Listed(a), NEW S, NEW k, OfSomeGrain(a, k)
    PROVE  LET G == Grouped(S, a.dims, GroupingSets(a))
           IN /\ k \in DOMAIN G <=> Below(S, a.dims, k) # {} \/ k = TotalKey(a.dims)
              /\ k \in DOMAIN G => G[k] = Below(S, a.dims, k)
<1>1. PICK j \in GroupingSets(a) : \A i \in DOMAIN a.dims : k[i] = Rolled <=> i > j
  BY DEF OfSomeGrain
<1>2. AtGrain(a, k, j)
  BY <1>1 DEF OfSomeGrain, AtGrain
<1> DEFINE js == GroupingSets(a)
<1>3. js \in SUBSET GroupingSets(a)
  OBVIOUS
<1>4. QED
  BY <1>1, <1>2, <1>3, GrainTells

\* A dictionary has the worth of each of its metrics.
LEMMA DictIs ==
    ASSUME NEW a, NEW S, NEW range, NEW closing, NEW m \in range \cup closing
    PROVE  m \in DOMAIN Dict(a, S, range, closing) /\ Dict(a, S, range, closing)[m] = Worth(a, S, m)
BY DEF Dict, Worth

\* Such a metric is read over the window, and is no closing balance.
LEMMA RangedAre ==
    ASSUME NEW a, NEW m \in Ranged \cap BaseMetrics(a)
    PROVE  m \in RangeMetrics(a) /\ m \notin ClosingMetrics(a)
<1>1. Rollup["flow"] = "sum" /\ Rollup["billed"] = "sum" /\ Rollup["mean"] = "avg"
  BY DEF Rollup
<1>2. Rollup[m] # "closing"
  BY <1>1 DEF Ranged
<1>3. QED
  BY <1>2 DEF RangeMetrics, ClosingMetrics

\* Where one table has a metric, the merged one tells what it does.
LEMMA MergedTells ==
    ASSUME NEW tables, NEW t \in tables, NEW a, NEW S, NEW k, NEW m, Tells(t, a, S, k, m),
           \A u \in tables : u # t /\ k \in DOMAIN u => m \notin DOMAIN u[k]
    PROVE  Tells(Merged(tables), a, S, k, m)
<1> DEFINE T == Merged(tables)
           K == UNION {DOMAIN u : u \in tables}
           D == {u[k] : u \in {v \in tables : k \in DOMAIN v}}
<1>1. DOMAIN T = K
  BY DEF Merged
<1>2. k \in K => T[k] = [x \in UNION {DOMAIN d : d \in D} |-> (CHOOSE d \in D : x \in DOMAIN d)[x]]
  BY DEF Merged
<1>3. \A d \in D : m \in DOMAIN d => k \in DOMAIN t /\ d = t[k]
  OBVIOUS
<1>4. k \in DOMAIN t => k \in K /\ t[k] \in D
  OBVIOUS
<1> HIDE DEF D, K, T
<1>5. ASSUME k \in DOMAIN t, m \in DOMAIN t[k]
      PROVE  k \in DOMAIN T /\ m \in DOMAIN T[k] /\ T[k][m] = t[k][m]
  <2>1. (CHOOSE d \in D : m \in DOMAIN d) = t[k]
    BY <1>3, <1>4, <1>5
  <2>2. m \in UNION {DOMAIN d : d \in D}
    BY <1>4, <1>5
  <2>3. QED
    BY <1>1, <1>2, <1>4, <1>5, <2>1, <2>2
<1>6. ASSUME k \in DOMAIN T, m \in DOMAIN T[k]
      PROVE  k \in DOMAIN t /\ m \in DOMAIN t[k]
  <2>1. PICK d \in D : m \in DOMAIN d
    BY <1>1, <1>2, <1>6
  <2>2. QED
    BY <1>3, <2>1
<1>7. Tells(T, a, S, k, m)
  BY <1>5, <1>6 DEF Tells
<1>8. QED
  BY <1>7 DEF T

\* No table of closing balances has another metric.
LEMMA ClosingIsApart ==
    ASSUME NEW a, NEW groups, NEW m, m \notin ClosingMetrics(a)
    PROVE  \A x \in DOMAIN Dicts(a, groups, ClosingMetrics(a)) :
              m \notin DOMAIN Dicts(a, groups, ClosingMetrics(a))[x]
BY DEF Dicts, Dict

\* In ClickHouse a row adds the facts under its label.
LEMMA ClickHouseTells ==
    ASSUME NEW a, Listed(a), NEW q, NEW fs, NEW m \in Ranged \cap BaseMetrics(a), NEW k, OfSomeGrain(a, k)
    PROVE  Tells(Merged(ClickHouse(a, q, fs)), a, {f \in KeptRows(a, q, fs) : InWindow(a, q, f)}, k, m)
<1> DEFINE prefixes == GroupingSets(a)
           native   == Domains[a.domain].native
           single   == native \in Range(a.dims)
           groups   == TimeGroups(a)
           timeDims == groups \cup (IF single THEN {native} ELSE {})
           isLive(j) == \A i \in DOMAIN a.dims : a.dims[i] \in timeDims => i <= j
           live     == {j \in prefixes : isLive(j)}
           S == {f \in KeptRows(a, q, fs) : InWindow(a, q, f)}
           closing  == {f \in KeptRows(a, q, fs) :
                          IF single THEN InWindow(a, q, f) ELSE IsClosing(a, q, f, groups)}
           G == Grouped(S, a.dims, prefixes)
           t == Dicts(a, G, RangeMetrics(a))
           u == Dicts(a, Grouped(closing, a.dims, live), ClosingMetrics(a))
           w == Dicts(a, ClosingTotals(a, q, fs, timeDims, prefixes \ live), ClosingMetrics(a))
           C == ClickHouse(a, q, fs)
<1>1. C = {t : x \in RangeMetrics(a)}
           \cup {u : x \in {y \in ClosingMetrics(a) : live # {}}}
           \cup {w : x \in {y \in ClosingMetrics(a) : prefixes # live}}
  BY Zenon DEF ClickHouse
<1>2. m \in RangeMetrics(a) /\ m \notin ClosingMetrics(a)
  BY RangedAre
<1>3. /\ \A x \in DOMAIN u : m \notin DOMAIN u[x]
      /\ \A x \in DOMAIN w : m \notin DOMAIN w[x]
  <2> HIDE DEF closing, live, timeDims, prefixes
  <2>1. QED
    BY <1>2, ClosingIsApart
<1>4. /\ k \in DOMAIN G <=> Below(S, a.dims, k) # {} \/ k = TotalKey(a.dims)
      /\ k \in DOMAIN G => G[k] = Below(S, a.dims, k)
  <2> HIDE DEF S
  <2>1. QED
    BY GroupedTells
<1> HIDE DEF u, w, G, S
<1>5. Tells(t, a, S, k, m)
  <2>1. DOMAIN t = DOMAIN G /\ (k \in DOMAIN G => t[k] = Dict(a, G[k], RangeMetrics(a), {}))
    BY DEF Dicts
  <2>2. k \in DOMAIN G => m \in DOMAIN t[k] /\ t[k][m] = Worth(a, Below(S, a.dims, k), m)
    BY <1>2, <1>4, <2>1, DictIs
  <2> HIDE DEF t
  <2>3. QED
    BY <1>4, <2>1, <2>2 DEF Tells
<1> HIDE DEF t, C, live, prefixes
<1>6. t \in C /\ \A v \in C : v # t => v = u \/ v = w
  BY <1>1, <1>2
<1>7. \A v \in C : v # t => \A x \in DOMAIN v : m \notin DOMAIN v[x]
  BY <1>3, <1>6
<1>8. Tells(Merged(C), a, S, k, m)
  BY <1>5, <1>6, <1>7, MergedTells
<1>9. QED
  BY <1>8 DEF C, S

\* The detail rows below a row are its facts.
LEMMA RolledUpIsBelow ==
    ASSUME NEW a, Listed(a), NEW S, NEW k
    PROVE  LET detail == Grouped(S, a.dims, {Len(a.dims)})
               below == {e \in DOMAIN detail : \A i \in DOMAIN a.dims : k[i] # Rolled => e[i] = k[i]}
           IN UNION {detail[d] : d \in below} = Below(S, a.dims, k)
<1> DEFINE n == Len(a.dims)
           D == {KeyAt(f, a.dims, j) : f \in S, j \in {n}} \cup (IF 0 \in {n} THEN {TotalKey(a.dims)} ELSE {})
           detail == Grouped(S, a.dims, {n})
           below == {e \in DOMAIN detail : \A i \in DOMAIN a.dims : k[i] # Rolled => e[i] = k[i]}
<1>1. detail = [x \in D |-> {f \in S : InGroup(f, a.dims, x)}]
  BY DEF Grouped
<1>2. \A f \in S : KeyAt(f, a.dims, n) \in D
  OBVIOUS
<1> HIDE DEF D
<1>3. DOMAIN detail = D /\ \A x \in D : detail[x] = {f \in S : InGroup(f, a.dims, x)}
  BY <1>1
<1> HIDE DEF detail
<1>4. ASSUME NEW e \in below, NEW f \in detail[e] PROVE f \in Below(S, a.dims, k)
  <2>1. f \in S /\ InGroup(f, a.dims, e) /\ \A i \in DOMAIN a.dims : k[i] # Rolled => e[i] = k[i]
    BY <1>3, <1>4
  <2>2. InGroup(f, a.dims, k)
    BY <2>1 DEF InGroup
  <2>3. QED
    BY <2>1, <2>2 DEF Below
<1>5. ASSUME NEW f \in Below(S, a.dims, k) PROVE \E e \in below : f \in detail[e]
  <2> DEFINE e == KeyAt(f, a.dims, n)
  <2>1. f \in S /\ InGroup(f, a.dims, k)
    BY DEF Below
  <2>2. InGroup(f, a.dims, e)
    BY InOwnGroup
  <2>3. \A i \in DOMAIN a.dims : e[i] = ValueOf(f, a.dims[i])
    BY DEF KeyAt, Listed
  <2>4. e \in D
    BY <1>2, <2>1
  <2> HIDE DEF e
  <2>5. \A i \in DOMAIN a.dims : k[i] # Rolled => e[i] = k[i]
    BY <2>1, <2>3 DEF InGroup
  <2>6. QED
    BY <1>3, <2>1, <2>2, <2>4, <2>5
<1> HIDE DEF below
<1>6. UNION {detail[d] : d \in below} = Below(S, a.dims, k)
  <2>1. \A f : f \in UNION {detail[d] : d \in below} <=> \E e \in below : f \in detail[e]
    OBVIOUS
  <2>2. QED
    BY <1>4, <1>5, <2>1
<1>7. QED
  BY <1>6 DEF below, detail

\* On the federated backend a row does too, although it is rolled up.
LEMMA FederatedTells ==
    ASSUME NEW a, Listed(a), NEW q, NEW fs, NEW m \in BaseMetrics(a), NEW k, OfSomeGrain(a, k)
    PROVE  Tells(Merged(Federated(a, q, fs)), a,
                 {f \in Reached(a, q, fs) : TextInWindow(q, a.grain, f.month)}, k, m)
<1> DEFINE S0 == {f \in Rows(a, q) : (\A d \in DOMAIN fs : f[d] \in fs[d])
                                       /\ TextInWindow(q, a.grain, f.month)}
           S == {f \in Reached(a, q, fs) : TextInWindow(q, a.grain, f.month)}
           G == Grouped(S, a.dims, GroupingSets(a))
           t == [x \in DOMAIN G |-> Dict(a, Below(S, a.dims, x), BaseMetrics(a), {})]
           C == Federated(a, q, fs)
<1>1. S = S0
  BY DEF Reached
<1>2. C = {t}
  <2> DEFINE det(U) == Grouped(U, a.dims, {Len(a.dims)})
             up(U, x) == UNION {det(U)[d] : d \in {e \in DOMAIN det(U) :
                                  \A i \in DOMAIN a.dims : x[i] # Rolled => e[i] = x[i]}}
             X(U) == [x \in DOMAIN Grouped(U, a.dims, GroupingSets(a)) |->
                        Dict(a, up(U, x), BaseMetrics(a), {})]
  <2>1. C = {X(S0)}
    BY Zenon DEF Federated
  <2>2. \A x : up(S, x) = Below(S, a.dims, x)
    <3> HIDE DEF S
    <3>1. QED
      BY RolledUpIsBelow
  <2>3. X(S) = t
    <3> HIDE DEF up, S
    <3>1. QED
      BY <2>2
  <2> HIDE DEF X, t, S, S0, C
  <2>4. QED
    BY <1>1, <2>1, <2>3
<1>3. k \in DOMAIN G <=> Below(S, a.dims, k) # {} \/ k = TotalKey(a.dims)
  <2> HIDE DEF S
  <2>1. QED
    BY GroupedTells
<1> HIDE DEF G, S, C
<1>4. DOMAIN t = DOMAIN G /\ (k \in DOMAIN G => t[k] = Dict(a, Below(S, a.dims, k), BaseMetrics(a), {}))
  OBVIOUS
<1>5. k \in DOMAIN G => m \in DOMAIN t[k] /\ t[k][m] = Worth(a, Below(S, a.dims, k), m)
  BY <1>4, DictIs
<1> HIDE DEF t
<1>6. Tells(t, a, S, k, m)
  BY <1>3, <1>4, <1>5 DEF Tells
<1>7. Tells(Merged(C), a, S, k, m)
  <2>1. t \in C /\ \A u \in C : u = t
    BY <1>2
  <2>2. QED
    BY <1>6, <2>1, MergedTells
<1>8. QED
  BY <1>7 DEF C, S

\* What is retrieved tells what is read, on either backend.
LEMMA RetrievedTells ==
    ASSUME NEW a, Listed(a), NEW q, NEW fs, NEW m \in Ranged \cap BaseMetrics(a), NEW k, OfSomeGrain(a, k),
           "tree" \notin Range(a.dims)
    PROVE  Tells(Retrieved(a, q, fs), a, Read(a, q, fs), k, m)
<1>1. CASE Domains[a.domain].backend = "ibis"
  <2>1. Retrieved(a, q, fs) = Merged(Federated(a, q, fs))
        /\ Read(a, q, fs) = {f \in Reached(a, q, fs) : TextInWindow(q, a.grain, f.month)}
    BY <1>1, Zenon DEF Retrieved, Read
  <2>2. QED
    BY <2>1, FederatedTells
<1>2. CASE Domains[a.domain].backend # "ibis"
  <2>1. Retrieved(a, q, fs) = Merged(ClickHouse(a, q, fs))
        /\ Read(a, q, fs) = {f \in KeptRows(a, q, fs) : InWindow(a, q, f)}
    BY <1>2 DEF Retrieved, Read
  <2>2. QED
    BY <2>1, ClickHouseTells
<1>3. QED
  BY <1>1, <1>2

-----------------------------------------------------------------------------
(* The keys of a table.                                                    *)

\* Facts whose periods can be moved: any, but for weeks moved by the calendar.
Movable(q) == {f \in Facts : q.calendar => f.week \in Preceding(q.from, q.to)}

\* The members in a key are those of facts that can be moved.
MadeOf(dims, W, o) ==
    /\ Spelled(dims, o)
    /\ \A i \in DOMAIN dims : o[i] = Rolled \/ \E f \in W : o[i] = ValueOf(f, dims[i])

\* The keys of facts that can be moved are made of them.
LEMMA KeysAreMade ==
    ASSUME NEW dims, NEW W, NEW f \in W, NEW j
    PROVE  MadeOf(dims, W, KeyAt(f, dims, j)) /\ MadeOf(dims, W, TotalKey(dims))
<1>1. Spelled(dims, KeyAt(f, dims, j)) /\ Spelled(dims, TotalKey(dims))
  BY DEF Spelled, KeyAt, TotalKey
<1>2. \A i \in DOMAIN dims : TotalKey(dims)[i] = Rolled
  BY DEF TotalKey
<1>3. \A i \in DOMAIN dims : KeyAt(f, dims, j)[i] \in {Rolled, ValueOf(f, dims[i])}
  BY DEF KeyAt
<1>4. QED
  BY <1>1, <1>2, <1>3 DEF MadeOf

\* So is the total, of none.
LEMMA TotalIsMade ==
    ASSUME NEW dims, NEW W
    PROVE  MadeOf(dims, W, TotalKey(dims))
BY DEF MadeOf, Spelled, TotalKey

\* The keys of groups are those of facts, or the total.
LEMMA GroupedNames ==
    ASSUME NEW S, NEW dims, NEW prefixes, NEW o \in DOMAIN Grouped(S, dims, prefixes)
    PROVE  (0 \in prefixes /\ o = TotalKey(dims)) \/ \E f \in S, j \in prefixes : o = KeyAt(f, dims, j)
BY DEF Grouped

\* The keys of groups of facts that can be moved are made of them.
LEMMA GroupedKeys ==
    ASSUME NEW W, NEW S \in SUBSET W, NEW dims, NEW prefixes, NEW o \in DOMAIN Grouped(S, dims, prefixes)
    PROVE  MadeOf(dims, W, o)
<1>1. (0 \in prefixes /\ o = TotalKey(dims)) \/ \E f \in S, j \in prefixes : o = KeyAt(f, dims, j)
  BY GroupedNames
<1>2. QED
  BY <1>1, KeysAreMade, TotalIsMade

\* So are the keys of closing balances.
LEMMA ClosingKeys ==
    ASSUME NEW a, NEW q, NEW fs, NEW timeDims, NEW js, NEW o \in DOMAIN ClosingTotals(a, q, fs, timeDims, js),
           NEW W, \A f \in KeptRows(a, q, fs) : IsClosing(a, q, f, {}) => f \in W
    PROVE  MadeOf(a.dims, W, o)
<1> DEFINE S == {f \in KeptRows(a, q, fs) : IsClosing(a, q, f, {})}
           live(j) == {i \in 1 .. j : a.dims[i] \notin timeDims}
           key(f, j) == [i \in DOMAIN a.dims |->
                           IF i \in live(j) THEN ValueOf(f, a.dims[i]) ELSE Rolled]
<1>1. DOMAIN ClosingTotals(a, q, fs, timeDims, js) =
        {key(f, j) : f \in S, j \in js} \cup (IF \E j \in js : live(j) = {} THEN {TotalKey(a.dims)} ELSE {})
  BY DEF ClosingTotals
<1>2. ASSUME NEW f \in S, NEW j PROVE MadeOf(a.dims, W, key(f, j))
  <2>1. Spelled(a.dims, key(f, j))
    BY DEF Spelled
  <2>2. \A i \in DOMAIN a.dims : key(f, j)[i] \in {Rolled, ValueOf(f, a.dims[i])}
    OBVIOUS
  <2>3. f \in W
    OBVIOUS
  <2> HIDE DEF key
  <2>4. QED
    BY <2>1, <2>2, <2>3 DEF MadeOf
<1> HIDE DEF key, S
<1>3. (\E f \in S, j \in js : o = key(f, j)) \/ o = TotalKey(a.dims)
  BY <1>1
<1>4. QED
  BY <1>2, <1>3, TotalIsMade

\* Where no total is asked for, the first dimension of a key names something.
LEMMA NamedKeys ==
    ASSUME NEW a, Listed(a), a.grains.subtotals => a.grains.total, 0 \notin GroupingSets(a)
    PROVE  /\ Len(a.dims) >= 1 /\ \A j \in GroupingSets(a) : j = Len(a.dims)
           /\ \A f : KeyAt(f, a.dims, Len(a.dims))[1] # Rolled
<1>1. Len(a.dims) >= 1 /\ \A j \in GroupingSets(a) : j = Len(a.dims)
  BY DEF GroupingSets, Listed
<1>2. \A f : KeyAt(f, a.dims, Len(a.dims))[1] = ValueOf(f, a.dims[1])
  BY <1>1 DEF KeyAt, Listed
<1>3. \A f, d : ValueOf(f, d) # Rolled
  BY DEF ValueOf, Rolled
<1>4. QED
  BY <1>1, <1>2, <1>3

\* The keys of every ClickHouse table, and where no total is asked for.
LEMMA ClickHouseKeys ==
    ASSUME NEW a, NEW q, NEW fs, Listed(a), a.grains.subtotals => a.grains.total,
           NEW t \in ClickHouse(a, q, fs), NEW o \in DOMAIN t
    PROVE  MadeOf(a.dims, Movable(q), o) /\ (0 \in GroupingSets(a) \/ o[1] # Rolled)
<1> DEFINE prefixes == GroupingSets(a)
           native   == Domains[a.domain].native
           single   == native \in Range(a.dims)
           groups   == TimeGroups(a)
           timeDims == groups \cup (IF single THEN {native} ELSE {})
           isLive(j) == \A i \in DOMAIN a.dims : a.dims[i] \in timeDims => i <= j
           live     == {j \in prefixes : isLive(j)}
           inRange  == {f \in KeptRows(a, q, fs) : InWindow(a, q, f)}
           closing  == {f \in KeptRows(a, q, fs) :
                          IF single THEN InWindow(a, q, f) ELSE IsClosing(a, q, f, groups)}
           G == Grouped(inRange, a.dims, prefixes)
           H == Grouped(closing, a.dims, live)
           I == ClosingTotals(a, q, fs, timeDims, prefixes \ live)
<1>1. ClickHouse(a, q, fs) =
         {Dicts(a, G, RangeMetrics(a)) : x \in RangeMetrics(a)}
         \cup {Dicts(a, H, ClosingMetrics(a)) : x \in {m \in ClosingMetrics(a) : live # {}}}
         \cup {Dicts(a, I, ClosingMetrics(a)) : x \in {m \in ClosingMetrics(a) : prefixes # live}}
  BY Zenon DEF ClickHouse
<1>2. live \in SUBSET prefixes /\ prefixes \in SUBSET prefixes
  OBVIOUS
<1>3. 0 \notin prefixes => prefixes = live
  <2>1. SUFFICES ASSUME 0 \notin prefixes PROVE \A j \in prefixes : isLive(j)
    OBVIOUS
  <2>2. \A j \in prefixes : j = Len(a.dims)
    BY <2>1, NamedKeys
  <2> HIDE DEF timeDims, prefixes
  <2>3. QED
    BY <2>2 DEF Listed
<1>4. \A f \in KeptRows(a, q, fs) : InWindow(a, q, f) => f \in Movable(q)
  BY DEF KeptRows, Rows, InWindow, Movable
<1>5. \A f \in KeptRows(a, q, fs) : \A g : IsClosing(a, q, f, g) => f \in Movable(q)
  <2>1. \A f, g : q.calendar /\ IsClosing(a, q, f, g) => InWindow(a, q, f)
    BY DEF IsClosing
  <2>2. \A f \in KeptRows(a, q, fs) : ~q.calendar => f \in Movable(q)
    BY DEF KeptRows, Rows, Movable
  <2> HIDE DEF Movable
  <2>3. QED
    BY <1>4, <2>1, <2>2
<1>6. inRange \in SUBSET Movable(q) /\ closing \in SUBSET Movable(q)
  <2> HIDE DEF Movable
  <2>1. QED
    BY <1>4, <1>5
<1> HIDE DEF live, timeDims, inRange, closing, G, H, I
<1>7. \/ t = Dicts(a, G, RangeMetrics(a)) \/ t = Dicts(a, H, ClosingMetrics(a))
      \/ t = Dicts(a, I, ClosingMetrics(a)) /\ prefixes # live
  BY <1>1
<1>8. DOMAIN Dicts(a, G, RangeMetrics(a)) = DOMAIN G /\ DOMAIN Dicts(a, H, ClosingMetrics(a)) = DOMAIN H
      /\ DOMAIN Dicts(a, I, ClosingMetrics(a)) = DOMAIN I
  BY DEF Dicts
<1>9. o \in DOMAIN G \/ o \in DOMAIN H \/ (o \in DOMAIN I /\ prefixes # live)
  BY <1>7, <1>8
<1>10. ASSUME NEW S \in SUBSET Movable(q), NEW js \in SUBSET prefixes, o \in DOMAIN Grouped(S, a.dims, js)
      PROVE  MadeOf(a.dims, Movable(q), o) /\ (0 \in prefixes \/ o[1] # Rolled)
  <2>1. MadeOf(a.dims, Movable(q), o) /\ (0 \in js \/ \E f \in S, j \in js : o = KeyAt(f, a.dims, j))
    <3>1. MadeOf(a.dims, Movable(q), o)
      BY <1>10, GroupedKeys
    <3>2. (0 \in js /\ o = TotalKey(a.dims)) \/ \E f \in S, j \in js : o = KeyAt(f, a.dims, j)
      BY <1>10, GroupedNames
    <3>3. QED
      BY <3>1, <3>2
  <2>2. ASSUME 0 \notin prefixes PROVE o[1] # Rolled
    <3>1. PICK f \in S, j \in js : o = KeyAt(f, a.dims, j)
      BY <2>1, <2>2
    <3>2. j = Len(a.dims) /\ KeyAt(f, a.dims, Len(a.dims))[1] # Rolled
      BY <2>2, NamedKeys
    <3>3. QED
      BY <3>1, <3>2
  <2>3. QED
    BY <2>1, <2>2
<1>11. CASE o \in DOMAIN G
  BY <1>6, <1>10, <1>11 DEF G
<1>12. CASE o \in DOMAIN H
  BY <1>2, <1>6, <1>10, <1>12 DEF H
<1>13. CASE o \in DOMAIN I /\ prefixes # live
  <2>1. MadeOf(a.dims, Movable(q), o)
    BY <1>5, <1>13, ClosingKeys DEF I
  <2>2. QED
    BY <1>3, <1>13, <2>1
<1>14. QED
  BY <1>9, <1>11, <1>12, <1>13

\* The keys of the federated table.
LEMMA FederatedKeys ==
    ASSUME NEW a, NEW q, NEW fs, Listed(a), a.grains.subtotals => a.grains.total, NEW W, Facts \subseteq W,
           NEW t \in Federated(a, q, fs), NEW o \in DOMAIN t
    PROVE  MadeOf(a.dims, W, o) /\ (0 \in GroupingSets(a) \/ o[1] # Rolled)
<1> DEFINE S == {f \in Rows(a, q) : (\A d \in DOMAIN fs : f[d] \in fs[d])
                                      /\ TextInWindow(q, a.grain, f.month)}
           detail == Grouped(S, a.dims, {Len(a.dims)})
           rolled == Grouped(S, a.dims, GroupingSets(a))
           below(k) == {e \in DOMAIN detail : \A i \in DOMAIN a.dims : k[i] # Rolled => e[i] = k[i]}
<1>1. Federated(a, q, fs) = {[k \in DOMAIN rolled |->
                                Dict(a, UNION {detail[d] : d \in below(k)}, BaseMetrics(a), {})]}
  BY Zenon DEF Federated
<1>2. S \in SUBSET W
  BY DEF Rows
<1> HIDE DEF S, detail, rolled, below
<1>3. o \in DOMAIN rolled
  BY <1>1
<1>4. /\ MadeOf(a.dims, W, o)
      /\ 0 \in GroupingSets(a) \/ \E f \in S, j \in GroupingSets(a) : o = KeyAt(f, a.dims, j)
  <2>1. ASSUME NEW U \in SUBSET W, NEW js, o \in DOMAIN Grouped(U, a.dims, js)
        PROVE  MadeOf(a.dims, W, o) /\ (0 \in js \/ \E f \in U, j \in js : o = KeyAt(f, a.dims, j))
    <3>1. MadeOf(a.dims, W, o)
      BY <2>1, GroupedKeys
    <3>2. (0 \in js /\ o = TotalKey(a.dims)) \/ \E f \in U, j \in js : o = KeyAt(f, a.dims, j)
      BY <2>1, GroupedNames
    <3>3. QED
      BY <3>1, <3>2
  <2>2. o \in DOMAIN Grouped(S, a.dims, GroupingSets(a))
    BY <1>3 DEF rolled
  <2>3. QED
    BY <1>2, <2>1, <2>2
<1>5. ASSUME 0 \notin GroupingSets(a) PROVE o[1] # Rolled
  <2>1. PICK f \in S, j \in GroupingSets(a) : o = KeyAt(f, a.dims, j)
    BY <1>4, <1>5
  <2>2. j = Len(a.dims) /\ KeyAt(f, a.dims, Len(a.dims))[1] # Rolled
    BY <1>5, NamedKeys
  <2>3. QED
    BY <2>1, <2>2
<1>6. QED
  BY <1>4, <1>5

\* The keys of what is retrieved, on either backend.
LEMMA RetrievedKeys ==
    ASSUME NEW a, NEW q, NEW fs, Listed(a), a.grains.subtotals => a.grains.total, "tree" \notin Range(a.dims),
           Domains[a.domain].backend = "ibis" => ~q.calendar,
           NEW o \in DOMAIN Retrieved(a, q, fs)
    PROVE  MadeOf(a.dims, Movable(q), o) /\ (0 \in GroupingSets(a) \/ o[1] # Rolled)
<1>1. CASE Domains[a.domain].backend = "ibis"
  <2>1. Retrieved(a, q, fs) = Merged(Federated(a, q, fs))
    BY <1>1, Zenon DEF Retrieved
  <2>2. PICK t \in Federated(a, q, fs) : o \in DOMAIN t
    BY <2>1 DEF Merged
  <2>3. Facts \subseteq Movable(q)
    BY <1>1 DEF Movable
  <2>4. QED
    BY <2>2, <2>3, FederatedKeys
<1>2. CASE Domains[a.domain].backend # "ibis"
  <2>1. Retrieved(a, q, fs) = Merged(ClickHouse(a, q, fs))
    BY <1>2 DEF Retrieved
  <2>2. PICK t \in ClickHouse(a, q, fs) : o \in DOMAIN t
    BY <2>1 DEF Merged
  <2>3. QED
    BY <2>2, ClickHouseKeys
<1>3. QED
  BY <1>1, <1>2

-----------------------------------------------------------------------------
(* Balances.                                                               *)

\* Balances by the month: no other time is in the breakdown, and the month once.
Monthly(a) ==
    /\ Domains[a.domain].native = "period" /\ a.grain = "month"
    /\ \A i \in DOMAIN a.dims : a.dims[i] \in TimeDims => a.dims[i] = "period"
    /\ \A i, j \in DOMAIN a.dims : a.dims[i] = "period" /\ a.dims[j] = "period" => i = j

\* The facts at the end of the window, and in it.
Ends(a, q, fs) == {f \in KeptRows(a, q, fs) : f.month = q.to}
InRange(a, q, fs) == {f \in KeptRows(a, q, fs) : InWindow(a, q, f)}

\* The grains that keep the month, and what a balance adds in their rows: where
\* each is in a row of its own month, all of them.
LiveGrains(a) ==
    {j \in GroupingSets(a) : \A i \in DOMAIN a.dims : a.dims[i] = "period" => i <= j}
Balances(a, q, fs) ==
    IF "period" \in Range(a.dims) THEN InRange(a, q, fs) ELSE Ends(a, q, fs)

\* A grain that rolls the month up has no month to its left.
LEMMA RolledGrains ==
    ASSUME NEW a, Listed(a), Monthly(a), NEW j \in GroupingSets(a) \ LiveGrains(a)
    PROVE  /\ j \in 0 .. Len(a.dims)
           /\ \E i \in DOMAIN a.dims : a.dims[i] = "period" /\ i > j
           /\ \A i \in 1 .. j : a.dims[i] # "period"
<1>1. j \in 0 .. Len(a.dims)
  BY GrainsAre
<1>2. PICK x \in DOMAIN a.dims : a.dims[x] = "period" /\ ~(x <= j)
  BY DEF LiveGrains
<1>3. x > j
  BY <1>1, <1>2 DEF Listed
<1>4. ASSUME NEW i \in 1 .. j, a.dims[i] = "period" PROVE FALSE
  <2>1. i \in DOMAIN a.dims /\ i < x
    BY <1>1, <1>3, <1>4 DEF Listed
  <2>2. i = x
    BY <1>2, <1>4, <2>1 DEF Monthly
  <2>3. QED
    BY <2>1, <2>2, <1>1
<1>5. QED
  BY <1>1, <1>2, <1>3, <1>4

\* Rolled-up balances are grouped like the others, at the end of the window.
LEMMA ClosingTotalsAre ==
    ASSUME NEW a, Listed(a), Monthly(a), NEW q, ~q.calendar, NEW fs, NEW timeDims,
           \A i \in DOMAIN a.dims : a.dims[i] \in timeDims <=> a.dims[i] = "period"
    PROVE  ClosingTotals(a, q, fs, timeDims, GroupingSets(a) \ LiveGrains(a))
             = Grouped(Ends(a, q, fs), a.dims, GroupingSets(a) \ LiveGrains(a))
<1> DEFINE rolled == GroupingSets(a) \ LiveGrains(a)
           S == {f \in KeptRows(a, q, fs) : IsClosing(a, q, f, {})}
           at(j) == {i \in 1 .. j : a.dims[i] \notin timeDims}
           key(f, j) == [i \in DOMAIN a.dims |-> IF i \in at(j) THEN ValueOf(f, a.dims[i]) ELSE Rolled]
           total == IF \E j \in rolled : at(j) = {} THEN {TotalKey(a.dims)} ELSE {}
           total0 == IF 0 \in rolled THEN {TotalKey(a.dims)} ELSE {}
<1>1. ClosingTotals(a, q, fs, timeDims, rolled)
        = [k \in {key(f, j) : f \in S, j \in rolled} \cup total |-> {f \in S : InGroup(f, a.dims, k)}]
  BY DEF ClosingTotals
<1>2. S = Ends(a, q, fs)
  <2>1. NativeGrain(a) = "month"
    BY DEF NativeGrain, GrainOf, Monthly
  <2>2. \A f : IsClosing(a, q, f, {}) <=> f.month = q.to
    BY <2>1 DEF IsClosing, Monthly
  <2>3. QED
    BY <2>2 DEF Ends
<1>3. ASSUME NEW j \in rolled PROVE at(j) = 1 .. j
  <2>1. j \in 0 .. Len(a.dims) /\ \A i \in 1 .. j : a.dims[i] # "period"
    BY RolledGrains
  <2>2. \A i \in 1 .. j : i \in DOMAIN a.dims
    BY <2>1 DEF Listed
  <2>3. \A i \in 1 .. j : a.dims[i] \notin timeDims
    BY <2>1, <2>2
  <2>4. QED
    BY <2>3
<1>4. ASSUME NEW j \in rolled, NEW f PROVE key(f, j) = KeyAt(f, a.dims, j)
  <2>1. j \in 0 .. Len(a.dims)
    BY RolledGrains
  <2>2. \A i \in DOMAIN a.dims : i \in at(j) <=> i <= j
    BY <1>3, <2>1 DEF Listed
  <2> HIDE DEF at
  <2>3. QED
    BY <2>2 DEF KeyAt
<1>5. \A j \in rolled : at(j) = {} <=> j = 0
  <2>1. SUFFICES ASSUME NEW j \in rolled PROVE at(j) = {} <=> j = 0
    OBVIOUS
  <2>2. j \in 0 .. Len(a.dims) /\ at(j) = 1 .. j
    BY <1>3, RolledGrains
  <2> HIDE DEF at
  <2>3. j # 0 => 1 \in 1 .. j
    BY <2>2 DEF Listed
  <2>4. QED
    BY <2>2, <2>3
<1> HIDE DEF key, at, S, rolled
<1>6. total = total0
  BY <1>5
<1>7. {key(f, j) : f \in S, j \in rolled} = {KeyAt(f, a.dims, j) : f \in S, j \in rolled}
  BY <1>4
<1> DEFINE D == {key(f, j) : f \in S, j \in rolled} \cup total
           D0 == {KeyAt(f, a.dims, j) : f \in S, j \in rolled} \cup total0
<1>8. ClosingTotals(a, q, fs, timeDims, rolled) = [k \in D0 |-> {f \in S : InGroup(f, a.dims, k)}]
  <2>1. D = D0
    BY <1>6, <1>7
  <2>2. ClosingTotals(a, q, fs, timeDims, rolled) = [k \in D |-> {f \in S : InGroup(f, a.dims, k)}]
    BY <1>1
  <2> HIDE DEF D, D0
  <2>3. QED
    BY <2>1, <2>2
<1>9. QED
  BY <1>2, <1>8 DEF Grouped, rolled

\* What ClickHouse answers: the sums, the balances by the month and those rolled up.
LEMMA ClickHouseIs ==
    ASSUME NEW a, Listed(a), Monthly(a), NEW q, ~q.calendar, NEW fs
    PROVE  ClickHouse(a, q, fs) =
             {Dicts(a, Grouped(InRange(a, q, fs), a.dims, GroupingSets(a)), RangeMetrics(a)) : x \in RangeMetrics(a)}
             \cup {Dicts(a, Grouped(Balances(a, q, fs), a.dims, LiveGrains(a)), ClosingMetrics(a)) :
                     x \in {m \in ClosingMetrics(a) : LiveGrains(a) # {}}}
             \cup {Dicts(a, Grouped(Ends(a, q, fs), a.dims, GroupingSets(a) \ LiveGrains(a)), ClosingMetrics(a)) :
                     x \in {m \in ClosingMetrics(a) : GroupingSets(a) # LiveGrains(a)}}
<1> DEFINE prefixes == GroupingSets(a)
           native   == Domains[a.domain].native
           single   == native \in Range(a.dims)
           groups   == TimeGroups(a)
           timeDims == groups \cup (IF single THEN {native} ELSE {})
           isLive(j) == \A i \in DOMAIN a.dims : a.dims[i] \in timeDims => i <= j
           live     == {j \in prefixes : isLive(j)}
           inRange  == {f \in KeptRows(a, q, fs) : InWindow(a, q, f)}
           closing  == {f \in KeptRows(a, q, fs) :
                          IF single THEN InWindow(a, q, f) ELSE IsClosing(a, q, f, groups)}
<1>1. ClickHouse(a, q, fs) =
         {Dicts(a, Grouped(inRange, a.dims, prefixes), RangeMetrics(a)) : x \in RangeMetrics(a)}
         \cup {Dicts(a, Grouped(closing, a.dims, live), ClosingMetrics(a)) : x \in {m \in ClosingMetrics(a) : live # {}}}
         \cup {Dicts(a, ClosingTotals(a, q, fs, timeDims, prefixes \ live), ClosingMetrics(a)) :
                 x \in {m \in ClosingMetrics(a) : prefixes # live}}
  BY Zenon DEF ClickHouse
<1>2. native = "period" /\ a.grain = "month"
  BY DEF Monthly
<1>3. groups = {}
  <2>1. \A d \in Range(a.dims) \cap TimeDims : d = "period"
    BY DEF Range, Monthly
  <2>2. groups = (Range(a.dims) \cap TimeDims) \ {"period", "week"}
    BY <1>2 DEF TimeGroups
  <2> HIDE DEF groups
  <2>3. QED
    BY <2>1, <2>2
<1>4. \A i \in DOMAIN a.dims : a.dims[i] \in timeDims <=> a.dims[i] = "period"
  <2>1. \A i \in DOMAIN a.dims : a.dims[i] \in Range(a.dims)
    BY DEF Range
  <2> HIDE DEF groups, native
  <2>2. QED
    BY <1>2, <1>3, <2>1
<1>5. live = LiveGrains(a)
  <2> HIDE DEF timeDims
  <2>1. QED
    BY <1>4 DEF LiveGrains
<1>6. closing = Balances(a, q, fs)
  <2>1. NativeGrain(a) = "month"
    BY <1>2 DEF NativeGrain, GrainOf
  <2>2. \A f : IsClosing(a, q, f, {}) <=> f.month = q.to
    BY <1>2, <2>1 DEF IsClosing
  <2> HIDE DEF groups
  <2>3. CASE single
    BY <1>2, <2>3 DEF Balances, InRange
  <2>4. CASE ~single
    BY <1>2, <1>3, <2>2, <2>4 DEF Balances, Ends
  <2>5. QED
    BY <2>3, <2>4
<1>7. inRange = InRange(a, q, fs)
  BY DEF InRange
<1> HIDE DEF live, closing, inRange, timeDims
<1>8. ClosingTotals(a, q, fs, timeDims, prefixes \ LiveGrains(a)) = Grouped(Ends(a, q, fs), a.dims, prefixes \ LiveGrains(a))
  BY <1>4, ClosingTotalsAre
<1>9. QED
  BY <1>1, <1>5, <1>6, <1>7, <1>8

\* Is a row that of a month?
HasMonth(a, k) == \E i \in DOMAIN a.dims : a.dims[i] = "period" /\ k[i] # Rolled

\* The facts a figure adds those of its row of: a balance those at the end of the
\* window, unless the row is that of a month.
Added(a, q, fs, k, m) ==
    IF m = "stock" /\ ~HasMonth(a, k) THEN {f \in Read(a, q, fs) : f.month = q.to} ELSE Read(a, q, fs)

\* Where balances are asked for, they are by the month, from ClickHouse.
Even(a, q) ==
    ClosingMetrics(a) # {} =>
        /\ Domains[a.domain].backend # "ibis" /\ Monthly(a) /\ ~q.calendar
        /\ q.from \in Int /\ q.to \in Int /\ q.from <= q.to

\* What is read at the end of the window is all there is there.
LEMMA EndsAreRead ==
    ASSUME NEW a, NEW q, NEW fs, Monthly(a), Domains[a.domain].backend # "ibis", ~q.calendar,
           q.from \in Int, q.to \in Int, q.from <= q.to
    PROVE  Ends(a, q, fs) = {f \in Read(a, q, fs) : f.month = q.to} /\ InRange(a, q, fs) = Read(a, q, fs)
<1>1. \A f : InWindow(a, q, f) <=> f.month \in q.from .. q.to
  BY DEF InWindow, TimeOf, InGrain, Monthly
<1>2. Read(a, q, fs) = InRange(a, q, fs)
  BY DEF Read, InRange
<1>3. \A f : f.month = q.to => InWindow(a, q, f)
  BY <1>1
<1>4. \A f : f \in Ends(a, q, fs) <=> f \in KeptRows(a, q, fs) /\ f.month = q.to
  BY DEF Ends
<1>5. \A f : f \in InRange(a, q, fs) <=> f \in KeptRows(a, q, fs) /\ InWindow(a, q, f)
  BY DEF InRange
<1>6. Ends(a, q, fs) = {f \in InRange(a, q, fs) : f.month = q.to}
  BY <1>3, <1>4, <1>5
<1>7. QED
  BY <1>2, <1>6

\* A base metric is no formula.
LEMMA BasesAreNoFormulas ==
    ASSUME NEW a \in Asks
    PROVE  BaseMetrics(a) \subseteq {"flow", "billed", "mean", "stock"}
<1>1. \A m \in Range(a.metrics) : BaseOf[m] \subseteq {"flow", "billed", "mean", "stock"}
  <2>1. SUFFICES ASSUME NEW m \in Range(a.metrics) PROVE BaseOf[m] \subseteq {"flow", "billed", "mean", "stock"}
    OBVIOUS
  <2>2. m \in {"flow", "billed", "mean", "stock", "ratio", "spread"}
    BY AsksAssumption
  <2>3. m \in DOMAIN Rollup \/ m = "ratio" \/ m = "spread"
    BY <2>2, MetricNames
  <2>4. QED
    BY <2>3, BasesAre, MetricNames
<1>2. QED
  BY <1>1 DEF BaseMetrics

\* The months of the keys of grains that have it, and of those that roll it up.
LEMMA GrainsOfKeys ==
    ASSUME NEW a, Listed(a), NEW S, NEW o
    PROVE  /\ o \in DOMAIN Grouped(S, a.dims, LiveGrains(a)) =>
                \A i \in DOMAIN a.dims : a.dims[i] = "period" => o[i] # Rolled
           /\ Monthly(a) /\ o \in DOMAIN Grouped(S, a.dims, GroupingSets(a) \ LiveGrains(a)) =>
                \E i \in DOMAIN a.dims : a.dims[i] = "period" /\ o[i] = Rolled
<1>1. \A f, d : ValueOf(f, d) # Rolled
  BY DEF ValueOf, Rolled
<1>2. ASSUME NEW i \in DOMAIN a.dims, a.dims[i] = "period", o \in DOMAIN Grouped(S, a.dims, LiveGrains(a))
      PROVE  o[i] # Rolled
  <2>1. CASE 0 \in LiveGrains(a)
    <3>1. i <= 0
      BY <1>2, <2>1 DEF LiveGrains
    <3>2. QED
      BY <3>1 DEF Listed
  <2>2. CASE 0 \notin LiveGrains(a)
    <3> DEFINE js == LiveGrains(a)
    <3> HIDE DEF js
    <3>1. 0 \notin js /\ o \in DOMAIN Grouped(S, a.dims, js)
      BY <1>2, <2>2 DEF js
    <3>2. PICK f \in S, j \in js : o = KeyAt(f, a.dims, j)
      BY <3>1, GroupedNames
    <3>3. i <= j
      BY <1>2 DEF LiveGrains, js
    <3>4. o[i] = ValueOf(f, a.dims[i])
      BY <3>2, <3>3 DEF KeyAt
    <3>5. QED
      BY <1>1, <3>4
  <2>3. QED
    BY <2>1, <2>2
<1>3. ASSUME Monthly(a), o \in DOMAIN Grouped(S, a.dims, GroupingSets(a) \ LiveGrains(a))
      PROVE  \E i \in DOMAIN a.dims : a.dims[i] = "period" /\ o[i] = Rolled
  <2> DEFINE js == GroupingSets(a) \ LiveGrains(a)
  <2>1. \A j \in js : \E i \in DOMAIN a.dims : a.dims[i] = "period" /\ i > j /\ j \in 0 .. Len(a.dims)
    BY <1>3, RolledGrains
  <2> HIDE DEF js
  <2>2. (0 \in js /\ o = TotalKey(a.dims)) \/ \E f \in S, j \in js : o = KeyAt(f, a.dims, j)
    BY <1>3, GroupedNames DEF js
  <2>3. CASE 0 \in js /\ o = TotalKey(a.dims)
    BY <2>1, <2>3 DEF TotalKey
  <2>4. CASE \E f \in S, j \in js : o = KeyAt(f, a.dims, j)
    <3>1. PICK f \in S, j \in js : o = KeyAt(f, a.dims, j)
      BY <2>4
    <3>2. PICK i \in DOMAIN a.dims : a.dims[i] = "period" /\ i > j /\ j \in 0 .. Len(a.dims)
      BY <2>1
    <3>3. ~(i <= j)
      BY <3>2 DEF Listed
    <3>4. o[i] = Rolled
      BY <3>1, <3>3 DEF KeyAt
    <3>5. QED
      BY <3>2, <3>4
  <2>5. QED
    BY <2>2, <2>3, <2>4
<1>4. QED
  BY <1>2, <1>3

\* The groups of some grains, as a table of a metric.
LEMMA DictsTell ==
    ASSUME NEW a, Listed(a), NEW S, NEW js \in SUBSET GroupingSets(a), NEW j \in js, NEW k, AtGrain(a, k, j),
           NEW M, NEW m \in M
    PROVE  Tells(Dicts(a, Grouped(S, a.dims, js), M), a, S, k, m)
<1> DEFINE G == Grouped(S, a.dims, js)
           t == Dicts(a, G, M)
<1>1. /\ k \in DOMAIN G <=> Below(S, a.dims, k) # {} \/ k = TotalKey(a.dims)
      /\ k \in DOMAIN G => G[k] = Below(S, a.dims, k)
  BY GrainTells
<1> HIDE DEF G
<1>2. DOMAIN t = DOMAIN G /\ (k \in DOMAIN G => t[k] = Dict(a, G[k], M, {}))
  BY DEF Dicts
<1>3. k \in DOMAIN G => m \in DOMAIN t[k] /\ t[k][m] = Worth(a, Below(S, a.dims, k), m)
  BY <1>1, <1>2, DictIs
<1> HIDE DEF t
<1>4. Tells(t, a, S, k, m)
  BY <1>1, <1>2, <1>3 DEF Tells
<1>5. QED
  BY <1>4 DEF t, G

\* A balance adds the facts at the end of the window, or of its month.
LEMMA ClosingTells ==
    ASSUME NEW a, Listed(a), NEW q, NEW fs, "stock" \in ClosingMetrics(a), Even(a, q),
           NEW k, OfSomeGrain(a, k)
    PROVE  Tells(Merged(ClickHouse(a, q, fs)), a, Added(a, q, fs, k, "stock"), k, "stock")
<1> DEFINE prefixes == GroupingSets(a)
           live == LiveGrains(a)
           C == ClosingMetrics(a)
           G == Grouped(Balances(a, q, fs), a.dims, live)
           H == Grouped(Ends(a, q, fs), a.dims, prefixes \ live)
           t == Dicts(a, Grouped(InRange(a, q, fs), a.dims, prefixes), RangeMetrics(a))
           u == Dicts(a, G, C)
           w == Dicts(a, H, C)
           tables == {t : x \in RangeMetrics(a)} \cup {u : x \in {m \in C : live # {}}}
                       \cup {w : x \in {m \in C : prefixes # live}}
<1>1. Monthly(a) /\ ~q.calendar /\ Domains[a.domain].backend # "ibis"
      /\ q.from \in Int /\ q.to \in Int /\ q.from <= q.to
  BY DEF Even
<1>2. ClickHouse(a, q, fs) = tables
  <2>1. ClickHouse(a, q, fs) =
             {Dicts(a, Grouped(InRange(a, q, fs), a.dims, GroupingSets(a)), RangeMetrics(a)) : x \in RangeMetrics(a)}
             \cup {Dicts(a, Grouped(Balances(a, q, fs), a.dims, LiveGrains(a)), ClosingMetrics(a)) :
                     x \in {m \in ClosingMetrics(a) : LiveGrains(a) # {}}}
             \cup {Dicts(a, Grouped(Ends(a, q, fs), a.dims, GroupingSets(a) \ LiveGrains(a)), ClosingMetrics(a)) :
                     x \in {m \in ClosingMetrics(a) : GroupingSets(a) # LiveGrains(a)}}
    BY <1>1, ClickHouseIs
  <2>2. QED
    BY <2>1, Zenon
<1>3. Ends(a, q, fs) = {f \in Read(a, q, fs) : f.month = q.to} /\ InRange(a, q, fs) = Read(a, q, fs)
  BY <1>1, EndsAreRead
<1>4. PICK j \in prefixes : \A i \in DOMAIN a.dims : k[i] = Rolled <=> i > j
  BY DEF OfSomeGrain
<1>5. AtGrain(a, k, j) /\ j \in 0 .. Len(a.dims) /\ DOMAIN a.dims \subseteq Int
  BY <1>4, GrainsAre DEF OfSomeGrain, AtGrain, Listed
<1>6. \A x \in DOMAIN t : "stock" \notin DOMAIN t[x]
  <2>1. "stock" \notin RangeMetrics(a)
    BY DEF ClosingMetrics
  <2>2. \A x \in DOMAIN t : DOMAIN t[x] = RangeMetrics(a)
    BY DEF Dicts, Dict
  <2>3. QED
    BY <2>1, <2>2
<1>7. DOMAIN u = DOMAIN G /\ DOMAIN w = DOMAIN H
  BY DEF Dicts
<1>8. live \in SUBSET prefixes /\ prefixes \ live \in SUBSET prefixes
  BY DEF LiveGrains
<1>9. k \in DOMAIN G => \A i \in DOMAIN a.dims : a.dims[i] = "period" => k[i] # Rolled
  BY GrainsOfKeys
<1>10. k \in DOMAIN H => \E i \in DOMAIN a.dims : a.dims[i] = "period" /\ k[i] = Rolled
  BY <1>1, GrainsOfKeys
<1> HIDE DEF t, G, H
<1>11. CASE j \in live
  <2>1. \A i \in DOMAIN a.dims : a.dims[i] = "period" => k[i] # Rolled
    <3>1. \A i \in DOMAIN a.dims : a.dims[i] = "period" => i <= j
      BY <1>11 DEF LiveGrains
    <3>2. QED
      BY <1>4, <1>5, <3>1
  <2>2. Balances(a, q, fs) = Added(a, q, fs, k, "stock")
    <3>1. CASE "period" \in Range(a.dims)
      <4>1. HasMonth(a, k)
        BY <2>1, <3>1 DEF HasMonth, Range
      <4>2. QED
        BY <1>3, <3>1, <4>1 DEF Balances, Added
    <3>2. CASE "period" \notin Range(a.dims)
      <4>1. ~HasMonth(a, k)
        BY <3>2 DEF HasMonth, Range
      <4>2. QED
        BY <1>3, <3>2, <4>1 DEF Balances, Added
    <3>3. QED
      BY <3>1, <3>2
  <2>3. Tells(u, a, Balances(a, q, fs), k, "stock")
    <3> DEFINE S == Balances(a, q, fs)
    <3> HIDE DEF S, live
    <3>1. Tells(Dicts(a, Grouped(S, a.dims, live), C), a, S, k, "stock")
      BY <1>5, <1>8, <1>11, DictsTell
    <3>2. QED
      BY <3>1 DEF S, G
  <2> HIDE DEF u, w, live, prefixes
  <2>4. u \in tables
    BY <1>11
  <2>5. \A v \in tables : v # u => v = t \/ v = w
    OBVIOUS
  <2>6. k \notin DOMAIN w
    BY <1>7, <1>10, <2>1
  <2>7. \A v \in tables : v # u /\ k \in DOMAIN v => "stock" \notin DOMAIN v[k]
    BY <1>6, <2>5, <2>6
  <2> HIDE DEF tables
  <2>8. Tells(Merged(tables), a, Balances(a, q, fs), k, "stock")
    BY <2>3, <2>4, <2>7, MergedTells
  <2>9. QED
    BY <1>2, <2>2, <2>8
<1>12. CASE j \notin live
  <2>1. \A i \in DOMAIN a.dims : a.dims[i] = "period" => k[i] = Rolled
    <3>1. \A i \in 1 .. j : a.dims[i] # "period"
      BY <1>1, <1>12, RolledGrains
    <3>2. \A i \in DOMAIN a.dims : a.dims[i] = "period" => i > j
      BY <1>5, <3>1 DEF Listed
    <3>3. QED
      BY <1>4, <3>2
  <2>2. Ends(a, q, fs) = Added(a, q, fs, k, "stock")
    <3>1. ~HasMonth(a, k)
      BY <2>1 DEF HasMonth
    <3>2. QED
      BY <1>3, <3>1 DEF Added
  <2>3. \E i \in DOMAIN a.dims : a.dims[i] = "period"
    BY <1>1, <1>12, RolledGrains
  <2>4. k \notin DOMAIN u
    BY <1>7, <1>9, <2>1, <2>3
  <2>5. Tells(w, a, Ends(a, q, fs), k, "stock")
    <3> DEFINE S == Ends(a, q, fs)
               js == prefixes \ live
    <3>0. j \in js /\ js \in SUBSET GroupingSets(a)
      BY <1>12
    <3> HIDE DEF S, js
    <3>1. Tells(Dicts(a, Grouped(S, a.dims, js), C), a, S, k, "stock")
      BY <1>5, <3>0, DictsTell
    <3>2. QED
      BY <3>1 DEF S, H, js
  <2> HIDE DEF u, w, live, prefixes
  <2>6. w \in tables
    BY <1>4, <1>12
  <2>7. \A v \in tables : v # w => v = t \/ v = u
    OBVIOUS
  <2>8. \A v \in tables : v # w /\ k \in DOMAIN v => "stock" \notin DOMAIN v[k]
    BY <1>6, <2>4, <2>7
  <2> HIDE DEF tables
  <2>9. Tells(Merged(tables), a, Ends(a, q, fs), k, "stock")
    BY <2>5, <2>6, <2>8, MergedTells
  <2>10. QED
    BY <1>2, <2>2, <2>9
<1>13. QED
  BY <1>11, <1>12

\* Every base metric adds, under every key, what it should.
LEMMA RetrievedAdds ==
    ASSUME NEW a \in Asks, NEW q, NEW fs, NEW m \in BaseMetrics(a), m = "stock" => Even(a, q),
           NEW k, OfSomeGrain(a, k), "tree" \notin Range(a.dims)
    PROVE  Tells(Retrieved(a, q, fs), a, Added(a, q, fs, k, m), k, m)
<1>1. Listed(a) /\ m \in {"flow", "billed", "mean", "stock"}
  BY DimsAreListed, BasesAreNoFormulas
<1>2. CASE m # "stock"
  <2>1. m \in Ranged \cap BaseMetrics(a)
    BY <1>1, <1>2 DEF Ranged
  <2>2. Added(a, q, fs, k, m) = Read(a, q, fs)
    BY <1>2 DEF Added
  <2>3. Tells(Retrieved(a, q, fs), a, Read(a, q, fs), k, m)
    BY <1>1, <2>1, RetrievedTells
  <2>4. QED
    BY <2>2, <2>3
<1>3. CASE m = "stock"
  <2>1. "stock" \in ClosingMetrics(a)
    <3>1. Rollup["stock"] = "closing"
      BY DEF Rollup
    <3>2. QED
      BY <1>3, <3>1 DEF ClosingMetrics, RangeMetrics
  <2>2. Even(a, q) /\ Domains[a.domain].backend # "ibis"
    BY <1>3, <2>1 DEF Even
  <2>3. Retrieved(a, q, fs) = Merged(ClickHouse(a, q, fs))
    BY <2>2 DEF Retrieved
  <2>4. Tells(Merged(ClickHouse(a, q, fs)), a, Added(a, q, fs, k, "stock"), k, "stock")
    BY <1>1, <2>1, <2>2, ClosingTells
  <2>5. QED
    BY <1>3, <2>3, <2>4
<1>4. QED
  BY <1>2, <1>3

-----------------------------------------------------------------------------
(* Moving the periods.                                                     *)

\* A value put back on the axis asked for, and a key.
PutBack(q, x, dim) ==
    IF x = Rolled \/ dim \notin TimeDims THEN x
    ELSE IF q.offset # 0 THEN <<dim, Forward(x[2], dim, q.offset)>>
    ELSE IF q.calendar /\ dim = "week" THEN <<dim, Succeeding(x[2], q.from, q.to)>>
    ELSE x

KeyPutBack(q, dims, o) == [i \in DOMAIN o |-> PutBack(q, o[i], dims[i])]

\* Moving the periods puts every key back.
LEMMA RealignedIs ==
    ASSUME NEW a, NEW q, NEW T
    PROVE  Realigned(a, q, T) = [k \in {KeyPutBack(q, a.dims, o) : o \in DOMAIN T} |->
                                   T[CHOOSE o \in DOMAIN T : KeyPutBack(q, a.dims, o) = k]]
<1> DEFINE value(x, dim) ==
               IF x = Rolled \/ dim \notin TimeDims THEN x
               ELSE IF q.offset # 0 THEN <<dim, Forward(x[2], dim, q.offset)>>
               ELSE IF q.calendar /\ dim = "week" THEN <<dim, Succeeding(x[2], q.from, q.to)>>
               ELSE x
           moved(o) == [i \in DOMAIN o |-> value(o[i], a.dims[i])]
<1>1. Realigned(a, q, T) = [x \in {moved(o) : o \in DOMAIN T} |-> T[CHOOSE o \in DOMAIN T : moved(o) = x]]
  BY Zenon DEF Realigned
<1>2. \A o : moved(o) = KeyPutBack(q, a.dims, o)
  BY DEF KeyPutBack, PutBack
<1> HIDE DEF moved
<1>3. QED
  BY <1>1, <1>2

\* The total stays where it is, and what is named stays named.
LEMMA PutBackKeeps ==
    ASSUME NEW q, NEW dims, NEW o, Spelled(dims, o)
    PROVE  /\ Spelled(dims, KeyPutBack(q, dims, o))
           /\ \A i \in DOMAIN dims : KeyPutBack(q, dims, o)[i] = PutBack(q, o[i], dims[i])
           /\ \A i \in DOMAIN dims : KeyPutBack(q, dims, o)[i] = Rolled <=> o[i] = Rolled
           /\ o = TotalKey(dims) <=> KeyPutBack(q, dims, o) = TotalKey(dims)
<1> DEFINE k == KeyPutBack(q, dims, o)
<1>1. DOMAIN o = DOMAIN dims
  BY DEF Spelled
<1>2. k = [i \in DOMAIN dims |-> PutBack(q, o[i], dims[i])]
  BY <1>1 DEF KeyPutBack
<1>3. \A x, dim : PutBack(q, x, dim) = Rolled <=> x = Rolled
  BY DEF PutBack, Rolled
<1> HIDE DEF k
<1>4. Spelled(dims, k) /\ \A i \in DOMAIN dims : k[i] = PutBack(q, o[i], dims[i])
  BY <1>2 DEF Spelled
<1>5. \A i \in DOMAIN dims : k[i] = Rolled <=> o[i] = Rolled
  BY <1>3, <1>4
<1>6. \A x : Spelled(dims, x) => (x = TotalKey(dims) <=> \A i \in DOMAIN dims : x[i] = Rolled)
  <2>1. SUFFICES ASSUME NEW x, Spelled(dims, x) PROVE x = TotalKey(dims) <=> \A i \in DOMAIN dims : x[i] = Rolled
    OBVIOUS
  <2>2. x = [i \in DOMAIN dims |-> x[i]] /\ TotalKey(dims) = [i \in DOMAIN dims |-> Rolled]
    BY <2>1 DEF Spelled, TotalKey
  <2>3. QED
    BY <2>2
<1>7. QED
  BY <1>4, <1>5, <1>6 DEF k

\* A key put back names the members of a fact as it is shown.
LEMMA KeyAtPutBack ==
    ASSUME NEW a, NEW p, NEW q, NEW f, NEW j,
           \A i \in DOMAIN a.dims : PutBack(q, ValueOf(f, a.dims[i]), a.dims[i]) = ValueOf(As(a, p, f), a.dims[i])
    PROVE  KeyPutBack(q, a.dims, KeyAt(f, a.dims, j)) = KeyAt(As(a, p, f), a.dims, j)
<1> DEFINE o == KeyAt(f, a.dims, j)
           g == As(a, p, f)
<1>1. DOMAIN o = DOMAIN a.dims /\ \A i \in DOMAIN a.dims : o[i] = IF i <= j THEN ValueOf(f, a.dims[i]) ELSE Rolled
  BY DEF KeyAt
<1>2. \A dim : PutBack(q, Rolled, dim) = Rolled
  BY DEF PutBack
<1> HIDE DEF o, g
<1>3. \A i \in DOMAIN a.dims : PutBack(q, o[i], a.dims[i]) = IF i <= j THEN ValueOf(g, a.dims[i]) ELSE Rolled
  BY <1>1, <1>2 DEF g
<1>4. QED
  BY <1>1, <1>3 DEF KeyPutBack, KeyAt, o, g

\* Putting a value back gives that of the fact as it is shown, and puts no two
\* values together.
PutsBack(a, p, q, W) ==
    /\ \A f \in W : \A i \in DOMAIN a.dims :
          PutBack(q, ValueOf(f, a.dims[i]), a.dims[i]) = ValueOf(As(a, p, f), a.dims[i])
    /\ \A f, g \in W : \A i \in DOMAIN a.dims :
          ValueOf(As(a, p, f), a.dims[i]) = ValueOf(As(a, p, g), a.dims[i])
            => ValueOf(f, a.dims[i]) = ValueOf(g, a.dims[i])

\* All rows of a table are made of the facts' members; each tells what is under it.
AllMade(a, W, T) == \A o \in DOMAIN T : MadeOf(a.dims, W, o)
\* Every table key has the facts of its row.
AllTell(T, a, S, k, m) ==
    \A o : OfSomeGrain(a, o) /\ (\A i \in DOMAIN a.dims : o[i] = Rolled <=> k[i] = Rolled) => Tells(T, a, S, o, m)

\* What a query read, put back on the axis: a row has the facts that are shown
\* under its label.
LEMMA RealignedTells ==
    ASSUME NEW a, Listed(a), NEW p, NEW q, NEW W, NEW S \in SUBSET W, NEW T, NEW m \in DOMAIN Rollup,
           NEW k, OfSomeGrain(a, k),
           PutsBack(a, p, q, W), AllMade(a, W, T), AllTell(T, a, S, k, m)
    PROVE  LET U == {f \in S : InGroup(As(a, p, f), a.dims, k)}
           IN Figure(Realigned(a, q, T), k, m) =
                IF U = {} /\ k # TotalKey(a.dims) THEN None ELSE Worth(a, U, m)
<1> DEFINE U == {f \in S : InGroup(As(a, p, f), a.dims, k)}
           D == {KeyPutBack(q, a.dims, o) : o \in DOMAIN T}
           of == CHOOSE o \in DOMAIN T : KeyPutBack(q, a.dims, o) = k
           R == Realigned(a, q, T)
           dims == a.dims
<1>0. /\ \A f \in W : \A i \in DOMAIN a.dims :
            PutBack(q, ValueOf(f, a.dims[i]), a.dims[i]) = ValueOf(As(a, p, f), a.dims[i])
      /\ \A f, g \in W : \A i \in DOMAIN a.dims :
            ValueOf(As(a, p, f), a.dims[i]) = ValueOf(As(a, p, g), a.dims[i])
              => ValueOf(f, a.dims[i]) = ValueOf(g, a.dims[i])
      /\ \A o \in DOMAIN T : MadeOf(a.dims, W, o)
      /\ \A o : OfSomeGrain(a, o) /\ (\A i \in DOMAIN a.dims : o[i] = Rolled <=> k[i] = Rolled) => Tells(T, a, S, o, m)
  BY DEF PutsBack, AllMade, AllTell
<1>1. DOMAIN R = D /\ (k \in D => R[k] = T[of] /\ of \in DOMAIN T /\ KeyPutBack(q, dims, of) = k)
  <2>1. R = [x \in D |-> T[CHOOSE o \in DOMAIN T : KeyPutBack(q, a.dims, o) = x]]
    BY RealignedIs
  <2>2. k \in D => \E o \in DOMAIN T : KeyPutBack(q, a.dims, o) = k
    OBVIOUS
  <2> HIDE DEF R
  <2>3. QED
    BY <2>1, <2>2
<1>2. \A o \in DOMAIN T : KeyPutBack(q, dims, o) \in D
  OBVIOUS
<1>3. PICK j \in GroupingSets(a) : \A i \in DOMAIN dims : k[i] = Rolled <=> i > j
  BY DEF OfSomeGrain
<1>4. j \in Int /\ DOMAIN dims \subseteq Int /\ Spelled(dims, k)
  BY <1>3, GrainsAre DEF OfSomeGrain, Listed
<1>5. ASSUME NEW t
      PROVE  /\ (k \in DOMAIN t /\ m \in DOMAIN t[k]) => Figure(t, k, m) = t[k][m]
             /\ ~(k \in DOMAIN t /\ m \in DOMAIN t[k]) => Figure(t, k, m) = None
  BY EvaluatedIs DEF Figure
<1> HIDE DEF R, D, of, dims
\* The facts of a row that is put back onto k are those shown under k.
<1>6. ASSUME NEW o, Spelled(dims, o), KeyPutBack(q, dims, o) = k, NEW f \in S, InGroup(f, dims, o)
      PROVE  f \in U
  <2>1. \A i \in DOMAIN dims : k[i] = PutBack(q, o[i], dims[i]) /\ (k[i] = Rolled <=> o[i] = Rolled)
    BY <1>6, PutBackKeeps
  <2>2. \A i \in DOMAIN dims : k[i] # Rolled => k[i] = ValueOf(As(a, p, f), dims[i])
    BY <1>0, <1>6, <2>1 DEF InGroup, dims
  <2>3. QED
    BY <2>2 DEF InGroup, dims
<1>7. CASE U # {}
  <2>1. PICK f \in S : InGroup(As(a, p, f), dims, k)
    BY <1>7 DEF dims
  <2> DEFINE o == KeyAt(f, dims, j)
  <2>2. KeyPutBack(q, dims, o) = k
    <3>1. KeyPutBack(q, dims, o) = KeyAt(As(a, p, f), dims, j)
      <4>1. \A i \in DOMAIN a.dims : PutBack(q, ValueOf(f, a.dims[i]), a.dims[i]) = ValueOf(As(a, p, f), a.dims[i])
        BY <1>0
      <4>2. QED
        BY <4>1, KeyAtPutBack DEF dims, o
    <3>2. k = KeyAt(As(a, p, f), dims, j)
      BY <1>3, <1>4, <2>1, RowIsKey
    <3>3. QED
      BY <3>1, <3>2
  <2>3. Spelled(dims, o) /\ \A i \in DOMAIN dims : o[i] = IF i <= j THEN ValueOf(f, dims[i]) ELSE Rolled
    BY DEF KeyAt, Spelled
  <2>4. InGroup(f, dims, o)
    BY InOwnGroup
  <2> HIDE DEF o
  <2>5. \A i \in DOMAIN dims : o[i] = Rolled <=> k[i] = Rolled
    BY <2>2, <2>3, PutBackKeeps
  <2>6. OfSomeGrain(a, o)
    BY <1>3, <2>3, <2>5 DEF OfSomeGrain, dims
  <2>7. ASSUME NEW g \in U PROVE InGroup(g, dims, o)
    <3>1. SUFFICES ASSUME NEW i \in DOMAIN dims, o[i] # Rolled PROVE o[i] = ValueOf(g, dims[i])
      BY DEF InGroup
    <3>2. k[i] # Rolled
      BY <2>5, <3>1
    <3>3. k[i] = ValueOf(As(a, p, f), dims[i]) /\ k[i] = ValueOf(As(a, p, g), dims[i])
      BY <2>1, <2>7, <3>2 DEF InGroup, dims
    <3>4. ValueOf(f, dims[i]) = ValueOf(g, dims[i])
      BY <1>0, <2>7, <3>1, <3>3 DEF dims
    <3>5. o[i] = ValueOf(f, dims[i])
      BY <2>3, <3>1
    <3>6. QED
      BY <3>4, <3>5
  <2>8. Below(S, dims, o) = U
    <3>1. \A g \in U : g \in S
      OBVIOUS
    <3> HIDE DEF U
    <3>2. \A g \in Below(S, dims, o) : g \in U
      BY <1>6, <2>2, <2>3 DEF Below
    <3>3. \A g \in U : g \in Below(S, dims, o)
      BY <2>7, <3>1 DEF Below
    <3>4. QED
      BY <3>2, <3>3
  <2>9. o \in DOMAIN T /\ m \in DOMAIN T[o] /\ T[o][m] = Worth(a, U, m)
    <3> HIDE DEF U
    <3>1. Tells(T, a, S, o, m)
      BY <1>0, <2>5, <2>6 DEF dims
    <3>2. QED
      BY <1>7, <2>8, <3>1 DEF Tells, dims
  <2>10. k \in D
    BY <1>2, <2>2, <2>9
  <2>11. of = o
    <3>1. of \in DOMAIN T /\ KeyPutBack(q, dims, of) = k
      BY <1>1, <2>10
    <3>2. MadeOf(dims, W, of)
      BY <1>0, <3>1 DEF dims
    <3>3. Spelled(dims, of) /\ \A i \in DOMAIN dims : of[i] = Rolled \/ \E g \in W : of[i] = ValueOf(g, dims[i])
      BY <3>2 DEF MadeOf
    <3>4. \A i \in DOMAIN dims : k[i] = PutBack(q, of[i], dims[i]) /\ (k[i] = Rolled <=> of[i] = Rolled)
      BY <3>1, <3>3, PutBackKeeps
    <3>5. ASSUME NEW i \in DOMAIN dims PROVE of[i] = o[i]
      <4>1. CASE k[i] = Rolled
        BY <2>5, <3>4, <4>1
      <4>2. CASE k[i] # Rolled
        <5>1. PICK g \in W : of[i] = ValueOf(g, dims[i])
          BY <3>3, <3>4, <4>2
        <5>2. k[i] = ValueOf(As(a, p, g), dims[i])
          BY <1>0, <3>4, <5>1 DEF dims
        <5>3. k[i] = ValueOf(As(a, p, f), dims[i])
          BY <2>1, <4>2 DEF InGroup
        <5>4. ValueOf(f, dims[i]) = ValueOf(g, dims[i])
          BY <1>0, <5>2, <5>3 DEF dims
        <5>5. o[i] = ValueOf(f, dims[i])
          BY <2>3, <2>5, <4>2
        <5>6. QED
          BY <5>1, <5>4, <5>5
      <4>3. QED
        BY <4>1, <4>2
    <3>6. QED
      BY <2>3, <3>3, <3>5 DEF Spelled
  <2>12. k \in DOMAIN R /\ R[k] = T[o]
    BY <1>1, <2>10, <2>11
  <2> HIDE DEF U
  <2>13. Figure(R, k, m) = Worth(a, U, m)
    BY <1>5, <2>9, <2>12
  <2>14. QED
    BY <1>7, <2>13 DEF R, U
<1>8. CASE U = {} /\ k = TotalKey(dims)
  <2>1. Spelled(dims, TotalKey(dims)) /\ KeyPutBack(q, dims, k) = k
    BY <1>4, <1>8, PutBackKeeps
  <2>2. Below(S, dims, k) = {}
    BY <1>4, <1>6, <1>8, <2>1 DEF Below
  <2>3. Tells(T, a, S, k, m)
    BY <1>0
  <2>4. k \in DOMAIN T /\ m \in DOMAIN T[k] /\ T[k][m] = Worth(a, {}, m)
    BY <1>8, <2>2, <2>3 DEF Tells, dims
  <2>5. k \in D
    BY <1>2, <2>1, <2>4
  <2>6. of = k
    <3>1. of \in DOMAIN T /\ KeyPutBack(q, dims, of) = k
      BY <1>1, <2>5
    <3>2. Spelled(dims, of)
      BY <1>0, <3>1 DEF MadeOf, dims
    <3>3. QED
      BY <1>8, <3>1, <3>2, PutBackKeeps
  <2>7. k \in DOMAIN R /\ R[k] = T[k]
    BY <1>1, <2>5, <2>6
  <2>8. Figure(R, k, m) = Worth(a, {}, m)
    BY <1>5, <2>4, <2>7
  <2> HIDE DEF U
  <2>9. QED
    BY <1>8, <2>8 DEF R, U, dims
<1>9. CASE U = {} /\ k # TotalKey(dims)
  <2>1. ASSUME k \in DOMAIN R PROVE m \notin DOMAIN R[k]
    <3>1. R[k] = T[of] /\ of \in DOMAIN T /\ KeyPutBack(q, dims, of) = k
      BY <1>1, <2>1
    <3>2. Spelled(dims, of)
      BY <1>0, <3>1 DEF MadeOf, dims
    <3>3. of # TotalKey(dims) /\ \A i \in DOMAIN dims : k[i] = Rolled <=> of[i] = Rolled
      BY <1>9, <3>1, <3>2, PutBackKeeps
    <3>4. OfSomeGrain(a, of)
      BY <1>3, <3>2, <3>3 DEF OfSomeGrain, dims
    <3>5. Tells(T, a, S, of, m)
      BY <1>0, <3>3, <3>4 DEF dims
    <3>6. Below(S, dims, of) = {}
      BY <1>6, <1>9, <3>1, <3>2 DEF Below
    <3>7. QED
      BY <3>1, <3>3, <3>5, <3>6 DEF Tells, dims
  <2>2. Figure(R, k, m) = None
    BY <1>5, <2>1
  <2> HIDE DEF U
  <2>3. QED
    BY <1>9, <2>2 DEF R, U, dims
<1>10. QED
  BY <1>7, <1>8, <1>9 DEF dims

-----------------------------------------------------------------------------
(* Shifted scenarios.                                                      *)

\* What a block may be shifted by.
Shifts == {"none", "py", "pp"}

\* The week after one in the calendar.
NextWeek(w) ==
    LET next == {i \in 2 .. Len(Calendar) : Calendar[i - 1] = w}
    IN IF next = {} THEN 0 ELSE Calendar[CHOOSE i \in next : TRUE]

\* A query over the window of a shift.
Follows(q, a, shift) ==
    /\ q.from = IF shift = "none" THEN a.from ELSE Earlier(a.from, a.grain, shift)
    /\ q.to = IF shift = "none" THEN a.to ELSE Earlier(a.to, a.grain, shift)
    /\ q.offset = IF shift = "none" THEN 0 ELSE OffsetOf(a.grain, shift)
    /\ q.calendar <=> shift = "pp" /\ a.grain = "week"

\* A shifted fact is another of the same place.
LEMMA ShownIs ==
    ASSUME NEW f \in Facts, NEW g, NEW shift \in Shifts
    PROVE  LET s == Shown(f, g, shift)
           IN /\ s.cc = f.cc /\ s.client = f.client
              /\ shift = "none" => s.month = f.month /\ s.week = f.week
              /\ shift = "py" => s.month = f.month + 12 /\ s.week = f.week + 100
              /\ shift = "pp" /\ g # "week" => s.month = f.month + StepMonths[g] /\ s.week = f.week
              /\ shift = "pp" /\ g = "week" => s.month = f.month /\ s.week = NextWeek(f.week)
<1>1. DOMAIN f = {"domain", "scenario", "month", "week", "cc", "client", "draft"}
  BY FactsAssumption
<1>2. CASE shift = "none"
  BY <1>2 DEF Shown
<1>3. CASE shift = "py"
  <2>1. Shown(f, g, shift) = [f EXCEPT !.month = f.month + 12, !.week = f.week + 100]
    BY <1>3 DEF Shown
  <2>2. QED
    BY <1>1, <1>3, <2>1
<1>4. CASE shift = "pp" /\ g # "week"
  <2>1. Shown(f, g, shift) = [f EXCEPT !.month = f.month + StepMonths[g]]
    BY <1>4 DEF Shown
  <2>2. QED
    BY <1>1, <1>4, <2>1
<1>5. CASE shift = "pp" /\ g = "week"
  <2>1. Shown(f, g, shift) = [f EXCEPT !.week = NextWeek(f.week)]
    <3> DEFINE next == {i \in 2 .. Len(Calendar) : Calendar[i - 1] = f.week}
               n == IF next = {} THEN 0 ELSE Calendar[CHOOSE i \in next : TRUE]
    <3>1. Shown(f, g, shift) = [f EXCEPT !.week = n]
      <4>1. shift # "none"
        BY <1>5
      <4> HIDE DEF next
      <4>2. QED
        BY <1>5, <4>1, SMTT(30) DEF Shown, next
    <3>2. NextWeek(f.week) = n
      BY DEF NextWeek
    <3> HIDE DEF n
    <3>3. QED
      BY <3>1, <3>2
  <2>2. QED
    BY <1>1, <1>5, <2>1
<1>6. QED
  BY <1>2, <1>3, <1>4, <1>5 DEF Shifts

\* A week has one place in the calendar, so there is one before it.
LEMMA NextWeekIs ==
    ASSUME NEW i \in 2 .. Len(Calendar)
    PROVE  NextWeek(Calendar[i - 1]) = Calendar[i]
<1> DEFINE next == {j \in 2 .. Len(Calendar) : Calendar[j - 1] = Calendar[i - 1]}
<1>1. \A j \in next : j = i
  BY CalendarAssumption
<1>2. i \in next
  OBVIOUS
<1>3. NextWeek(Calendar[i - 1]) = IF next = {} THEN 0 ELSE Calendar[CHOOSE j \in next : TRUE]
  BY DEF NextWeek
<1> HIDE DEF next
<1>4. (CHOOSE j \in next : TRUE) = i
  BY <1>1, <1>2
<1>5. QED
  BY <1>2, <1>3, <1>4

\* The calendar gives a week that precedes the window its successor, and no two
\* the same.
LEMMA PrecedingMoves ==
    ASSUME NEW from, NEW to, NEW w \in Preceding(from, to)
    PROVE  NextWeek(w) \in from .. to /\ Succeeding(w, from, to) = NextWeek(w)
<1>1. PICK i \in {j \in 2 .. Len(Calendar) : Calendar[j] \in from .. to} : w = Calendar[i - 1]
  BY DEF Preceding
<1>2. i \in 2 .. Len(Calendar) /\ Calendar[i] \in from .. to
  OBVIOUS
<1>3. NextWeek(w) = Calendar[i]
  BY <1>1, <1>2, NextWeekIs
<1> DEFINE later == {j \in 2 .. Len(Calendar) : Calendar[j] \in from .. to /\ Calendar[j - 1] = w}
<1>4. \A j \in later : j = i
  BY <1>1, <1>2, CalendarAssumption
<1>5. i \in later
  BY <1>1, <1>2
<1>6. Succeeding(w, from, to) = IF later = {} THEN w ELSE Calendar[CHOOSE j \in later : TRUE]
  BY DEF Succeeding
<1> HIDE DEF later
<1>7. (CHOOSE j \in later : TRUE) = i
  BY <1>4, <1>5
<1>8. QED
  BY <1>2, <1>3, <1>5, <1>6, <1>7

\* A week of the calendar that precedes the window is followed by one of it.
LEMMA NextWeekTells ==
    ASSUME NEW from \in Int, from > 0, NEW to, NEW w, NextWeek(w) \in from .. to
    PROVE  w \in Preceding(from, to)
<1> DEFINE next == {i \in 2 .. Len(Calendar) : Calendar[i - 1] = w}
<1>1. NextWeek(w) = IF next = {} THEN 0 ELSE Calendar[CHOOSE i \in next : TRUE]
  BY DEF NextWeek
<1>2. next # {}
  BY <1>1
<1> DEFINE i == CHOOSE j \in next : TRUE
<1>3. i \in next /\ NextWeek(w) = Calendar[i]
  <2> HIDE DEF next
  <2>1. QED
    BY <1>1, <1>2
<1>4. i \in {j \in 2 .. Len(Calendar) : Calendar[j] \in from .. to} /\ w = Calendar[i - 1]
  <2> HIDE DEF i
  <2>1. QED
    BY <1>3
<1> HIDE DEF i
<1>5. QED
  BY <1>4 DEF Preceding

\* Two weeks with one successor are one.
LEMMA NextWeekParts ==
    ASSUME NEW from, NEW to, NEW v \in Preceding(from, to), NEW w \in Preceding(from, to),
           NextWeek(v) = NextWeek(w)
    PROVE  v = w
<1>1. PICK i \in {j \in 2 .. Len(Calendar) : Calendar[j] \in from .. to} : v = Calendar[i - 1]
  BY DEF Preceding
<1>2. PICK k \in {j \in 2 .. Len(Calendar) : Calendar[j] \in from .. to} : w = Calendar[k - 1]
  BY DEF Preceding
<1>3. NextWeek(v) = Calendar[i] /\ NextWeek(w) = Calendar[k]
  BY <1>1, <1>2, NextWeekIs
<1>4. i \in DOMAIN Calendar /\ k \in DOMAIN Calendar
  BY CalendarAssumption
<1>5. i = k
  BY <1>3, <1>4, CalendarAssumption
<1>6. QED
  BY <1>1, <1>2, <1>5

\* The prior period of a period is broken down by the periods asked for.
Aligned(a, shift) ==
    shift = "pp" => \A i \in DOMAIN a.dims : a.dims[i] \in TimeDims => GrainOf[a.dims[i]] = a.grain

\* Moving a time forward by the shift.
Later(n, dim, a, shift) ==
    CASE shift = "none" -> n
      [] shift = "py" -> Forward(n, dim, 12)
      [] OTHER -> IF a.grain = "week" THEN NextWeek(n) ELSE Forward(n, dim, StepMonths[a.grain])

\* The time dimensions.
LEMMA TimeDimsAre ==
    /\ TimeDims = {"period", "quarter", "fiscal_year", "week"}
    /\ GrainOf["period"] = "month" /\ GrainOf["quarter"] = "quarter"
    /\ GrainOf["fiscal_year"] = "year" /\ GrainOf["week"] = "week"
BY DEF TimeDims, GrainOf

\* The value of a fact on a time dimension.
LEMMA TimeValue ==
    ASSUME NEW f, NEW dim \in TimeDims
    PROVE  ValueOf(f, dim) = <<dim, TimeOf(f, GrainOf[dim])>>
<1>1. dim # "division"
  BY TimeDimsAre
<1>2. QED
  BY <1>1 DEF ValueOf

\* The time of a fact as it is shown is its own moved forward.
LEMMA TimesMove ==
    ASSUME NEW a \in Asks, NEW shift \in Shifts, NEW f \in Facts, NEW dim \in TimeDims,
           shift = "pp" => GrainOf[dim] = a.grain
    PROVE  TimeOf(Shown(f, a.grain, shift), GrainOf[dim]) = Later(TimeOf(f, GrainOf[dim]), dim, a, shift)
<1> DEFINE s == Shown(f, a.grain, shift)
<1>1. f.month \in Int /\ f.week \in Int
  BY FactsAssumption
<1>2. a.grain \in {"week", "month", "quarter", "year"}
  BY AsksAssumption
<1>3. StepMonths["month"] = 1 /\ StepMonths["quarter"] = 3 /\ StepMonths["year"] = 12
  BY DEF StepMonths
<1>4. CASE shift = "none"
  <2>1. s.month = f.month /\ s.week = f.week
    BY <1>4, ShownIs
  <2> HIDE DEF s
  <2>2. TimeOf(s, GrainOf[dim]) = TimeOf(f, GrainOf[dim])
    BY <2>1 DEF TimeOf, InGrain
  <2>3. QED
    BY <1>4, <2>2 DEF Later, s
<1>5. CASE shift = "py"
  <2>1. s.month = f.month + 12 /\ s.week = f.week + 100
    BY <1>5, ShownIs
  <2>2. \A n : Later(n, dim, a, shift) = Forward(n, dim, 12)
    BY <1>5 DEF Later
  <2> HIDE DEF s
  <2>3. CASE dim = "period"
    BY <1>1, <2>1, <2>2, <2>3, TimeDimsAre DEF TimeOf, InGrain, Forward, s
  <2>4. CASE dim = "quarter"
    BY <1>1, <2>1, <2>2, <2>4, TimeDimsAre DEF TimeOf, InGrain, Forward, s
  <2>5. CASE dim = "fiscal_year"
    BY <1>1, <2>1, <2>2, <2>5, TimeDimsAre DEF TimeOf, InGrain, Forward, s
  <2>6. CASE dim = "week"
    BY <1>1, <2>1, <2>2, <2>6, TimeDimsAre DEF TimeOf, InGrain, Forward, s
  <2>7. QED
    BY <2>3, <2>4, <2>5, <2>6, TimeDimsAre
<1>6. CASE shift = "pp" /\ a.grain # "week"
  <2>1. s.month = f.month + StepMonths[a.grain] /\ s.week = f.week
    BY <1>6, ShownIs
  <2>2. \A n : Later(n, dim, a, shift) = Forward(n, dim, StepMonths[a.grain])
    BY <1>6 DEF Later
  <2>3. GrainOf[dim] = a.grain
    BY <1>6
  <2> HIDE DEF s
  <2>4. CASE dim = "period"
    BY <1>1, <1>3, <2>1, <2>2, <2>3, <2>4, TimeDimsAre DEF TimeOf, InGrain, Forward, s
  <2>5. CASE dim = "quarter"
    BY <1>1, <1>3, <2>1, <2>2, <2>3, <2>5, TimeDimsAre DEF TimeOf, InGrain, Forward, s
  <2>6. CASE dim = "fiscal_year"
    BY <1>1, <1>3, <2>1, <2>2, <2>3, <2>6, TimeDimsAre DEF TimeOf, InGrain, Forward, s
  <2>7. QED
    BY <1>6, <2>3, <2>4, <2>5, <2>6, TimeDimsAre
<1>7. CASE shift = "pp" /\ a.grain = "week"
  <2>1. s.week = NextWeek(f.week) /\ GrainOf[dim] = "week"
    BY <1>7, ShownIs
  <2>2. \A n : Later(n, dim, a, shift) = NextWeek(n)
    BY <1>7 DEF Later
  <2> HIDE DEF s
  <2>3. QED
    BY <2>1, <2>2 DEF TimeOf, s
<1>8. QED
  BY <1>4, <1>5, <1>6, <1>7 DEF Shifts

\* Putting a value back gives the value of the fact as it is shown.
LEMMA ValuesPutBack ==
    ASSUME NEW a \in Asks, NEW shift \in Shifts, NEW q, Follows(q, a, shift), NEW f \in Movable(q),
           NEW dim, dim \in TimeDims => (shift = "pp" => GrainOf[dim] = a.grain),
           dim \in TimeDims \cup {"cc", "client", "division"}
    PROVE  PutBack(q, ValueOf(f, dim), dim) = ValueOf(Shown(f, a.grain, shift), dim)
<1> DEFINE s == Shown(f, a.grain, shift)
           g == GrainOf[dim]
<1>1. f \in Facts
  BY DEF Movable
<1>2. CASE dim \notin TimeDims
  <2>1. s.cc = f.cc /\ s.client = f.client
    BY <1>1, ShownIs
  <2> HIDE DEF s
  <2>2. dim = "cc" \/ dim = "client" \/ dim = "division"
    BY <1>2
  <2>3. ValueOf(s, dim) = ValueOf(f, dim)
    BY <1>2, <2>1, <2>2 DEF ValueOf
  <2>4. PutBack(q, ValueOf(f, dim), dim) = ValueOf(f, dim)
    BY <1>2 DEF PutBack
  <2>5. QED
    BY <2>3, <2>4 DEF s
<1>3. CASE dim \in TimeDims
  <2>1. ValueOf(f, dim) = <<dim, TimeOf(f, g)>> /\ ValueOf(s, dim) = <<dim, TimeOf(s, g)>>
    BY <1>3, TimeValue
  <2>2. TimeOf(s, g) = Later(TimeOf(f, g), dim, a, shift)
    BY <1>1, <1>3, TimesMove
  <2>3. \A n : <<dim, n>> # Rolled /\ <<dim, n>>[2] = n
    BY DEF Rolled
  <2> HIDE DEF s, g
  <2>4. ASSUME NEW n
        PROVE  PutBack(q, <<dim, n>>, dim) =
                 IF q.offset # 0 THEN <<dim, Forward(n, dim, q.offset)>>
                 ELSE IF q.calendar /\ dim = "week" THEN <<dim, Succeeding(n, q.from, q.to)>>
                 ELSE <<dim, n>>
    BY <1>3, <2>3 DEF PutBack
  <2>5. a.grain \in {"week", "month", "quarter", "year"}
    BY AsksAssumption
  <2>6. StepMonths["month"] = 1 /\ StepMonths["quarter"] = 3 /\ StepMonths["year"] = 12
    BY DEF StepMonths
  <2> DEFINE n == TimeOf(f, g)
  <2>7. CASE shift = "none"
    <3>1. q.offset = 0 /\ ~q.calendar
      BY <2>7 DEF Follows
    <3>2. Later(n, dim, a, shift) = n
      BY <2>7 DEF Later
    <3> HIDE DEF n
    <3>3. QED
      BY <2>1, <2>2, <2>4, <3>1, <3>2 DEF n, s
  <2>8. CASE shift = "py"
    <3>1. q.offset = 12
      BY <2>8 DEF Follows, OffsetOf
    <3>2. Later(n, dim, a, shift) = Forward(n, dim, 12)
      BY <2>8 DEF Later
    <3> HIDE DEF n
    <3>3. QED
      BY <2>1, <2>2, <2>4, <3>1, <3>2 DEF n, s
  <2>9. CASE shift = "pp" /\ a.grain # "week"
    <3>1. q.offset = StepMonths[a.grain] /\ q.offset # 0
      BY <2>5, <2>6, <2>9 DEF Follows, OffsetOf
    <3>2. Later(n, dim, a, shift) = Forward(n, dim, StepMonths[a.grain])
      BY <2>9 DEF Later
    <3> HIDE DEF n
    <3>3. QED
      BY <2>1, <2>2, <2>4, <3>1, <3>2 DEF n, s
  <2>10. CASE shift = "pp" /\ a.grain = "week"
    <3>1. q.offset = 0 /\ q.calendar /\ g = "week"
      BY <1>3, <2>10 DEF Follows, OffsetOf, g
    <3>2. dim = "week"
      BY <1>3, <3>1, TimeDimsAre DEF g
    <3>3. n = f.week
      BY <3>1 DEF TimeOf
    <3>4. f.week \in Preceding(q.from, q.to)
      BY <3>1 DEF Movable
    <3>5. Succeeding(n, q.from, q.to) = NextWeek(n)
      BY <3>3, <3>4, PrecedingMoves
    <3>6. Later(n, dim, a, shift) = NextWeek(n)
      BY <2>10 DEF Later
    <3> HIDE DEF n
    <3>7. QED
      BY <2>1, <2>2, <2>4, <3>1, <3>2, <3>5, <3>6 DEF n, s
  <2>11. QED
    BY <2>7, <2>8, <2>9, <2>10 DEF Shifts
<1>4. QED
  BY <1>2, <1>3

\* Facts that are shown with one value had one value.
LEMMA ValuesPart ==
    ASSUME NEW a \in Asks, NEW shift \in Shifts, NEW q, Follows(q, a, shift), NEW f \in Movable(q), NEW h \in Movable(q),
           NEW dim, dim \in TimeDims => (shift = "pp" => GrainOf[dim] = a.grain),
           dim \in TimeDims \cup {"cc", "client", "division"},
           ValueOf(Shown(f, a.grain, shift), dim) = ValueOf(Shown(h, a.grain, shift), dim)
    PROVE  ValueOf(f, dim) = ValueOf(h, dim)
<1> DEFINE s(x) == Shown(x, a.grain, shift)
           g == GrainOf[dim]
<1>1. f \in Facts /\ h \in Facts
  BY DEF Movable
<1>2. CASE dim \notin TimeDims
  <2>1. s(f).cc = f.cc /\ s(f).client = f.client /\ s(h).cc = h.cc /\ s(h).client = h.client
    BY <1>1, ShownIs
  <2> HIDE DEF s
  <2>2. dim = "cc" \/ dim = "client" \/ dim = "division"
    BY <1>2
  <2>3. ValueOf(s(f), dim) = ValueOf(f, dim) /\ ValueOf(s(h), dim) = ValueOf(h, dim)
    BY <1>2, <2>1, <2>2 DEF ValueOf
  <2>4. QED
    BY <2>3 DEF s
<1>3. CASE dim \in TimeDims
  <2>1. \A x : ValueOf(x, dim) = <<dim, TimeOf(x, g)>>
    BY <1>3, TimeValue
  <2> DEFINE n == TimeOf(f, g)
             m == TimeOf(h, g)
  <2>2. TimeOf(s(f), g) = Later(n, dim, a, shift) /\ TimeOf(s(h), g) = Later(m, dim, a, shift)
    BY <1>1, <1>3, TimesMove
  <2>3. Later(n, dim, a, shift) = Later(m, dim, a, shift)
    <3>1. <<dim, TimeOf(s(f), g)>> = <<dim, TimeOf(s(h), g)>>
      BY <2>1
    <3> HIDE DEF s, g, n, m
    <3>2. TimeOf(s(f), g) = TimeOf(s(h), g)
      BY <3>1
    <3>3. QED
      BY <2>2, <3>2
  <2>4. n \in Int /\ m \in Int
    <3>1. f.month \in Int /\ f.week \in Int /\ h.month \in Int /\ h.week \in Int
      BY <1>1, FactsAssumption
    <3>2. QED
      BY <3>1 DEF TimeOf, InGrain
  <2> SUFFICES n = m
    BY <2>1
  <2>5. \A x, y \in Int : Forward(x, dim, 12) = Forward(y, dim, 12) => x = y
    BY <1>3, TimeDimsAre DEF Forward
  <2>6. a.grain \in {"week", "month", "quarter", "year"}
    BY AsksAssumption
  <2>7. StepMonths["month"] = 1 /\ StepMonths["quarter"] = 3 /\ StepMonths["year"] = 12
    BY DEF StepMonths
  <2> HIDE DEF n, m, s
  <2>8. CASE shift = "none"
    BY <2>3, <2>8 DEF Later
  <2>9. CASE shift = "py"
    <3>1. Forward(n, dim, 12) = Forward(m, dim, 12)
      BY <2>3, <2>9 DEF Later
    <3>2. QED
      BY <2>4, <2>5, <3>1
  <2>10. CASE shift = "pp" /\ a.grain # "week"
    <3>1. Forward(n, dim, StepMonths[a.grain]) = Forward(m, dim, StepMonths[a.grain])
      BY <2>3, <2>10 DEF Later
    <3>2. g = a.grain
      BY <1>3, <2>10
    <3>3. CASE dim = "period"
      BY <2>4, <2>7, <3>1, <3>2, <3>3, TimeDimsAre DEF Forward
    <3>4. CASE dim = "quarter"
      <4>1. StepMonths[a.grain] = 3
        BY <2>7, <3>2, <3>4, TimeDimsAre DEF g
      <4>2. (n * 3 + 3) \div 3 = (m * 3 + 3) \div 3
        BY <3>1, <3>4, <4>1 DEF Forward
      <4>3. QED
        BY <2>4, <4>2
    <3>5. CASE dim = "fiscal_year"
      <4>1. StepMonths[a.grain] = 12
        BY <2>7, <3>2, <3>5, TimeDimsAre DEF g
      <4>2. (n * 12 + 12) \div 12 = (m * 12 + 12) \div 12
        BY <3>1, <3>5, <4>1 DEF Forward
      <4>3. QED
        BY <2>4, <4>2
    <3>6. QED
      BY <1>3, <2>10, <3>2, <3>3, <3>4, <3>5, TimeDimsAre
  <2>11. CASE shift = "pp" /\ a.grain = "week"
    <3>1. g = "week" /\ q.calendar
      BY <1>3, <2>11 DEF Follows
    <3>2. n = f.week /\ m = h.week /\ n \in Preceding(q.from, q.to) /\ m \in Preceding(q.from, q.to)
      BY <3>1 DEF TimeOf, n, m, Movable
    <3>3. NextWeek(n) = NextWeek(m)
      BY <2>3, <2>11 DEF Later
    <3>4. QED
      BY <3>2, <3>3, NextWeekParts
  <2>12. QED
    BY <2>8, <2>9, <2>10, <2>11 DEF Shifts
<1>4. QED
  BY <1>2, <1>3

\* A query's window is the one asked for, of the facts as they are shown.
LEMMA WindowMoves ==
    ASSUME NEW a \in Asks, NEW shift \in Shifts, NEW q, Follows(q, a, shift), NEW f \in Facts
    PROVE  InWindow(a, q, f) <=> TimeOf(Shown(f, a.grain, shift), a.grain) \in a.from .. a.to
<1> DEFINE s == Shown(f, a.grain, shift)
<1>1. f.month \in Int /\ f.week \in Int
  BY FactsAssumption
<1>2. a.grain \in {"week", "month", "quarter", "year"} /\ a.from \in Int /\ a.to \in Int
      /\ (a.grain = "week" => a.from > 0)
  BY AsksAssumption
<1>3. StepMonths["month"] = 1 /\ StepMonths["quarter"] = 3 /\ StepMonths["year"] = 12
  BY DEF StepMonths
<1>4. PerYear["week"] = 100 /\ PerYear["month"] = 12 /\ PerYear["quarter"] = 4 /\ PerYear["year"] = 1
  BY DEF PerYear
<1>5. CASE shift = "none"
  <2>1. s.month = f.month /\ s.week = f.week
    BY <1>5, ShownIs
  <2>2. ~q.calendar /\ q.from = a.from /\ q.to = a.to
    BY <1>5 DEF Follows
  <2> HIDE DEF s
  <2>3. TimeOf(s, a.grain) = TimeOf(f, a.grain)
    BY <2>1 DEF TimeOf, InGrain
  <2>4. QED
    BY <2>2, <2>3 DEF InWindow, s
<1>6. CASE shift = "py"
  <2>1. s.month = f.month + 12 /\ s.week = f.week + 100
    BY <1>6, ShownIs
  <2>2. ~q.calendar /\ q.from = a.from - PerYear[a.grain] /\ q.to = a.to - PerYear[a.grain]
    BY <1>6 DEF Follows, Earlier
  <2> HIDE DEF s
  <2>3. TimeOf(s, a.grain) = TimeOf(f, a.grain) + PerYear[a.grain] /\ TimeOf(f, a.grain) \in Int
    BY <1>1, <1>2, <1>4, <2>1 DEF TimeOf, InGrain
  <2>4. PerYear[a.grain] \in Int
    BY <1>2, <1>4
  <2>5. InWindow(a, q, f) <=> TimeOf(f, a.grain) \in q.from .. q.to
    BY <2>2 DEF InWindow
  <2> DEFINE n == TimeOf(f, a.grain)
             d == PerYear[a.grain]
  <2> HIDE DEF n, d
  <2>6. n \in q.from .. q.to <=> n + d \in a.from .. a.to
    BY <1>2, <2>2, <2>3, <2>4 DEF n, d
  <2>7. QED
    BY <2>3, <2>5, <2>6 DEF n, d, s
<1>7. CASE shift = "pp" /\ a.grain # "week"
  <2>1. s.month = f.month + StepMonths[a.grain]
    BY <1>7, ShownIs
  <2>2. ~q.calendar /\ q.from = a.from - 1 /\ q.to = a.to - 1
    BY <1>7 DEF Follows, Earlier
  <2> HIDE DEF s
  <2>3. TimeOf(s, a.grain) = TimeOf(f, a.grain) + 1 /\ TimeOf(f, a.grain) \in Int
    BY <1>1, <1>2, <1>3, <1>7, <2>1 DEF TimeOf, InGrain
  <2>4. InWindow(a, q, f) <=> TimeOf(f, a.grain) \in q.from .. q.to
    BY <2>2 DEF InWindow
  <2> DEFINE n == TimeOf(f, a.grain)
  <2> HIDE DEF n
  <2>5. n \in q.from .. q.to <=> n + 1 \in a.from .. a.to
    BY <1>2, <2>2, <2>3 DEF n
  <2>6. QED
    BY <2>3, <2>4, <2>5 DEF n, s
<1>8. CASE shift = "pp" /\ a.grain = "week"
  <2>1. s.week = NextWeek(f.week)
    BY <1>8, ShownIs
  <2>2. q.calendar /\ q.from = a.from /\ q.to = a.to
    BY <1>8 DEF Follows, Earlier
  <2> HIDE DEF s
  <2>3. TimeOf(s, a.grain) = NextWeek(f.week)
    BY <1>8, <2>1 DEF TimeOf
  <2>4. InWindow(a, q, f) <=> f.week \in Preceding(a.from, a.to)
    BY <2>2 DEF InWindow
  <2>5. f.week \in Preceding(a.from, a.to) <=> NextWeek(f.week) \in a.from .. a.to
    BY <1>2, <1>8, PrecedingMoves, NextWeekTells
  <2>6. QED
    BY <2>3, <2>4, <2>5 DEF s
<1>9. QED
  BY <1>5, <1>6, <1>7, <1>8 DEF Shifts

-----------------------------------------------------------------------------
(* The query of a plain block.                                             *)

\* A real scenario of the registry, or one shifted.
IsSimple(r) == \E s \in Registry : r = Real(s) \/ r = Moved(s, "py") \/ r = Moved(s, "pp")

\* The key of a real or a shifted scenario stands for one of the registry.
LEMMA SimpleIs ==
    ASSUME NEW k, FindSimple(Registry, k) # Unknown
    PROVE  IsSimple(FindSimple(Registry, k))
<1> DEFINE c == Canonical(k)
           r == IF c = <<>> THEN Unknown ELSE FindReal(Registry, c)
<1>1. FindSimple(Registry, k) = IF c = <<>> \/ r # Unknown THEN r ELSE FindShifted(Registry, c)
  BY Zenon DEF FindSimple
<1> HIDE DEF c
<1>2. ASSUME FindReal(Registry, c) # Unknown PROVE IsSimple(FindReal(Registry, c))
  <2>1. \E s \in Registry : FindReal(Registry, c) = Real(s)
    BY <1>2 DEF FindReal
  <2>2. QED
    BY <2>1 DEF IsSimple
<1>3. ASSUME FindShifted(Registry, c) # Unknown PROVE IsSimple(FindShifted(Registry, c))
  <2>1. PICK s \in Registry : FindShifted(Registry, c) = Moved(s, c[Len(c)])
    BY <1>3 DEF FindShifted
  <2>2. c[Len(c)] = "py" \/ c[Len(c)] = "pp"
    BY <1>3 DEF FindShifted, EndsIn
  <2>3. QED
    BY <2>1, <2>2 DEF IsSimple
<1>4. QED
  BY <1>1, <1>2, <1>3

\* A reference that compares nothing is a scenario of the registry, or one shifted.
LEMMA ResolvedIs ==
    ASSUME NEW k, NEW ref, ref = Resolve(Registry, k), ref # Unknown
    PROVE  /\ ~Compares(ref) => IsSimple(ref)
           /\ Compares(ref) => IsSimple(ref.left) /\ IsSimple(ref.right)
<1>1. CASE FindSimple(Registry, k) # Unknown
  <2>1. IsSimple(ref)
    BY <1>1, SimpleIs DEF Resolve
  <2>2. ~Compares(ref)
    BY <2>1 DEF IsSimple, Compares, Real, Moved
  <2>3. QED
    BY <2>1, <2>2
<1>2. CASE FindSimple(Registry, k) = Unknown
  <2> DEFINE c == Canonical(k)
             pct == EndsIn(c, "pct")
             body == IF pct THEN Front(c) ELSE c
             cuts == {i \in 2 .. Len(body) - 1 : body[i] = "vs"}
             i == CHOOSE x \in cuts : \A d \in cuts : x <= d
             l == FindSimple(Registry, SubSeq(body, 1, i - 1))
             r == FindSimple(Registry, SubSeq(body, i + 1, Len(body)))
  <2>1. ref = FindVariance(Registry, c)
    BY <1>2 DEF Resolve
  <2>2. FindVariance(Registry, c) =
          IF cuts = {} THEN Unknown
          ELSE IF Unknown \in {l, r} THEN Unknown
          ELSE [node |-> IF pct THEN "variance_pct" ELSE "variance", left |-> l, right |-> r]
    BY Zenon DEF FindVariance
  <2>3. (l # Unknown => IsSimple(l)) /\ (r # Unknown => IsSimple(r))
    <3> HIDE DEF body, i
    <3>1. QED
      BY SimpleIs
  <2> HIDE DEF cuts, l, r, c, pct
  <2>4. ref = [node |-> IF pct THEN "variance_pct" ELSE "variance", left |-> l, right |-> r]
        /\ l # Unknown /\ r # Unknown
    BY <2>1, <2>2
  <2>5. Compares(ref) /\ ref.left = l /\ ref.right = r
    BY <2>4 DEF Compares
  <2>6. QED
    BY <2>3, <2>4, <2>5
<1>3. QED
  BY <1>1, <1>2

\* A part is filed under the public key of what it names.
LEMMA PartIs ==
    ASSUME NEW a \in Asks, ~Refused(a), NEW p \in AllParts(a)
    PROVE  /\ IsSimple(Resolve(Registry, p.key)) /\ p.key = KeyOf(Resolve(Registry, p.key))
           /\ p = [key |-> p.key, fork |-> p.fork, reads |-> p.reads]
<1>1. PICK b \in BlocksOf(a) : p \in Parts(b)
  BY DEF AllParts
<1> DEFINE ref == Resolve(Registry, b.key)
<1>2. b.key \in Seq(Words) /\ ref # Unknown /\ b = [key |-> b.key, fork |-> b.fork, reads |-> b.reads]
  <2>1. b.key \in Seq(STRING) /\ ref # Unknown /\ b = [key |-> b.key, fork |-> b.fork, reads |-> b.reads]
    <3>1. PICK n \in DOMAIN a.blocks : b = a.blocks[n]
      BY <1>1 DEF BlocksOf
    <3>2. b.key \in Seq(STRING) /\ b = [key |-> b.key, fork |-> b.fork, reads |-> b.reads]
      BY <3>1, AsksAssumption
    <3>3. ref # Unknown
      BY <1>1 DEF Refused
    <3>4. QED
      BY <3>2, <3>3
  <2>2. STRING \subseteq Words
    BY DEF Words
  <2>3. QED
    BY <2>1, <2>2, WiderSeq
<1>3. CASE Compares(ref)
  <2>1. p = Plain(KeyOf(ref.left)) \/ p = Plain(KeyOf(ref.right))
    BY <1>1, <1>3 DEF Parts
  <2>2. Resolve(Registry, KeyOf(ref.left)) = ref.left /\ Resolve(Registry, KeyOf(ref.right)) = ref.right
    BY <1>2, <1>3, ResolvedAgain
  <2>3. IsSimple(ref.left) /\ IsSimple(ref.right)
    BY <1>2, <1>3, ResolvedIs
  <2> HIDE DEF ref
  <2>4. PICK side \in {ref.left, ref.right} : p = Plain(KeyOf(side)) /\ Resolve(Registry, KeyOf(side)) = side /\ IsSimple(side)
    BY <2>1, <2>2, <2>3
  <2>5. p.key = KeyOf(side) /\ p = [key |-> p.key, fork |-> p.fork, reads |-> p.reads]
    BY <2>4 DEF Plain
  <2>6. QED
    BY <2>4, <2>5
<1>4. CASE ~Compares(ref)
  <2>1. p = [b EXCEPT !.key = KeyOf(ref)]
    BY <1>1, <1>4 DEF Parts, Filed
  <2>2. Resolve(Registry, KeyOf(ref)) = ref /\ IsSimple(ref)
    BY <1>2, <1>4, ResolvedAgain, ResolvedIs
  <2> HIDE DEF ref
  <2>3. p = [key |-> KeyOf(ref), fork |-> b.fork, reads |-> b.reads]
    BY <1>2, <2>1
  <2>4. QED
    BY <2>2, <2>3
<1>5. QED
  BY <1>3, <1>4

\* No two parts of a request are the same rows of different periods: over whole
\* years the prior period is the prior year.
Apart(a) == a.grain = "year" => \A p \in AllParts(a) : ShiftOf(Resolve(Registry, p.key)) # "pp"

\* The shift of a part.
ShiftIn(p) == ShiftOf(Resolve(Registry, p.key))

\* A part names a scenario of the registry, shifted or not.
LEMMA PartNames ==
    ASSUME NEW a \in Asks, ~Refused(a), NEW p \in AllParts(a)
    PROVE  /\ ShiftIn(p) \in Shifts
           /\ \E s \in Registry : /\ Resolve(Registry, p.key).base = s
                                  /\ p.key = IF ShiftIn(p) = "none" THEN s.alias ELSE Append(s.alias, ShiftIn(p))
<1> DEFINE r == Resolve(Registry, p.key)
<1>1. IsSimple(r) /\ p.key = KeyOf(r)
  BY PartIs
<1> HIDE DEF r
<1>2. PICK s \in Registry : r = Real(s) \/ r = Moved(s, "py") \/ r = Moved(s, "pp")
  BY <1>1 DEF IsSimple
<1>3. CASE r = Real(s)
  <2>1. ShiftOf(r) = "none" /\ r.base = s /\ KeyOf(r) = s.alias
    BY <1>3 DEF Real, ShiftOf, KeyOf, Compares
  <2>2. QED
    BY <1>1, <2>1 DEF ShiftIn, Shifts, r
<1>4. ASSUME NEW w \in {"py", "pp"}, r = Moved(s, w)
      PROVE ShiftOf(r) = w /\ r.base = s /\ KeyOf(r) = Append(s.alias, w)
  BY <1>4 DEF Moved, ShiftOf, KeyOf, Compares
<1>5. CASE r = Moved(s, "py")
  <2>1. ShiftOf(r) = "py" /\ r.base = s /\ KeyOf(r) = Append(s.alias, "py")
    BY <1>4, <1>5
  <2>2. QED
    BY <1>1, <2>1 DEF ShiftIn, Shifts, r
<1>6. CASE r = Moved(s, "pp")
  <2>1. ShiftOf(r) = "pp" /\ r.base = s /\ KeyOf(r) = Append(s.alias, "pp")
    BY <1>4, <1>6
  <2>2. QED
    BY <1>1, <2>1 DEF ShiftIn, Shifts, r
<1>7. QED
  BY <1>2, <1>3, <1>5, <1>6

\* The query of a part follows its shift and reads what the part is about.
LEMMA QueryFollows ==
    ASSUME NEW a, NEW p
    PROVE  LET q == QueryFor(a, p)
           IN /\ Follows(q, a, ShiftIn(p)) /\ q.part = p /\ q.scenario = Resolve(Registry, p.key).base.id
              /\ DOMAIN q = {"part", "scenario", "from", "to", "offset", "calendar"}
<1> DEFINE r == Resolve(Registry, p.key)
           s == ShiftOf(r)
<1>1. QueryFor(a, p) =
        [part |-> p, scenario |-> r.base.id,
         from |-> IF s = "none" THEN a.from ELSE Earlier(a.from, a.grain, s),
         to   |-> IF s = "none" THEN a.to ELSE Earlier(a.to, a.grain, s),
         offset |-> IF s = "none" THEN 0 ELSE OffsetOf(a.grain, s),
         calendar |-> s = "pp" /\ a.grain = "week"]
  BY Zenon DEF QueryFor
<1>2. ShiftIn(p) = s
  BY DEF ShiftIn
<1> DEFINE q == QueryFor(a, p)
<1> HIDE DEF r, s, q
<1>3. /\ q.from = IF s = "none" THEN a.from ELSE Earlier(a.from, a.grain, s)
      /\ q.to = IF s = "none" THEN a.to ELSE Earlier(a.to, a.grain, s)
      /\ q.offset = IF s = "none" THEN 0 ELSE OffsetOf(a.grain, s)
      /\ q.calendar = (s = "pp" /\ a.grain = "week")
  BY <1>1 DEF q
<1>4. q.part = p /\ q.scenario = r.base.id /\ DOMAIN q = {"part", "scenario", "from", "to", "offset", "calendar"}
  BY <1>1 DEF q
<1>5. Follows(q, a, s)
  BY <1>3 DEF Follows
<1>6. QED
  BY <1>2, <1>4, <1>5 DEF r, q

\* It still does when its fork is put in, and then reads what the part is about.
LEMMA SubstitutedIs ==
    ASSUME NEW a, NEW p
    PROVE  LET q == Substituted(QueryFor(a, p))
           IN Follows(q, a, ShiftIn(p)) /\ q.part = p /\ q.scenario = About(p)
<1> DEFINE q == QueryFor(a, p)
           t == Substituted(q)
           id == Resolve(Registry, p.key).base.id
<1>1. /\ Follows(q, a, ShiftIn(p)) /\ q.part = p /\ q.scenario = id
      /\ DOMAIN q = {"part", "scenario", "from", "to", "offset", "calendar"}
  BY QueryFollows
<1> HIDE DEF q
<1>2. CASE p.fork = <<"none">>
  <2>1. t = q
    BY <1>1, <1>2 DEF Substituted
  <2>2. About(p) = id
    BY <1>2 DEF About
  <2>3. QED
    BY <1>1, <2>1, <2>2 DEF q
<1>3. CASE p.fork = <<"parent">>
  <2>1. p.fork # <<"none">>
    BY <1>3
  <2>2. t = [q EXCEPT !.scenario = Parent(q.scenario)]
    BY <1>1, <1>3, <2>1 DEF Substituted
  <2>3. About(p) = Parent(id)
    BY <1>3, <2>1 DEF About
  <2>4. t.part = q.part /\ t.from = q.from /\ t.to = q.to /\ t.offset = q.offset /\ t.calendar = q.calendar
        /\ t.scenario = Parent(q.scenario)
    BY <1>1, <2>2
  <2>5. QED
    BY <1>1, <2>3, <2>4 DEF Follows, q
<1>4. CASE p.fork # <<"none">> /\ p.fork # <<"parent">>
  <2>1. t = [q EXCEPT !.scenario = p.fork]
    BY <1>1, <1>4 DEF Substituted
  <2>2. About(p) = p.fork
    BY <1>4 DEF About
  <2>3. t.part = q.part /\ t.from = q.from /\ t.to = q.to /\ t.offset = q.offset /\ t.calendar = q.calendar
        /\ t.scenario = p.fork
    BY <1>1, <2>1
  <2>4. QED
    BY <1>1, <2>2, <2>3 DEF Follows, q
<1>5. QED
  BY <1>2, <1>3, <1>4 DEF q

\* Queries over the windows of different shifts are told apart.
LEMMA WindowsPart ==
    ASSUME NEW a \in Asks, NEW s \in Shifts, NEW t \in Shifts, NEW q, NEW r, Follows(q, a, s), Follows(r, a, t),
           q.from = r.from, q.calendar <=> r.calendar,
           a.grain = "year" => "none" \in {s, t} \/ "pp" \notin {s, t}
    PROVE  s = t
<1>1. a.from \in Int /\ a.grain \in {"week", "month", "quarter", "year"}
  BY AsksAssumption
<1>2. PerYear["week"] = 100 /\ PerYear["month"] = 12 /\ PerYear["quarter"] = 4 /\ PerYear["year"] = 1
  BY DEF PerYear
<1>3. ASSUME NEW x \in Shifts, NEW y, Follows(y, a, x)
      PROVE /\ x = "none" => y.from = a.from /\ ~y.calendar
            /\ x = "py" => y.from = a.from - PerYear[a.grain] /\ ~y.calendar
            /\ x = "pp" /\ a.grain = "week" => y.calendar
            /\ x = "pp" /\ a.grain # "week" => y.from = a.from - 1
  BY <1>3 DEF Follows, Earlier
<1>4. s = "none" \/ s = "py" \/ s = "pp"
  BY DEF Shifts
<1>5. t = "none" \/ t = "py" \/ t = "pp"
  BY DEF Shifts
<1>6. CASE a.grain = "week"
  BY <1>1, <1>2, <1>3, <1>4, <1>5, <1>6
<1>7. CASE a.grain # "week"
  <2>1. PerYear[a.grain] \in Int /\ PerYear[a.grain] # 0
    BY <1>1, <1>2
  <2>2. a.grain # "year" => PerYear[a.grain] # 1
    BY <1>1, <1>2, <1>7
  <2>3. QED
    BY <1>1, <1>3, <1>4, <1>5, <1>7, <2>1, <2>2
<1>8. QED
  BY <1>6, <1>7

\* The query of a part reads rows that no other part's does.
LEMMA PartIsAlone ==
    ASSUME NEW a \in Asks, ~Refused(a), NEW p \in AllParts(a), NEW o \in AllParts(a),
           Apart(a) \/ ShiftIn(p) = "none",
           SameRows(QueryFor(a, p), QueryFor(a, o))
    PROVE  p = o
<1> DEFINE q == QueryFor(a, p)
           r == QueryFor(a, o)
<1>1. Follows(q, a, ShiftIn(p)) /\ q.part = p /\ q.scenario = Resolve(Registry, p.key).base.id
      /\ Follows(r, a, ShiftIn(o)) /\ r.part = o /\ r.scenario = Resolve(Registry, o.key).base.id
  BY QueryFollows
<1> HIDE DEF q, r
<1>2. ShiftIn(p) \in Shifts /\ ShiftIn(o) \in Shifts
  BY PartNames
<1>3. q.scenario = r.scenario /\ q.from = r.from /\ p.fork = o.fork /\ p.reads = o.reads /\ (q.calendar <=> r.calendar)
  BY <1>1 DEF SameRows, q, r
<1>4. a.grain = "year" => "none" \in {ShiftIn(p), ShiftIn(o)} \/ "pp" \notin {ShiftIn(p), ShiftIn(o)}
  BY DEF Apart, ShiftIn
<1>5. ShiftIn(p) = ShiftIn(o)
  BY <1>1, <1>2, <1>3, <1>4, WindowsPart
<1>6. PICK s \in Registry : /\ Resolve(Registry, p.key).base = s
                            /\ p.key = IF ShiftIn(p) = "none" THEN s.alias ELSE Append(s.alias, ShiftIn(p))
  BY PartNames
<1>7. PICK t \in Registry : /\ Resolve(Registry, o.key).base = t
                            /\ o.key = IF ShiftIn(o) = "none" THEN t.alias ELSE Append(t.alias, ShiftIn(o))
  BY PartNames
<1>8. s = t
  BY <1>1, <1>3, <1>6, <1>7, RegistryLoads DEF Loadable
<1>9. p.key = o.key
  BY <1>5, <1>6, <1>7, <1>8
<1>10. p = [key |-> p.key, fork |-> p.fork, reads |-> p.reads] /\ o = [key |-> o.key, fork |-> o.fork, reads |-> o.reads]
  BY PartIs
<1>11. QED
  BY <1>3, <1>9, <1>10

\* The queries of a request: one for the parts that read the same rows.
PlanOf(a) == {Substituted(q) : q \in Deduplicated({QueryFor(a, p) : p \in AllParts(a)})}

\* The plan has one query for each part.
LEMMA PartIsPlanned ==
    ASSUME NEW a \in Asks, ~Refused(a), NEW p \in AllParts(a), Apart(a) \/ ShiftIn(p) = "none"
    PROVE  /\ p \in {q.part : q \in PlanOf(a)}
           /\ (CHOOSE q \in PlanOf(a) : q.part = p) = Substituted(QueryFor(a, p))
<1> DEFINE Q == {QueryFor(a, o) : o \in AllParts(a)}
           q1 == QueryFor(a, p)
           q0 == Substituted(q1)
<1>1. q1 \in Deduplicated(Q)
  <2>1. q1 \in Q /\ SameRows(q1, q1)
    BY DEF SameRows
  <2>2. \A r \in Q : SameRows(q1, r) => r = q1
    BY PartIsAlone
  <2> HIDE DEF q1, Q
  <2>3. q1 = CHOOSE r \in Q : SameRows(q1, r)
    BY <2>1, <2>2
  <2>4. QED
    BY <2>1, <2>3 DEF Deduplicated
<1>2. q0 \in PlanOf(a) /\ q0.part = p
  BY <1>1, SubstitutedIs DEF PlanOf
<1>3. ASSUME NEW q \in PlanOf(a), q.part = p PROVE q = q0
  <2>1. PICK r \in Deduplicated(Q) : q = Substituted(r)
    BY DEF PlanOf
  <2>2. r \in Q
    BY DEF Deduplicated
  <2>3. PICK o \in AllParts(a) : r = QueryFor(a, o)
    BY <2>2
  <2>4. q.part = o
    BY <2>1, <2>3, SubstitutedIs
  <2>5. QED
    BY <1>3, <2>1, <2>3, <2>4
<1> HIDE DEF q0
<1>4. (CHOOSE q \in PlanOf(a) : q.part = p) = q0
  BY <1>2, <1>3
<1>5. QED
  BY <1>2, <1>4 DEF q0

-----------------------------------------------------------------------------
(* What a query reads is what its part means.                              *)

\* The members of the facts are in the dimension tables.
MembersAreKnown == \A f \in Facts : f.cc \in Members["cc"] /\ f.client \in Members["client"]

\* What filters and scopes name.
Axes == {"cc", "client", "division", "tree"}

\* Each is about cost centres or clients, whose members are known.
LEMMA LeavesOfAxes ==
    /\ \A axis \in Axes : LeafOf[axis] \in {"cc", "client"}
    /\ MembersAreKnown => \A f \in Facts : \A axis \in Axes : f[LeafOf[axis]] \in Members[LeafOf[axis]]
<1>1. LeafOf["cc"] = "cc" /\ LeafOf["client"] = "client" /\ LeafOf["division"] = "cc" /\ LeafOf["tree"] = "cc"
  BY DEF LeafOf
<1>2. \A axis \in Axes : LeafOf[axis] = "cc" \/ LeafOf[axis] = "client"
  BY <1>1 DEF Axes
<1>3. QED
  BY <1>2 DEF MembersAreKnown

\* The resolved filters leave the facts that were asked for.
LEMMA ResolvedTell ==
    ASSUME MembersAreKnown, NEW a \in Asks, NEW f \in Facts
    PROVE  LET u == ResolveFilters(a.filters)
           IN (\A d \in DOMAIN u : f[d] \in u[d]) <=> AskedFor(a, f)
<1> DEFINE fs == a.filters
           D == {LeafOf[axis] : axis \in DOMAIN fs}
           u == ResolveFilters(fs)
<1>1. DOMAIN fs \subseteq Axes
  BY AsksAssumption DEF Axes
<1>2. u = [d \in D |-> {m \in Members[d] : \A axis \in DOMAIN fs : LeafOf[axis] = d => m \in Leaves(axis, fs[axis])}]
  BY DEF ResolveFilters
<1>3. AskedFor(a, f) <=> \A axis \in DOMAIN fs : f[LeafOf[axis]] \in Leaves(axis, fs[axis])
  BY DEF AskedFor
<1>4. \A axis \in DOMAIN fs : f[LeafOf[axis]] \in Members[LeafOf[axis]]
  BY <1>1, LeavesOfAxes
<1>5. \A axis \in DOMAIN fs : LeafOf[axis] \in D
  OBVIOUS
<1>6. \A d \in D : \E axis \in DOMAIN fs : d = LeafOf[axis]
  OBVIOUS
<1> HIDE DEF u, D, fs
<1>7. DOMAIN u = D
      /\ \A d \in D : \A m : m \in u[d] <=> m \in Members[d] /\ \A axis \in DOMAIN fs : LeafOf[axis] = d => m \in Leaves(axis, fs[axis])
  BY <1>2
<1>8. ASSUME \A d \in D : f[d] \in u[d], NEW axis \in DOMAIN fs PROVE f[LeafOf[axis]] \in Leaves(axis, fs[axis])
  BY <1>5, <1>7, <1>8
<1>9. ASSUME \A axis \in DOMAIN fs : f[LeafOf[axis]] \in Leaves(axis, fs[axis]), NEW d \in D PROVE f[d] \in u[d]
  <2>1. PICK axis \in DOMAIN fs : d = LeafOf[axis]
    BY <1>6
  <2>2. f[d] \in Members[d]
    BY <1>4, <2>1
  <2>3. \A x \in DOMAIN fs : LeafOf[x] = d => f[d] \in Leaves(x, fs[x])
    BY <1>9
  <2>4. QED
    BY <1>7, <2>2, <2>3
<1>10. QED
  BY <1>3, <1>7, <1>8, <1>9 DEF u, fs

\* What the scope leaves of the dimensions it mentions is what it admits.
LEMMA ScopeTells ==
    ASSUME MembersAreKnown, NEW a \in Asks, NEW id \in DOMAIN a.scope, NEW f \in Facts,
           a.scope[id].open \/ f.domain \in a.scope[id].admits \ a.scope[id].bars
    PROVE  LET s == a.scope[id]
               u == ScopeFilters(s)
           IN s.open \/ (\A d \in DOMAIN u : f[d] \in u[d]) <=> Admitted(s, f)
<1> DEFINE s == a.scope[id]
           u == ScopeFilters(s)
<1>1. DOMAIN s.allow \cup DOMAIN s.deny \subseteq Axes
  BY AsksAssumption DEF Axes
<1> HIDE DEF s, u
<1>2. CASE s.open
  BY <1>2 DEF Admitted, s
<1>3. CASE ~s.open
  <2>1. Admitted(s, f) <=>
          /\ \A axis \in DOMAIN s.allow : \E v \in s.allow[axis] : f[LeafOf[axis]] \in Leaves(axis, v)
          /\ \A axis \in DOMAIN s.deny : \A v \in s.deny[axis] : f[LeafOf[axis]] \notin Leaves(axis, v)
    BY <1>3 DEF Admitted, s
  <2>2. \A axis \in DOMAIN s.allow \cup DOMAIN s.deny : f[LeafOf[axis]] \in Members[LeafOf[axis]]
    BY <1>1, LeavesOfAxes
  <2>3. \A d, m :
          /\ d \in DOMAIN u <=>
               (\E axis \in DOMAIN s.allow : LeafOf[axis] = d) \/ (\E axis \in DOMAIN s.deny : LeafOf[axis] = d)
          /\ d \in DOMAIN u =>
               (m \in u[d] <=>
                   /\ m \in Members[d]
                   /\ \A axis \in DOMAIN s.allow : LeafOf[axis] = d =>
                         \E v \in s.allow[axis] : m \in Leaves(axis, v)
                   /\ \A axis \in DOMAIN s.deny : LeafOf[axis] = d =>
                         \A v \in s.deny[axis] : m \notin Leaves(axis, v))
    BY ScopeFiltersTell DEF u
  <2>4. ASSUME \A d \in DOMAIN u : f[d] \in u[d] PROVE Admitted(s, f)
    <3>1. \A axis \in DOMAIN s.allow : LeafOf[axis] \in DOMAIN u
      BY <2>3
    <3>2. \A axis \in DOMAIN s.deny : LeafOf[axis] \in DOMAIN u
      BY <2>3
    <3>3. ASSUME NEW axis \in DOMAIN s.allow PROVE \E v \in s.allow[axis] : f[LeafOf[axis]] \in Leaves(axis, v)
      <4>1. f[LeafOf[axis]] \in u[LeafOf[axis]]
        BY <2>4, <3>1
      <4>2. QED
        BY <2>3, <3>1, <4>1
    <3>4. ASSUME NEW axis \in DOMAIN s.deny, NEW v \in s.deny[axis] PROVE f[LeafOf[axis]] \notin Leaves(axis, v)
      <4>1. f[LeafOf[axis]] \in u[LeafOf[axis]]
        BY <2>4, <3>2
      <4>2. QED
        BY <2>3, <3>2, <4>1
    <3>5. QED
      BY <2>1, <3>3, <3>4
  <2>5. ASSUME Admitted(s, f), NEW d \in DOMAIN u PROVE f[d] \in u[d]
    <3>1. PICK axis \in DOMAIN s.allow \cup DOMAIN s.deny : LeafOf[axis] = d
      BY <2>3
    <3>2. f[d] \in Members[d]
      BY <2>2, <3>1
    <3>3. \A x \in DOMAIN s.allow : LeafOf[x] = d => \E v \in s.allow[x] : f[d] \in Leaves(x, v)
      BY <2>1, <2>5
    <3>4. \A x \in DOMAIN s.deny : LeafOf[x] = d => \A v \in s.deny[x] : f[d] \notin Leaves(x, v)
      BY <2>1, <2>5
    <3>5. QED
      BY <2>3, <3>2, <3>3, <3>4
  <2>6. QED
    BY <1>3, <2>4, <2>5 DEF s, u
<1>4. QED
  BY <1>2, <1>3

\* The filters of a report leave what was asked for and is permitted.
LEMMA EffectiveTells ==
    ASSUME MembersAreKnown, NEW a \in Asks, NEW id \in DOMAIN a.scope, NEW f \in Facts,
           a.scope[id].open \/ f.domain \in a.scope[id].admits \ a.scope[id].bars,
           NEW fs, fs = Effective(a.scope[id], ResolveFilters(a.filters))
    PROVE  (\A d \in DOMAIN fs : f[d] \in fs[d]) <=> AskedFor(a, f) /\ Admitted(a.scope[id], f)
<1> DEFINE s == a.scope[id]
           u == ResolveFilters(a.filters)
           w == ScopeFilters(s)
<1>1. (\A d \in DOMAIN u : f[d] \in u[d]) <=> AskedFor(a, f)
  BY ResolvedTell
<1>2. s.open \/ (\A d \in DOMAIN w : f[d] \in w[d]) <=> Admitted(s, f)
  BY ScopeTells
<1> HIDE DEF s, u, w
<1>3. CASE s.open
  BY <1>1, <1>2, <1>3 DEF Effective, s, u
<1>4. CASE ~s.open
  <2>1. fs = Merge(u, w)
    BY <1>4 DEF Effective, s, u, w
  <2>2. DOMAIN fs = DOMAIN u \cup DOMAIN w
        /\ \A d \in DOMAIN fs : fs[d] = IF d \notin DOMAIN w THEN u[d] ELSE IF d \notin DOMAIN u THEN w[d] ELSE u[d] \cap w[d]
    BY <2>1 DEF Merge
  <2>3. (\A d \in DOMAIN fs : f[d] \in fs[d]) <=> (\A d \in DOMAIN u : f[d] \in u[d]) /\ (\A d \in DOMAIN w : f[d] \in w[d])
    <3>1. ASSUME \A d \in DOMAIN fs : f[d] \in fs[d], NEW d \in DOMAIN u PROVE f[d] \in u[d]
      BY <2>2, <3>1
    <3>2. ASSUME \A d \in DOMAIN fs : f[d] \in fs[d], NEW d \in DOMAIN w PROVE f[d] \in w[d]
      BY <2>2, <3>2
    <3>3. ASSUME \A d \in DOMAIN u : f[d] \in u[d], \A d \in DOMAIN w : f[d] \in w[d], NEW d \in DOMAIN fs PROVE f[d] \in fs[d]
      BY <2>2, <3>3
    <3>4. QED
      BY <3>1, <3>2, <3>3
  <2>4. QED
    BY <1>1, <1>2, <1>4, <2>3 DEF s
<1>5. QED
  BY <1>3, <1>4

\* A federated figure is asked for by the month.
ByMonth(a) == Domains[a.domain].backend = "ibis" => a.grain = "month"

\* A part reads committed rows, drafts or both.
LEMMA PartReads ==
    ASSUME NEW a \in Asks, NEW p \in AllParts(a)
    PROVE  p.reads \in {"committed", "uncommitted", "uncommitted_delta"}
<1>1. PICK n \in DOMAIN a.blocks : p \in Parts(a.blocks[n])
  BY DEF AllParts, BlocksOf
<1> DEFINE b == a.blocks[n]
<1>2. b = [key |-> b.key, fork |-> b.fork, reads |-> b.reads] /\ b.reads \in {"committed", "uncommitted", "uncommitted_delta"}
  BY AsksAssumption
<1> HIDE DEF b
<1>3. Filed(b).reads = b.reads
  BY <1>2 DEF Filed
<1>4. \A k : Plain(k).reads = "committed"
  BY DEF Plain
<1>5. p = Filed(b) \/ \E k : p = Plain(k)
  BY <1>1 DEF Parts, b
<1>6. QED
  BY <1>2, <1>3, <1>4, <1>5

\* The rows a query reads are the facts its part is about, asked for and permitted.
LEMMA ReadIsMeant ==
    ASSUME MembersAreKnown, NEW a \in Asks, ByMonth(a), ~Refused(a), NEW p \in AllParts(a),
           About(p) \in DOMAIN a.scope,
           a.scope[About(p)].open \/ a.domain \in a.scope[About(p)].admits \ a.scope[About(p)].bars,
           NEW fs, fs = Effective(a.scope[About(p)], ResolveFilters(a.filters))
    PROVE  Read(a, Substituted(QueryFor(a, p)), fs) = Meant(a, p)
<1> DEFINE q == Substituted(QueryFor(a, p))
           sc == a.scope[About(p)]
           kept(f) == \A d \in DOMAIN fs : f[d] \in fs[d]
           ours(f) == f.domain = a.domain /\ f.scenario = About(p)
           within(f) == TimeOf(As(a, p, f), a.grain) \in a.from .. a.to
           fresh(f) == Domains[a.domain].versioned =>
                         f.draft \in [committed |-> {FALSE}, uncommitted |-> BOOLEAN, uncommitted_delta |-> {TRUE}][p.reads]
<1>1. Follows(q, a, ShiftIn(p)) /\ q.part = p /\ q.scenario = About(p)
  BY SubstitutedIs
<1>2. ShiftIn(p) \in Shifts
  BY PartNames
<1> HIDE DEF q, sc
<1>3. \A f \in Facts : InWindow(a, q, f) <=> within(f)
  <2>1. \A f \in Facts : InWindow(a, q, f) <=> TimeOf(Shown(f, a.grain, ShiftIn(p)), a.grain) \in a.from .. a.to
    BY <1>1, <1>2, WindowMoves
  <2>2. QED
    BY <2>1 DEF As, ShiftIn
<1>4. \A f \in Facts : ours(f) => (kept(f) <=> AskedFor(a, f) /\ Admitted(sc, f))
  BY EffectiveTells DEF sc
<1>5. p.reads \in {"committed", "uncommitted", "uncommitted_delta"}
  BY PartReads
<1>6. \A f \in Facts : Versioned(a, q, f) <=> fresh(f)
  <2>1. SUFFICES ASSUME NEW f \in Facts PROVE Versioned(a, q, f) <=> fresh(f)
    OBVIOUS
  <2>2. f.draft \in BOOLEAN
    BY FactsAssumption
  <2>3. CASE ~Domains[a.domain].versioned
    BY <2>3 DEF Versioned
  <2>4. CASE Domains[a.domain].versioned
    <3>1. CASE p.reads = "committed"
      <4>1. fresh(f) <=> f.draft \in {FALSE}
        <5>1. [committed |-> {FALSE}, uncommitted |-> BOOLEAN, uncommitted_delta |-> {TRUE}][p.reads] = {FALSE}
          BY <3>1
        <5>2. QED
          BY <2>4, <5>1
      <4>2. Versioned(a, q, f) <=> ~f.draft
        BY <1>1, <2>4, <3>1 DEF Versioned
      <4>3. f.draft \in {FALSE} <=> ~f.draft
        BY <2>2
      <4>4. QED
        BY <4>1, <4>2, <4>3
    <3>2. CASE p.reads = "uncommitted"
      <4>1. fresh(f)
        BY <2>2, <2>4, <3>2
      <4>2. Versioned(a, q, f)
        BY <1>1, <2>4, <3>2 DEF Versioned
      <4>3. QED
        BY <4>1, <4>2
    <3>3. CASE p.reads = "uncommitted_delta"
      <4>1. fresh(f) <=> f.draft \in {TRUE}
        <5>1. [committed |-> {FALSE}, uncommitted |-> BOOLEAN, uncommitted_delta |-> {TRUE}][p.reads] = {TRUE}
          BY <3>3
        <5>2. QED
          BY <2>4, <5>1
      <4>2. Versioned(a, q, f) <=> f.draft
        BY <1>1, <2>4, <3>3 DEF Versioned
      <4>3. f.draft \in {TRUE} <=> f.draft
        BY <2>2
      <4>4. QED
        BY <4>1, <4>2, <4>3
    <3>4. QED
      BY <1>5, <3>1, <3>2, <3>3
  <2>5. QED
    BY <2>3, <2>4
<1>7. \A f : f \in Meant(a, p) <=> f \in Facts /\ ours(f) /\ within(f) /\ AskedFor(a, f) /\ Admitted(sc, f) /\ fresh(f)
  BY DEF Meant, InPlay, sc
<1>8. \A f : f \in Read(a, q, fs) <=> f \in Facts /\ ours(f) /\ kept(f) /\ within(f) /\ fresh(f)
  <2>1. CASE Domains[a.domain].backend = "ibis"
    <3>1. a.grain = "month" /\ ~Domains[a.domain].versioned
      BY <2>1, AsksAssumption, DomainsAssumption DEF ByMonth
    <3>2. \A f \in Facts : TextInWindow(q, a.grain, f.month) <=> within(f)
      <4>1. \A f : TextInWindow(q, a.grain, f.month) <=> f.month \in q.from .. q.to
        BY <3>1 DEF TextInWindow
      <4>2. ~q.calendar
        BY <1>1, <3>1 DEF Follows
      <4>3. \A f : InWindow(a, q, f) <=> f.month \in q.from .. q.to
        BY <3>1, <4>2 DEF InWindow, TimeOf, InGrain
      <4> HIDE DEF within
      <4>4. QED
        BY <1>3, <4>1, <4>3
    <3>3. \A f : fresh(f)
      BY <3>1
    <3>4. \A f : f \in Reached(a, q, fs) <=> f \in Facts /\ ours(f) /\ kept(f)
      BY <1>1 DEF Reached, Rows
    <3>5. Read(a, q, fs) = {f \in Reached(a, q, fs) : TextInWindow(q, a.grain, f.month)}
      BY <2>1 DEF Read
    <3> HIDE DEF ours, kept, within, fresh
    <3>6. QED
      BY <3>2, <3>3, <3>4, <3>5
  <2>2. CASE Domains[a.domain].backend # "ibis"
    <3>1. \A f : f \in KeptRows(a, q, fs) <=> f \in Facts /\ ours(f) /\ kept(f) /\ Versioned(a, q, f)
      BY <1>1 DEF KeptRows, Rows
    <3>2. Read(a, q, fs) = {f \in KeptRows(a, q, fs) : InWindow(a, q, f)}
      BY <2>2 DEF Read
    <3> HIDE DEF ours, kept, within, fresh
    <3>3. QED
      BY <1>3, <1>6, <3>1, <3>2
  <2>3. QED
    BY <2>1, <2>2
<1> HIDE DEF ours, kept, within, fresh
<1>9. \A f : f \in Read(a, q, fs) <=> f \in Meant(a, p)
  BY <1>4, <1>7, <1>8
<1>10. Read(a, q, fs) = Meant(a, p)
  <2> DEFINE A == Read(a, q, fs)
             B == Meant(a, p)
  <2> HIDE DEF A, B
  <2>1. \A f : f \in A <=> f \in B
    BY <1>9 DEF A, B
  <2>2. A = B
    BY <2>1
  <2>3. QED
    BY <2>2 DEF A, B
<1>11. QED
  BY <1>10 DEF q

-----------------------------------------------------------------------------
(* A part's figures.                                                       *)

\* A breakdown that is no ragged hierarchy, of a prior period by the periods asked for.
Plainly(a) == "tree" \notin Range(a.dims) /\ \A p \in AllParts(a) : Aligned(a, ShiftIn(p))

\* A label of a grain asked for, with members of the dimensions of the breakdown.
IsLabel(a, k) ==
    OfSomeGrain(a, k) /\ \A i \in DOMAIN a.dims : k[i] # Rolled => k[i][1] = a.dims[i]

\* A dimension of a breakdown that is no ragged hierarchy.
LEMMA DimsAre ==
    ASSUME NEW a \in Asks, ~Refused(a), "tree" \notin Range(a.dims), NEW i \in DOMAIN a.dims
    PROVE  a.dims[i] \in TimeDims \cup {"cc", "client", "division"}
<1>1. a.dims[i] \in Domains[a.domain].axes
  BY DEF Refused
<1>2. a.dims[i] \in {"week", "period", "quarter", "fiscal_year", "cc", "client", "division", "tree"}
  BY <1>1, AsksAssumption, DomainsAssumption
<1>3. a.dims[i] # "tree"
  BY DEF Range
<1>4. QED
  BY <1>2, <1>3, TimeDimsAre

\* A value names its dimension, and is never the mark of a total.
LEMMA ValueNames ==
    ASSUME NEW f, NEW dim
    PROVE  ValueOf(f, dim)[1] = dim /\ ValueOf(f, dim) # Rolled
<1>1. CASE dim \in TimeDims
  BY <1>1, TimeValue DEF Rolled
<1>2. CASE dim \notin TimeDims
  <2>1. \E x : ValueOf(f, dim) = <<dim, x>>
    <3>1. CASE dim = "division"
      BY <1>2, <3>1 DEF ValueOf
    <3>2. CASE dim # "division"
      BY <1>2, <3>2 DEF ValueOf
    <3>3. QED
      BY <3>1, <3>2
  <2>2. QED
    BY <2>1 DEF Rolled
<1>3. QED
  BY <1>1, <1>2

\* The keys of facts, and the total, are labels.
LEMMA KeysAreLabels ==
    ASSUME NEW a, Listed(a)
    PROVE  /\ \A f : \A j \in GroupingSets(a) : IsLabel(a, KeyAt(f, a.dims, j))
           /\ 0 \in GroupingSets(a) => IsLabel(a, TotalKey(a.dims))
<1>1. ASSUME NEW f, NEW j \in GroupingSets(a) PROVE IsLabel(a, KeyAt(f, a.dims, j))
  <2> DEFINE k == KeyAt(f, a.dims, j)
  <2>1. Spelled(a.dims, k) /\ \A i \in DOMAIN a.dims : k[i] = IF i <= j THEN ValueOf(f, a.dims[i]) ELSE Rolled
    BY DEF Spelled, KeyAt
  <2> HIDE DEF k
  <2>2. j \in Int /\ DOMAIN a.dims \subseteq Int
    BY GrainsAre DEF Listed
  <2>3. \A i \in DOMAIN a.dims : k[i] = Rolled <=> i > j
    BY <2>1, <2>2, ValueNames
  <2>4. \A i \in DOMAIN a.dims : k[i] # Rolled => k[i][1] = a.dims[i]
    BY <2>1, ValueNames
  <2>5. QED
    BY <2>1, <2>3, <2>4 DEF IsLabel, OfSomeGrain, k
<1>2. ASSUME 0 \in GroupingSets(a) PROVE IsLabel(a, TotalKey(a.dims))
  <2>1. Spelled(a.dims, TotalKey(a.dims)) /\ \A i \in DOMAIN a.dims : TotalKey(a.dims)[i] = Rolled /\ i > 0
    BY DEF Spelled, TotalKey, Listed
  <2>2. QED
    BY <1>2, <2>1 DEF IsLabel, OfSomeGrain
<1>3. QED
  BY <1>1, <1>2

\* Being under a label is being in its group.
LEMMA UnderIsInGroup ==
    ASSUME NEW a, "tree" \notin Range(a.dims), NEW k, IsLabel(a, k), NEW f
    PROVE  Under(a, f, k) <=> InGroup(f, a.dims, k)
<1>1. DOMAIN k = DOMAIN a.dims
  BY DEF IsLabel, OfSomeGrain, Spelled
<1>2. \A i \in DOMAIN a.dims : k[i] # Rolled => k[i][1] # "tree"
  BY DEF IsLabel, Range
<1>3. QED
  BY <1>1, <1>2 DEF Under, InGroup

\* A query's facts can be moved.
LEMMA ReadIsMovable ==
    ASSUME NEW a, NEW q, NEW fs, Domains[a.domain].backend = "ibis" => ~q.calendar
    PROVE  Read(a, q, fs) \in SUBSET Movable(q)
<1>1. ASSUME NEW f \in Read(a, q, fs) PROVE f \in Movable(q)
  <2>1. CASE Domains[a.domain].backend = "ibis"
    BY <2>1, <1>1 DEF Read, Reached, Rows, Movable
  <2>2. CASE Domains[a.domain].backend # "ibis"
    BY <2>2, <1>1 DEF Read, KeptRows, Rows, InWindow, Movable
  <2>3. QED
    BY <2>1, <2>2
<1>2. QED
  BY <1>1

\* What a part's query retrieves for a metric, put back on the axis, has its figures.
LEMMA PartShows ==
    ASSUME NEW a \in Asks, ~Refused(a), ByMonth(a), "tree" \notin Range(a.dims),
           NEW p \in AllParts(a), Aligned(a, ShiftIn(p)), NEW fs,
           NEW q, q = Substituted(QueryFor(a, p)),
           NEW S \in SUBSET Read(a, q, fs), NEW m \in DOMAIN Rollup, NEW k, OfSomeGrain(a, k),
           AllTell(Retrieved(a, q, fs), a, S, k, m)
    PROVE  LET U == {f \in S : InGroup(As(a, p, f), a.dims, k)}
           IN Figure(Realigned(a, q, Retrieved(a, q, fs)), k, m) =
                IF U = {} /\ k # TotalKey(a.dims) THEN None ELSE Worth(a, U, m)
<1> DEFINE T == Retrieved(a, q, fs)
           W == Movable(q)
<1>1. Follows(q, a, ShiftIn(p)) /\ ShiftIn(p) \in Shifts
  BY SubstitutedIs, PartNames
<1>2. Domains[a.domain].backend = "ibis" => ~q.calendar
  BY <1>1 DEF ByMonth, Follows
<1>3. Listed(a) /\ "tree" \notin Range(a.dims) /\ (a.grains.subtotals => a.grains.total)
  BY DimsAreListed, AsksAssumption
<1>4. S \in SUBSET W
  BY <1>2, ReadIsMovable
<1>5. ASSUME NEW i \in DOMAIN a.dims
      PROVE  /\ a.dims[i] \in TimeDims => (ShiftIn(p) = "pp" => GrainOf[a.dims[i]] = a.grain)
             /\ a.dims[i] \in TimeDims \cup {"cc", "client", "division"}
  BY <1>3, DimsAre DEF Aligned
<1>6. ASSUME NEW f \in W, NEW i \in DOMAIN a.dims
      PROVE  PutBack(q, ValueOf(f, a.dims[i]), a.dims[i]) = ValueOf(As(a, p, f), a.dims[i])
  <2>1. PutBack(q, ValueOf(f, a.dims[i]), a.dims[i]) = ValueOf(Shown(f, a.grain, ShiftIn(p)), a.dims[i])
    BY <1>1, <1>5, ValuesPutBack
  <2>2. QED
    BY <2>1 DEF As, ShiftIn
<1>7. ASSUME NEW f \in W, NEW g \in W, NEW i \in DOMAIN a.dims,
             ValueOf(As(a, p, f), a.dims[i]) = ValueOf(As(a, p, g), a.dims[i])
      PROVE  ValueOf(f, a.dims[i]) = ValueOf(g, a.dims[i])
  <2>1. ValueOf(Shown(f, a.grain, ShiftIn(p)), a.dims[i]) = ValueOf(Shown(g, a.grain, ShiftIn(p)), a.dims[i])
    BY <1>7 DEF As, ShiftIn
  <2>2. QED
    BY <1>1, <1>5, <2>1, ValuesPart
<1>8. AllMade(a, W, T)
  BY <1>2, <1>3, RetrievedKeys DEF AllMade
<1>9. AllTell(T, a, S, k, m)
  OBVIOUS
<1>10. m \in DOMAIN Rollup
  OBVIOUS
<1>11. PutsBack(a, p, q, W)
  BY <1>6, <1>7 DEF PutsBack
<1> DEFINE U == {f \in S : InGroup(As(a, p, f), a.dims, k)}
<1> HIDE DEF T, W
<1>12. Figure(Realigned(a, q, T), k, m) = IF U = {} /\ k # TotalKey(a.dims) THEN None ELSE Worth(a, U, m)
  BY <1>3, <1>4, <1>8, <1>9, <1>10, <1>11, RealignedTells
<1>13. QED
  BY <1>12 DEF T

\* They are those of the facts it adds that are shown under the label.
LEMMA PartTells ==
    ASSUME NEW a \in Asks, ~Refused(a), ByMonth(a), "tree" \notin Range(a.dims),
           NEW p \in AllParts(a), Aligned(a, ShiftIn(p)), NEW fs,
           NEW q, q = Substituted(QueryFor(a, p)),
           NEW m \in BaseMetrics(a), m = "stock" => Even(a, q), NEW k, OfSomeGrain(a, k)
    PROVE  LET U == {f \in Added(a, q, fs, k, m) : InGroup(As(a, p, f), a.dims, k)}
           IN Figure(Realigned(a, q, Retrieved(a, q, fs)), k, m) =
                IF U = {} /\ k # TotalKey(a.dims) THEN None ELSE Worth(a, U, m)
<1> DEFINE S == Added(a, q, fs, k, m)
<1>1. S \in SUBSET Read(a, q, fs)
  BY DEF Added
<1>2. ASSUME NEW o, OfSomeGrain(a, o), \A i \in DOMAIN a.dims : o[i] = Rolled <=> k[i] = Rolled
      PROVE  Tells(Retrieved(a, q, fs), a, S, o, m)
  <2>1. HasMonth(a, o) <=> HasMonth(a, k)
    BY <1>2 DEF HasMonth
  <2>2. Added(a, q, fs, o, m) = S
    BY <2>1 DEF Added
  <2>3. Tells(Retrieved(a, q, fs), a, Added(a, q, fs, o, m), o, m)
    BY <1>2, RetrievedAdds
  <2> HIDE DEF S
  <2>4. QED
    BY <2>2, <2>3
<1>3. AllTell(Retrieved(a, q, fs), a, S, k, m)
  <2> HIDE DEF S
  <2>1. QED
    BY <1>2 DEF AllTell
<1>4. m \in DOMAIN Rollup
  BY BasesAreNoFormulas, MetricNames
<1> HIDE DEF S
<1>5. LET U == {f \in S : InGroup(As(a, p, f), a.dims, k)}
      IN Figure(Realigned(a, q, Retrieved(a, q, fs)), k, m) =
           IF U = {} /\ k # TotalKey(a.dims) THEN None ELSE Worth(a, U, m)
  BY <1>1, <1>3, <1>4, PartShows
<1>6. QED
  BY <1>5 DEF S

\* What is computed is the sums, the average and the balance, and formulas over them.
LEMMA ComputedIs ==
    ASSUME NEW a, NEW U, NEW last, NEW total \in BOOLEAN
    PROVE  /\ Computed(a, U, last, total, "flow") = IF U = {} /\ ~total THEN None ELSE Sum(U)
           /\ Computed(a, U, last, total, "mean") = Average(a, U)
           /\ Computed(a, U, last, total, "stock") = IF last = {} /\ ~total THEN None ELSE Sum(last)
           /\ Computed(a, U, last, total, "billed") =
                IF U = {} /\ ~total THEN None ELSE Sum({f \in U : f.client = "k1"})
           /\ Computed(a, U, last, total, "ratio") =
                Apply("/", Computed(a, U, last, total, "flow"), Computed(a, U, last, total, "stock"))
           /\ Computed(a, U, last, total, "spread") =
                Apply("-", Computed(a, U, last, total, "ratio"), Computed(a, U, last, total, "mean"))
<1> DEFINE sum(S) == IF S = {} /\ ~total THEN None ELSE Sum(S)
           rest(v, x) == Apply(Formula[x][1], v[Formula[x][2]], v[Formula[x][3]])
           step(v, x) ==
             CASE x = "flow"  -> sum(U)
               [] x = "billed" -> IF sum(U) = None THEN None ELSE Sum({f \in U : f.client = "k1"})
               [] x = "mean"  -> Average(a, U)
               [] x = "stock" -> sum(last)
               [] OTHER -> rest(v, x)
           ratio == Apply("/", sum(U), sum(last))
           value(x) ==
             CASE x = "flow"  -> sum(U)
               [] x = "billed" -> IF sum(U) = None THEN None ELSE Sum({f \in U : f.client = "k1"})
               [] x = "mean"  -> Average(a, U)
               [] x = "stock" -> sum(last)
               [] x = "ratio" -> ratio
               [] x = "spread" -> Apply("-", ratio, Average(a, U))
           V == [x \in Metrics |-> value(x)]
           E == CHOOSE v : v = [x \in Metrics |-> step(v, x)]
<1>1. \A m : Computed(a, U, last, total, m) = E[m]
  BY Zenon DEF Computed
<1>2. V = [x \in Metrics |-> step(V, x)]
  <2>1. \A x \in Metrics : x \in {"flow", "billed", "mean", "stock"} => V[x] = step(V, x)
    <3> HIDE DEF sum, ratio, rest
    <3>1. QED
      OBVIOUS
  <2>2. V["flow"] = sum(U) /\ V["stock"] = sum(last) /\ V["mean"] = Average(a, U)
        /\ V["ratio"] = ratio /\ V["spread"] = Apply("-", ratio, Average(a, U))
    <3> HIDE DEF sum, ratio
    <3>1. QED
      BY MetricNames
  <2>3. V["ratio"] = step(V, "ratio")
    <3>1. step(V, "ratio") = rest(V, "ratio")
      <4> HIDE DEF sum, rest, V
      <4>1. QED
        OBVIOUS
    <3> HIDE DEF V, sum, step
    <3>2. rest(V, "ratio") = Apply("/", V["flow"], V["stock"])
      BY MetricNames
    <3>3. QED
      BY <2>2, <3>1, <3>2
  <2>4. V["spread"] = step(V, "spread")
    <3>1. step(V, "spread") = rest(V, "spread")
      <4> HIDE DEF sum, rest, V
      <4>1. QED
        OBVIOUS
    <3> HIDE DEF V, sum, step, ratio
    <3>2. rest(V, "spread") = Apply("-", V["ratio"], V["mean"])
      BY MetricNames
    <3>3. QED
      BY <2>2, <3>1, <3>2
  <2>5. V = [x \in Metrics |-> V[x]]
    <3> HIDE DEF value
    <3>1. QED
      OBVIOUS
  <2> HIDE DEF V, step
  <2>6. \A x \in Metrics : V[x] = step(V, x)
    BY <2>1, <2>3, <2>4, MetricNames
  <2>7. QED
    BY <2>5, <2>6
<1>3. E = [x \in Metrics |-> step(E, x)]
  <2> HIDE DEF V, step
  <2>1. QED
    BY <1>2
<1>4. \A x \in Metrics : E[x] = step(E, x)
  <2> HIDE DEF E, step
  <2>1. QED
    BY <1>3
<1>5. E["flow"] = sum(U) /\ E["mean"] = Average(a, U) /\ E["stock"] = sum(last)
      /\ E["billed"] = IF sum(U) = None THEN None ELSE Sum({f \in U : f.client = "k1"})
  <2>1. "flow" \in Metrics /\ "mean" \in Metrics /\ "stock" \in Metrics /\ "billed" \in Metrics
    BY MetricNames
  <2> HIDE DEF E, sum, rest
  <2>2. QED
    BY <1>4, <2>1
<1>6. E["ratio"] = Apply("/", E["flow"], E["stock"]) /\ E["spread"] = Apply("-", E["ratio"], E["mean"])
  <2>1. E["ratio"] = rest(E, "ratio") /\ E["spread"] = rest(E, "spread")
    <3>1. "ratio" \in Metrics /\ "spread" \in Metrics
      BY MetricNames
    <3> HIDE DEF E, sum, rest
    <3>2. QED
      BY <1>4, <3>1
  <2> HIDE DEF E, sum, step
  <2>2. QED
    BY <2>1, MetricNames
<1>7. /\ sum(U) = IF U = {} /\ ~total THEN None ELSE Sum(U)
      /\ sum(last) = IF last = {} /\ ~total THEN None ELSE Sum(last)
      /\ Sum(U) # None
  BY DEF Sum, None
<1> HIDE DEF E, sum
<1>8. E["billed"] = IF U = {} /\ ~total THEN None ELSE Sum({f \in U : f.client = "k1"})
  BY <1>5, <1>7
<1>9. QED
  BY <1>1, <1>5, <1>6, <1>7, <1>8

\* The worth of a row is the figure meant, for a metric that is added up.
LEMMA WorthIsComputed ==
    ASSUME NEW a, NEW U, NEW last, NEW total \in BOOLEAN, NEW m \in Ranged
    PROVE  Computed(a, U, last, total, m) = IF U = {} /\ ~total THEN None ELSE Worth(a, U, m)
<1> DEFINE sum(S) == IF S = {} /\ ~total THEN None ELSE Sum(S)
           E == [x \in Metrics |-> Computed(a, U, last, total, x)]
<1>1. Computed(a, U, last, total, m) = E[m]
  BY MetricNames DEF Ranged
<1>2. /\ Computed(a, U, last, total, "flow") = sum(U)
      /\ Computed(a, U, last, total, "mean") = Average(a, U)
      /\ Computed(a, U, last, total, "billed") = IF sum(U) = None THEN None ELSE Sum({f \in U : f.client = "k1"})
  BY ComputedIs DEF Sum, None
<1> HIDE DEF sum, E
<1>4. /\ m = "flow" => E[m] = sum(U)
      /\ m = "mean" => E[m] = Average(a, U)
      /\ m = "billed" => E[m] = IF sum(U) = None THEN None ELSE Sum({f \in U : f.client = "k1"})
  BY <1>1, <1>2
<1>5. sum(U) = IF U = {} /\ ~total THEN None ELSE Sum(U)
  BY DEF sum
<1>6. Sum(U) # None
  BY DEF Sum, None
<1>7. CASE m = "flow"
  <2>1. E[m] = sum(U)
    BY <1>4, <1>7
  <2>2. Worth(a, U, m) = Sum(U)
    <3>1. \A f : Holds(m, f)
      BY <1>7 DEF Holds
    <3>2. Rollup[m] # "avg"
      BY <1>7 DEF Rollup
    <3>3. {f \in U : Holds(m, f)} = U
      BY <3>1
    <3>4. QED
      BY <3>2, <3>3 DEF Worth
  <2>3. QED
    BY <1>1, <1>5, <2>1, <2>2
<1>8. CASE m = "billed"
  <2>1. E[m] = IF sum(U) = None THEN None ELSE Sum({f \in U : f.client = "k1"})
    BY <1>4, <1>8
  <2>2. Worth(a, U, m) = Sum({f \in U : f.client = "k1"})
    <3>1. \A f : Holds(m, f) <=> f.client = "k1"
      BY <1>8 DEF Holds
    <3>2. Rollup[m] # "avg"
      BY <1>8 DEF Rollup
    <3>3. {f \in U : Holds(m, f)} = {f \in U : f.client = "k1"}
      BY <3>1
    <3>4. QED
      BY <3>2, <3>3 DEF Worth
  <2>3. QED
    BY <1>1, <1>5, <1>6, <2>1, <2>2
<1>9. CASE m = "mean"
  <2>1. E[m] = Average(a, U)
    BY <1>4, <1>9
  <2>2. Worth(a, U, m) = Average(a, U)
    BY <1>9 DEF Worth, Rollup
  <2>3. U = {} => Average(a, U) = None
    BY DEF Average
  <2>4. QED
    BY <1>1, <2>1, <2>2, <2>3
<1>10. QED
  BY <1>7, <1>8, <1>9 DEF Ranged

\* So is that of a balance, over the facts of its last period.
LEMMA BalanceIsComputed ==
    ASSUME NEW a, NEW U, NEW last, NEW total \in BOOLEAN
    PROVE  Computed(a, U, last, total, "stock") = IF last = {} /\ ~total THEN None ELSE Worth(a, last, "stock")
<1>1. \A f : Holds("stock", f)
  BY DEF Holds
<1>2. Rollup["stock"] # "avg"
  BY DEF Rollup
<1>3. {f \in last : Holds("stock", f)} = last
  BY <1>1
<1>4. Worth(a, last, "stock") = Sum(last)
  BY <1>2, <1>3 DEF Worth
<1>5. Computed(a, U, last, total, "stock") = IF last = {} /\ ~total THEN None ELSE Sum(last)
  BY ComputedIs DEF Sum, None
<1>6. QED
  BY <1>4, <1>5

-----------------------------------------------------------------------------
(* The figures of a report.                                                *)

\* Balances are those of a domain by the month, broken down by no other time.
Balanced(a) == ClosingMetrics(a) # {} => Monthly(a)

\* The requests whose figures are told.
Told(a) ==
    /\ ByMonth(a) /\ Apart(a) /\ Plainly(a) /\ Balanced(a)
    /\ Range(a.metrics) # {}

\* The filters are those the scope of every scenario read leaves.
FiltersFit(a, fs) ==
    \A p \in AllParts(a) :
        /\ About(p) \in DOMAIN a.scope
        /\ a.scope[About(p)].open \/ a.domain \in a.scope[About(p)].admits \ a.scope[About(p)].bars
        /\ fs = Effective(a.scope[About(p)], ResolveFilters(a.filters))

\* What is retrieved for a request.
RawOf(a, fs) ==
    LET query(p) == CHOOSE q \in PlanOf(a) : q.part = p
    IN [p \in {q.part : q \in PlanOf(a)} |-> Realigned(a, query(p), Retrieved(a, query(p), fs))]

\* A part is retrieved by its own query.
LEMMA RawIs ==
    ASSUME NEW a \in Asks, ~Refused(a), NEW p \in AllParts(a), Apart(a) \/ ShiftIn(p) = "none", NEW fs,
           NEW q, q = Substituted(QueryFor(a, p))
    PROVE  p \in DOMAIN RawOf(a, fs) /\ RawOf(a, fs)[p] = Realigned(a, q, Retrieved(a, q, fs))
<1> DEFINE query(x) == CHOOSE y \in PlanOf(a) : y.part = x
           P == {y.part : y \in PlanOf(a)}
           one(x) == Realigned(a, x, Retrieved(a, x, fs))
<1>1. RawOf(a, fs) = [x \in P |-> one(query(x))]
  BY Zenon DEF RawOf
<1>2. p \in P /\ query(p) = q
  BY PartIsPlanned
<1> HIDE DEF P, query, one
<1>3. p \in DOMAIN RawOf(a, fs) /\ RawOf(a, fs)[p] = one(query(p))
  BY <1>1, <1>2
<1>4. one(query(p)) = one(q)
  BY <1>2
<1>5. QED
  BY <1>3, <1>4 DEF one

\* The bases of the metrics asked for.
LEMMA BasesOfMetrics ==
    ASSUME NEW a \in Asks
    PROVE  /\ \A m \in Range(a.metrics) : m \in Metrics /\ BaseOf[m] \subseteq BaseMetrics(a)
           /\ Range(a.metrics) # {} => BaseMetrics(a) # {}
<1>1. \A m \in Range(a.metrics) : m \in Metrics
  BY AsksAssumption, MetricNames
<1>2. \A m \in Range(a.metrics) : BaseOf[m] \subseteq BaseMetrics(a)
  BY DEF BaseMetrics
<1>3. ASSUME NEW m \in Range(a.metrics) PROVE BaseOf[m] # {}
  <2>1. m \in DOMAIN Rollup \/ m = "ratio" \/ m = "spread"
    BY <1>1, MetricNames
  <2>2. QED
    BY <2>1, BasesAre
<1>4. QED
  BY <1>1, <1>2, <1>3

\* The query of a part is over whole months where balances are asked for.
LEMMA PartIsEven ==
    ASSUME NEW a \in Asks, ~Refused(a), ~FederatedRefused(a), Told(a), NEW p \in AllParts(a)
    PROVE  Even(a, Substituted(QueryFor(a, p)))
<1> DEFINE q == Substituted(QueryFor(a, p))
<1>1. SUFFICES ASSUME ClosingMetrics(a) # {}
               PROVE  /\ Domains[a.domain].backend # "ibis" /\ Monthly(a) /\ ~q.calendar
                      /\ q.from \in Int /\ q.to \in Int /\ q.from <= q.to
  BY DEF Even
<1>2. Monthly(a) /\ a.grain = "month"
  BY <1>1 DEF Told, Balanced, Monthly
<1>3. Domains[a.domain].backend # "ibis"
  <2>1. PICK m \in ClosingMetrics(a) : TRUE
    BY <1>1
  <2>2. m \in BaseMetrics(a) /\ Rollup[m] = "closing"
    BY <2>1 DEF ClosingMetrics, RangeMetrics
  <2>3. QED
    BY <2>2 DEF FederatedRefused
<1>4. Follows(q, a, ShiftIn(p)) /\ ShiftIn(p) \in Shifts
  BY SubstitutedIs, PartNames
<1>5. a.from \in Int /\ a.to \in Int /\ a.from <= a.to
  <2>1. a.from \in Int /\ a.to \in Int
    BY AsksAssumption
  <2>2. ~(a.from > a.to)
    BY Zenon DEF Refused
  <2>3. QED
    BY <2>1, <2>2
<1>6. PerYear["month"] = 12
  BY DEF PerYear
<1> HIDE DEF q
<1>7. QED
  BY <1>2, <1>3, <1>4, <1>5, <1>6 DEF Follows, Earlier, Shifts

\* The last period of a row of a month is that month, and of another row the end
\* of the window.
LEMMA LastIs ==
    ASSUME NEW a \in Asks, ~Refused(a), Monthly(a), NEW p \in AllParts(a), NEW k, OfSomeGrain(a, k),
           NEW U \in SUBSET Meant(a, p), \A f \in U : InGroup(As(a, p, f), a.dims, k)
    PROVE  {f \in U : TimeOf(As(a, p, f), NativeGrain(a)) = LastPeriod(a, p, k)}
             = IF HasMonth(a, k) THEN U ELSE {f \in U : As(a, p, f).month = a.to}
<1> DEFINE times == {i \in DOMAIN k : k[i] # Rolled /\ a.dims[i] \in TimeDims}
           L == {f \in {As(a, p, g) : g \in InPlay(a, p)} : \A i \in times : ValueOf(f, a.dims[i]) = k[i]}
<1>1. /\ NativeGrain(a) = "month" /\ a.grain = "month" /\ DOMAIN k = DOMAIN a.dims
      /\ \A f : TimeOf(f, "month") = f.month /\ ValueOf(f, "period") = <<"period", f.month>>
  <2>1. NativeGrain(a) = "month" /\ a.grain = "month"
    BY TimeDimsAre DEF NativeGrain, Monthly
  <2>2. \A f : TimeOf(f, "month") = f.month
    BY DEF TimeOf, InGrain
  <2>3. \A f : ValueOf(f, "period") = <<"period", f.month>>
    BY <2>2, TimeDimsAre, TimeValue
  <2>4. QED
    BY <2>1, <2>2, <2>3 DEF OfSomeGrain, Spelled
<1>2. LastPeriod(a, p, k) = IF times = {} /\ NativeGrain(a) = a.grain /\ a.grain = "month" THEN a.to ELSE Latest(a, L)
  BY Zenon DEF LastPeriod
<1>3. times = {i \in DOMAIN a.dims : a.dims[i] = "period" /\ k[i] # Rolled}
  BY <1>1, TimeDimsAre DEF Monthly
<1>4. HasMonth(a, k) <=> times # {}
  BY <1>3 DEF HasMonth
<1>5. CASE ~HasMonth(a, k)
  <2>1. LastPeriod(a, p, k) = a.to
    BY <1>1, <1>2, <1>4, <1>5
  <2>2. QED
    BY <1>1, <1>5, <2>1
<1>6. CASE HasMonth(a, k)
  <2>1. PICK i \in times : TRUE
    BY <1>4, <1>6
  <2>2. i \in DOMAIN a.dims /\ a.dims[i] = "period" /\ k[i] # Rolled /\ \A j \in times : j = i
    BY <1>3, <2>1 DEF Monthly
  <2>3. ASSUME NEW f \in U PROVE TimeOf(As(a, p, f), NativeGrain(a)) = LastPeriod(a, p, k)
    <3> DEFINE g == As(a, p, f)
               n == g.month
    <3>1. f \in InPlay(a, p) /\ f \in Facts
      BY DEF Meant, InPlay
    <3>2. k[i] = <<"period", n>>
      BY <1>1, <2>2, <2>3 DEF InGroup
    <3>3. n \in Int
      <4>1. ShiftIn(p) \in Shifts
        BY PartNames
      <4>2. g = Shown(f, "month", ShiftIn(p)) /\ StepMonths["month"] = 1
        BY <1>1 DEF As, ShiftIn, StepMonths
      <4>3. f.month \in Int
        BY <3>1, FactsAssumption
      <4> HIDE DEF g
      <4>4. QED
        BY <3>1, <4>1, <4>2, <4>3, ShownIs DEF Shifts
    <3>4. g \in L
      BY <1>1, <2>2, <3>1, <3>2
    <3>5. \A h \in L : h.month = n
      BY <1>1, <2>1, <2>2, <3>2
    <3> HIDE DEF L, n
    <3>6. Natives(a, L) = {n}
      <4>1. Natives(a, L) = {TimeOf(h, "month") : h \in L}
        BY <1>1 DEF Natives
      <4>2. \A h \in L : TimeOf(h, "month") = n
        BY <1>1, <3>5
      <4> HIDE DEF g
      <4>3. QED
        BY <3>4, <4>1, <4>2
    <3>7. Max({n}) = n
      BY <3>3 DEF Max
    <3>8. Latest(a, L) = n
      BY <3>4, <3>6, <3>7 DEF Latest
    <3>9. LastPeriod(a, p, k) = n
      BY <1>2, <1>4, <1>6, <3>8
    <3>10. QED
      BY <1>1, <3>9 DEF n
  <2>4. QED
    BY <1>6, <2>3
<1>7. QED
  BY <1>5, <1>6

\* A part's figures are the ones meant, for what formulas are made of.
LEMMA BasesTell ==
    ASSUME MembersAreKnown, NEW a \in Asks, ~Refused(a), ~FederatedRefused(a), Told(a),
           NEW fs, FiltersFit(a, fs), NEW p \in AllParts(a), NEW k, IsLabel(a, k), NEW m \in BaseMetrics(a)
    PROVE  Figure(RawOf(a, fs)[p], k, m) = MeantFigure(a, p, k, m)
<1> DEFINE q == Substituted(QueryFor(a, p))
           A == Added(a, q, fs, k, m)
           U == {f \in A : InGroup(As(a, p, f), a.dims, k)}
           under == {f \in Meant(a, p) : Under(a, As(a, p, f), k)}
           last == {f \in under : TimeOf(As(a, p, f), NativeGrain(a)) = LastPeriod(a, p, k)}
           total == "tree" \notin Range(a.dims) /\ \A i \in DOMAIN k : k[i] = Rolled
<1>1. RawOf(a, fs)[p] = Realigned(a, q, Retrieved(a, q, fs))
  BY RawIs DEF Told
<1>2. Read(a, q, fs) = Meant(a, p)
  BY ReadIsMeant DEF FiltersFit, Told
<1>3. OfSomeGrain(a, k) /\ "tree" \notin Range(a.dims) /\ Even(a, q)
  BY PartIsEven DEF IsLabel, Told, Plainly
<1>4. Figure(RawOf(a, fs)[p], k, m) = IF U = {} /\ k # TotalKey(a.dims) THEN None ELSE Worth(a, U, m)
  <2>1. Figure(Realigned(a, q, Retrieved(a, q, fs)), k, m) =
          IF {f \in Added(a, q, fs, k, m) : InGroup(As(a, p, f), a.dims, k)} = {} /\ k # TotalKey(a.dims) THEN None
          ELSE Worth(a, {f \in Added(a, q, fs, k, m) : InGroup(As(a, p, f), a.dims, k)}, m)
    BY <1>3, PartTells DEF Told, Plainly
  <2> HIDE DEF q
  <2>2. QED
    BY <1>1, <2>1
<1>5. {f \in Read(a, q, fs) : InGroup(As(a, p, f), a.dims, k)} = under
  <2>1. \A f : Under(a, f, k) <=> InGroup(f, a.dims, k)
    BY <1>3, UnderIsInGroup
  <2> HIDE DEF q
  <2>2. QED
    BY <1>2, <2>1
<1>6. total <=> k = TotalKey(a.dims)
  <2>1. k = [i \in DOMAIN a.dims |-> k[i]] /\ TotalKey(a.dims) = [i \in DOMAIN a.dims |-> Rolled]
    BY DEF IsLabel, OfSomeGrain, Spelled, TotalKey
  <2>2. (\A i \in DOMAIN k : k[i] = Rolled) <=> k = TotalKey(a.dims)
    BY <2>1
  <2>3. QED
    BY <1>3, <2>2
<1>7. MeantFigure(a, p, k, m) = Computed(a, under, last, total, m)
  BY Zenon DEF MeantFigure
<1>8. total \in BOOLEAN
  OBVIOUS
<1>9. CASE m # "stock"
  <2>1. m \in Ranged
    BY <1>9, BasesAreNoFormulas DEF Ranged
  <2>2. U = under
    BY <1>5, <1>9 DEF Added
  <2> HIDE DEF q, A, U, under, last, total
  <2>3. Computed(a, under, last, total, m) = IF under = {} /\ ~total THEN None ELSE Worth(a, under, m)
    BY <1>8, <2>1, WorthIsComputed
  <2>4. QED
    BY <1>4, <1>6, <1>7, <2>2, <2>3
<1>10. CASE m = "stock"
  <2>1. Monthly(a) /\ a.grain = "month"
    <3>1. m \in ClosingMetrics(a)
      <4>1. Rollup["stock"] = "closing"
        BY DEF Rollup
      <4>2. QED
        BY <1>10, <4>1 DEF ClosingMetrics, RangeMetrics
    <3>2. QED
      BY <3>1 DEF Told, Balanced, Monthly
  <2>2. last = IF HasMonth(a, k) THEN under ELSE {f \in under : As(a, p, f).month = a.to}
    <3>1. under \in SUBSET Meant(a, p)
      OBVIOUS
    <3>2. \A f \in under : InGroup(As(a, p, f), a.dims, k)
      BY <1>3, UnderIsInGroup
    <3> HIDE DEF under
    <3>3. QED
      BY <1>3, <2>1, <3>1, <3>2, LastIs
  <2>3. ASSUME NEW f \in Meant(a, p) PROVE f.month = q.to <=> As(a, p, f).month = a.to
    <3>1. Follows(q, a, ShiftIn(p)) /\ ShiftIn(p) \in Shifts
      BY SubstitutedIs, PartNames
    <3>2. f \in Facts /\ f.month \in Int
      BY FactsAssumption DEF Meant, InPlay
    <3>3. As(a, p, f) = Shown(f, "month", ShiftIn(p)) /\ StepMonths["month"] = 1 /\ PerYear["month"] = 12
      BY <2>1 DEF As, ShiftIn, StepMonths, PerYear
    <3>4. a.to \in Int
      BY AsksAssumption
    <3>5. q.to = IF ShiftIn(p) = "none" THEN a.to ELSE IF ShiftIn(p) = "py" THEN a.to - 12 ELSE a.to - 1
      BY <2>1, <3>1, <3>3 DEF Follows, Earlier
    <3> DEFINE g == As(a, p, f)
    <3>6. g.month = IF ShiftIn(p) = "none" THEN f.month ELSE IF ShiftIn(p) = "py" THEN f.month + 12 ELSE f.month + 1
      <4> HIDE DEF g
      <4>1. QED
        BY <3>1, <3>2, <3>3, ShownIs DEF Shifts, g
    <3> HIDE DEF q, g
    <3>7. QED
      BY <3>1, <3>2, <3>4, <3>5, <3>6 DEF Shifts, g
  <2>4. A = IF HasMonth(a, k) THEN Meant(a, p) ELSE {f \in Meant(a, p) : f.month = q.to}
    <3> HIDE DEF q
    <3>1. QED
      BY <1>2, <1>10 DEF Added
  <2>5. U = last
    <3>1. \A f : f \in under <=> f \in Meant(a, p) /\ InGroup(As(a, p, f), a.dims, k)
      BY <1>3, UnderIsInGroup
    <3>2. \A f : f \in U <=> f \in A /\ InGroup(As(a, p, f), a.dims, k)
      OBVIOUS
    <3> HIDE DEF U, A, under, last, q
    <3>3. CASE HasMonth(a, k)
      BY <2>2, <2>4, <3>1, <3>2, <3>3
    <3>4. CASE ~HasMonth(a, k)
      <4>1. \A f : f \in A <=> f \in Meant(a, p) /\ As(a, p, f).month = a.to
        BY <2>3, <2>4, <3>4
      <4>2. \A f : f \in last <=> f \in under /\ As(a, p, f).month = a.to
        BY <2>2, <3>4
      <4>3. QED
        BY <3>1, <3>2, <4>1, <4>2
    <3>5. QED
      BY <3>3, <3>4
  <2> HIDE DEF q, A, U, under, last, total
  <2>6. Computed(a, under, last, total, "stock") = IF last = {} /\ ~total THEN None ELSE Worth(a, last, "stock")
    BY <1>8, BalanceIsComputed
  <2>7. QED
    BY <1>4, <1>6, <1>7, <1>10, <2>5, <2>6
<1>11. QED
  BY <1>9, <1>10

\* So are formulas over them.
LEMMA RawTells ==
    ASSUME MembersAreKnown, NEW a \in Asks, ~Refused(a), ~FederatedRefused(a), Told(a),
           NEW fs, FiltersFit(a, fs), NEW p \in AllParts(a), NEW k, IsLabel(a, k),
           NEW m \in Range(a.metrics) \cup BaseMetrics(a)
    PROVE  Figure(RawOf(a, fs)[p], k, m) = MeantFigure(a, p, k, m)
<1> DEFINE under == {f \in Meant(a, p) : Under(a, As(a, p, f), k)}
           last == {f \in under : TimeOf(As(a, p, f), NativeGrain(a)) = LastPeriod(a, p, k)}
           total == "tree" \notin Range(a.dims) /\ \A i \in DOMAIN k : k[i] = Rolled
           fig(x) == Figure(RawOf(a, fs)[p], k, x)
           val(x) == MeantFigure(a, p, k, x)
<1>1. \A x \in BaseMetrics(a) : fig(x) = val(x)
  BY BasesTell
<1>2. /\ fig("ratio") = Apply("/", fig("flow"), fig("stock"))
      /\ fig("spread") = Apply("-", fig("ratio"), fig("mean"))
  BY FormulaFigures
<1>3. /\ val("ratio") = Apply("/", val("flow"), val("stock"))
      /\ val("spread") = Apply("-", val("ratio"), val("mean"))
  <2>1. \A x : val(x) = Computed(a, under, last, total, x)
    BY Zenon DEF MeantFigure
  <2>2. total \in BOOLEAN
    OBVIOUS
  <2> HIDE DEF under, last, total, val
  <2>3. /\ Computed(a, under, last, total, "ratio") =
             Apply("/", Computed(a, under, last, total, "flow"), Computed(a, under, last, total, "stock"))
        /\ Computed(a, under, last, total, "spread") =
             Apply("-", Computed(a, under, last, total, "ratio"), Computed(a, under, last, total, "mean"))
    BY <2>2, ComputedIs DEF Sum, None
  <2>4. QED
    BY <2>1, <2>3
<1> HIDE DEF fig, val
<1>4. CASE m \in BaseMetrics(a)
  BY <1>1, <1>4 DEF fig, val
<1>5. CASE m \notin BaseMetrics(a)
  <2>1. m \in Range(a.metrics) /\ m \in Metrics /\ BaseOf[m] \subseteq BaseMetrics(a)
    BY <1>5, BasesOfMetrics
  <2>2. m = "ratio" \/ m = "spread"
    <3>1. m \notin DOMAIN Rollup
      BY <1>5, <2>1, BasesAre
    <3>2. QED
      BY <2>1, <3>1, MetricNames
  <2>3. "flow" \in BaseMetrics(a) /\ "stock" \in BaseMetrics(a) /\ (m = "spread" => "mean" \in BaseMetrics(a))
    BY <2>1, <2>2, BasesAre
  <2>4. fig("ratio") = val("ratio")
    BY <1>1, <1>2, <1>3, <2>3
  <2>5. m = "spread" => fig("spread") = val("spread")
    BY <1>1, <1>2, <1>3, <2>3, <2>4
  <2>6. fig(m) = val(m)
    BY <2>2, <2>4, <2>5
  <2>7. QED
    BY <2>6 DEF fig, val
<1>6. QED
  BY <1>4, <1>5

\* The rows of a table are of the grains asked for, with a figure in each.
Rowed(a, t) ==
    \A o \in DOMAIN t : OfSomeGrain(a, o) /\ \E m \in BaseMetrics(a) : m \in DOMAIN t[o]

\* The rows of groups are of the grains.
LEMMA GroupsAreRowed ==
    ASSUME NEW a, Listed(a), NEW S, NEW js \in SUBSET GroupingSets(a), NEW o \in DOMAIN Grouped(S, a.dims, js)
    PROVE  OfSomeGrain(a, o)
<1>1. (0 \in js /\ o = TotalKey(a.dims)) \/ \E f \in S, j \in js : o = KeyAt(f, a.dims, j)
  BY GroupedNames
<1>2. QED
  BY <1>1, KeysAreLabels DEF IsLabel

\* With some metric, they have a figure each.
LEMMA DictsAreRowed ==
    ASSUME NEW a, Listed(a), NEW S, NEW js \in SUBSET GroupingSets(a), NEW M \in SUBSET BaseMetrics(a), M # {}
    PROVE  Rowed(a, Dicts(a, Grouped(S, a.dims, js), M))
<1> DEFINE G == Grouped(S, a.dims, js)
           t == Dicts(a, G, M)
<1>1. \A o \in DOMAIN G : OfSomeGrain(a, o)
  BY GroupsAreRowed
<1> HIDE DEF G
<1>2. DOMAIN t = DOMAIN G /\ \A o \in DOMAIN G : DOMAIN t[o] = M
  BY DEF Dicts, Dict
<1> HIDE DEF t
<1>3. Rowed(a, t)
  BY <1>1, <1>2 DEF Rowed
<1>4. QED
  BY <1>3 DEF t, G

\* So are those of tables merged.
LEMMA MergedAreRowed ==
    ASSUME NEW a, NEW tables, \A t \in tables : Rowed(a, t)
    PROVE  Rowed(a, Merged(tables))
<1> DEFINE T == Merged(tables)
           D(k) == {u[k] : u \in {v \in tables : k \in DOMAIN v}}
<1>1. DOMAIN T = UNION {DOMAIN u : u \in tables}
  BY DEF Merged
<1>2. \A k \in DOMAIN T : DOMAIN T[k] = UNION {DOMAIN d : d \in D(k)}
  BY DEF Merged
<1>3. ASSUME NEW k \in DOMAIN T PROVE OfSomeGrain(a, k) /\ \E m \in BaseMetrics(a) : m \in DOMAIN T[k]
  <2>1. PICK t \in tables : k \in DOMAIN t
    BY <1>1
  <2>2. OfSomeGrain(a, k)
    BY <2>1 DEF Rowed
  <2>3. PICK m \in BaseMetrics(a) : m \in DOMAIN t[k]
    BY <2>1 DEF Rowed
  <2>4. t[k] \in D(k)
    BY <2>1
  <2> HIDE DEF T, D
  <2>5. m \in DOMAIN T[k]
    BY <1>2, <2>3, <2>4
  <2>6. QED
    BY <2>2, <2>5
<1> HIDE DEF T
<1>4. Rowed(a, T)
  BY <1>3 DEF Rowed
<1>5. QED
  BY <1>4 DEF T

\* So are those of what is retrieved, on either backend.
LEMMA RetrievedAreRowed ==
    ASSUME NEW a \in Asks, NEW q, NEW fs, Even(a, q), BaseMetrics(a) # {}, "tree" \notin Range(a.dims)
    PROVE  Rowed(a, Retrieved(a, q, fs))
<1> DEFINE js == GroupingSets(a)
<1>1. Listed(a)
  BY DimsAreListed
<1>2. CASE Domains[a.domain].backend = "ibis"
  <2> DEFINE S0 == {f \in Rows(a, q) : (\A d \in DOMAIN fs : f[d] \in fs[d])
                                         /\ TextInWindow(q, a.grain, f.month)}
             detail == Grouped(S0, a.dims, {Len(a.dims)})
             rolled == Grouped(S0, a.dims, js)
             below(k) == {e \in DOMAIN detail : \A i \in DOMAIN a.dims : k[i] # Rolled => e[i] = k[i]}
             t == [k \in DOMAIN rolled |-> Dict(a, UNION {detail[d] : d \in below(k)}, BaseMetrics(a), {})]
  <2>1. Federated(a, q, fs) = {t}
    BY Zenon DEF Federated
  <2>2. \A o \in DOMAIN rolled : OfSomeGrain(a, o)
    <3> HIDE DEF S0
    <3>1. QED
      BY <1>1, GroupsAreRowed
  <2> HIDE DEF rolled, detail, below
  <2>3. DOMAIN t = DOMAIN rolled /\ \A o \in DOMAIN rolled : DOMAIN t[o] = BaseMetrics(a)
    BY DEF Dict
  <2> HIDE DEF t
  <2>4. Rowed(a, t)
    BY <2>2, <2>3 DEF Rowed
  <2>5. Rowed(a, Merged({t}))
    BY <2>4, MergedAreRowed
  <2>6. Retrieved(a, q, fs) = Merged(Federated(a, q, fs))
    BY <1>2, Zenon DEF Retrieved
  <2>7. QED
    BY <2>1, <2>5, <2>6
<1>3. CASE Domains[a.domain].backend # "ibis"
  <2>1. Retrieved(a, q, fs) = Merged(ClickHouse(a, q, fs))
    BY <1>3 DEF Retrieved
  <2>2. RangeMetrics(a) \in SUBSET BaseMetrics(a) /\ ClosingMetrics(a) \in SUBSET BaseMetrics(a)
    BY DEF RangeMetrics, ClosingMetrics
  <2>3. ASSUME NEW t \in ClickHouse(a, q, fs) PROVE Rowed(a, t)
    <3>1. CASE ClosingMetrics(a) = {}
      <4>1. PICK x \in RangeMetrics(a) :
              t = Dicts(a, Grouped({f \in KeptRows(a, q, fs) : InWindow(a, q, f)}, a.dims, js), RangeMetrics(a))
        BY <2>3, <3>1 DEF ClickHouse
      <4> DEFINE S == {f \in KeptRows(a, q, fs) : InWindow(a, q, f)}
      <4>2. t = Dicts(a, Grouped(S, a.dims, js), RangeMetrics(a))
        BY <4>1
      <4> HIDE DEF S
      <4>3. QED
        BY <1>1, <2>2, <4>1, <4>2, DictsAreRowed
    <3>2. CASE ClosingMetrics(a) # {}
      <4>1. Monthly(a) /\ ~q.calendar
        BY <3>2 DEF Even
      <4> DEFINE X == Dicts(a, Grouped(InRange(a, q, fs), a.dims, GroupingSets(a)), RangeMetrics(a))
                 Y == Dicts(a, Grouped(Balances(a, q, fs), a.dims, LiveGrains(a)), ClosingMetrics(a))
                 Z == Dicts(a, Grouped(Ends(a, q, fs), a.dims, GroupingSets(a) \ LiveGrains(a)), ClosingMetrics(a))
      <4>2. ClickHouse(a, q, fs) =
              {X : x \in RangeMetrics(a)}
              \cup {Y : x \in {m \in ClosingMetrics(a) : LiveGrains(a) # {}}}
              \cup {Z : x \in {m \in ClosingMetrics(a) : GroupingSets(a) # LiveGrains(a)}}
        BY <1>1, <4>1, ClickHouseIs
      <4>3. LiveGrains(a) \in SUBSET GroupingSets(a) /\ GroupingSets(a) \ LiveGrains(a) \in SUBSET GroupingSets(a)
        BY DEF LiveGrains
      <4>4. RangeMetrics(a) # {} => Rowed(a, X)
        BY <1>1, <2>2, DictsAreRowed
      <4>5. Rowed(a, Y)
        BY <1>1, <2>2, <3>2, <4>3, DictsAreRowed
      <4>6. Rowed(a, Z)
        BY <1>1, <2>2, <3>2, <4>3, DictsAreRowed
      <4> HIDE DEF X, Y, Z
      <4>7. QED
        BY <2>3, <4>2, <4>4, <4>5, <4>6
    <3>3. QED
      BY <3>1, <3>2
  <2>4. QED
    BY <2>1, <2>3, MergedAreRowed
<1>4. QED
  BY <1>2, <1>3

\* A part's rows are the labels its data has a figure for.
LEMMA RawRows ==
    ASSUME MembersAreKnown, NEW a \in Asks, ~Refused(a), ~FederatedRefused(a), Told(a),
           NEW fs, FiltersFit(a, fs), NEW p \in AllParts(a)
    PROVE  DOMAIN RawOf(a, fs)[p] = MeantKeys(a, p) /\ \A k \in MeantKeys(a, p) : IsLabel(a, k)
<1> DEFINE q == Substituted(QueryFor(a, p))
           T == Retrieved(a, q, fs)
           js == GroupingSets(a)
           M == Meant(a, p)
           move(o) == KeyPutBack(q, a.dims, o)
           total == TotalKey(a.dims)
           R == RawOf(a, fs)[p]
<1>1. R = Realigned(a, q, T)
  BY RawIs DEF Told
<1>2. Read(a, q, fs) = M
  BY ReadIsMeant DEF FiltersFit, Told
<1>3. DOMAIN Realigned(a, q, T) = {move(o) : o \in DOMAIN T}
  BY RealignedIs
<1>4. /\ Listed(a) /\ "tree" \notin Range(a.dims) /\ Even(a, q) /\ BaseMetrics(a) # {}
      /\ Follows(q, a, ShiftIn(p)) /\ ShiftIn(p) \in Shifts
  BY DimsAreListed, PartIsEven, BasesOfMetrics, SubstitutedIs, PartNames DEF Told, Plainly
<1>5. Rowed(a, T)
  BY <1>4, RetrievedAreRowed
<1>6. ASSUME NEW k, OfSomeGrain(a, k), NEW m \in BaseMetrics(a)
      PROVE  Tells(T, a, Added(a, q, fs, k, m), k, m)
  BY <1>4, <1>6, RetrievedAdds
<1>7. ASSUME NEW f \in M, NEW j PROVE move(KeyAt(f, a.dims, j)) = KeyAt(As(a, p, f), a.dims, j)
  <2>1. Domains[a.domain].backend = "ibis" => ~q.calendar
    BY <1>4 DEF Told, ByMonth, Follows
  <2>2. f \in Movable(q)
    BY <1>2, <2>1, ReadIsMovable
  <2>3. ASSUME NEW i \in DOMAIN a.dims
        PROVE  PutBack(q, ValueOf(f, a.dims[i]), a.dims[i]) = ValueOf(As(a, p, f), a.dims[i])
    <3>1. /\ a.dims[i] \in TimeDims => (ShiftIn(p) = "pp" => GrainOf[a.dims[i]] = a.grain)
          /\ a.dims[i] \in TimeDims \cup {"cc", "client", "division"}
      BY DimsAre DEF Told, Plainly, Aligned
    <3>2. PutBack(q, ValueOf(f, a.dims[i]), a.dims[i]) = ValueOf(Shown(f, a.grain, ShiftIn(p)), a.dims[i])
      BY <1>4, <2>2, <3>1, ValuesPutBack
    <3>3. QED
      BY <3>2 DEF As, ShiftIn
  <2>4. QED
    BY <2>3, KeyAtPutBack
<1>8. move(total) = total
  <2>1. Spelled(a.dims, TotalKey(a.dims))
    BY DEF Spelled, TotalKey
  <2>2. QED
    BY <2>1, PutBackKeeps
<1>9. Labels(a, p) = {KeyAt(As(a, p, f), a.dims, j) : f \in M, j \in js} \cup {total : j \in js \cap {0}}
  BY <1>4 DEF Labels
<1>10. \A k \in Labels(a, p) : IsLabel(a, k)
  <2>1. /\ \A f : \A j \in js : IsLabel(a, KeyAt(f, a.dims, j))
        /\ 0 \in js => IsLabel(a, total)
    BY <1>4, KeysAreLabels
  <2> HIDE DEF M, js, total
  <2>2. QED
    BY <1>9, <2>1
<1>11. ASSUME NEW k, IsLabel(a, k), NEW m \in BaseMetrics(a) PROVE Figure(R, k, m) = MeantFigure(a, p, k, m)
  BY <1>11, RawTells
<1>12. \A k : k \in MeantKeys(a, p) <=>
         k \in Labels(a, p) /\ (k = total \/ \E m \in BaseMetrics(a) : MeantFigure(a, p, k, m) # None)
  BY <1>4 DEF MeantKeys
<1>13. ASSUME NEW o \in DOMAIN T PROVE move(o) \in MeantKeys(a, p)
  <2>1. OfSomeGrain(a, o)
    BY <1>5 DEF Rowed
  <2>2. PICK m \in BaseMetrics(a) : m \in DOMAIN T[o]
    BY <1>5 DEF Rowed
  <2> DEFINE A == Added(a, q, fs, o, m)
  <2>3. Tells(T, a, A, o, m)
    BY <1>6, <2>1
  <2> HIDE DEF T
  <2>4. Below(A, a.dims, o) # {} \/ o = total
    BY <2>2, <2>3 DEF Tells
  <2>5. CASE o = total
    <3>1. 0 \in js
      BY <1>4, <2>1, <2>5, TotalIsAsked
    <3>2. total \in Labels(a, p)
      BY <1>9, <3>1
    <3>3. QED
      BY <1>8, <1>12, <2>5, <3>2
  <2>6. CASE o # total
    <3>1. PICK f \in A : InGroup(f, a.dims, o)
      BY <2>4, <2>6 DEF Below
    <3>2. f \in M
      BY <1>2, <3>1 DEF Added
    <3>3. PICK j \in js : \A i \in DOMAIN a.dims : o[i] = Rolled <=> i > j
      BY <2>1 DEF OfSomeGrain
    <3>4. o = KeyAt(f, a.dims, j)
      <4>1. j \in Int /\ DOMAIN a.dims \subseteq Int /\ Spelled(a.dims, o)
        BY <1>4, <2>1, GrainsAre DEF Listed, OfSomeGrain
      <4>2. QED
        BY <3>1, <3>3, <4>1, RowIsKey
    <3> DEFINE k == KeyAt(As(a, p, f), a.dims, j)
    <3>5. move(o) = k /\ k \in Labels(a, p)
      <4>1. move(o) = k
        BY <1>7, <3>2, <3>4
      <4>2. k \in Labels(a, p)
        BY <1>9, <3>2
      <4>3. QED
        BY <4>1, <4>2
    <3> HIDE DEF k
    <3>6. IsLabel(a, k) /\ OfSomeGrain(a, k)
      BY <1>10, <3>5 DEF IsLabel
    <3>7. Added(a, q, fs, k, m) = A
      <4>1. \A i \in DOMAIN a.dims : k[i] = Rolled <=> o[i] = Rolled
        BY <2>1, <3>5, PutBackKeeps DEF OfSomeGrain
      <4>2. HasMonth(a, k) <=> HasMonth(a, o)
        BY <4>1 DEF HasMonth
      <4>3. QED
        BY <4>2 DEF Added
    <3> DEFINE U == {x \in Added(a, q, fs, k, m) : InGroup(As(a, p, x), a.dims, k)}
    <3>8. Figure(R, k, m) = IF U = {} /\ k # TotalKey(a.dims) THEN None ELSE Worth(a, U, m)
      <4>1. Figure(Realigned(a, q, Retrieved(a, q, fs)), k, m) =
              IF {x \in Added(a, q, fs, k, m) : InGroup(As(a, p, x), a.dims, k)} = {} /\ k # TotalKey(a.dims) THEN None
              ELSE Worth(a, {x \in Added(a, q, fs, k, m) : InGroup(As(a, p, x), a.dims, k)}, m)
        BY <1>4, <3>6, PartTells DEF Told, Plainly
      <4> HIDE DEF R, q
      <4>2. QED
        BY <1>1, <4>1 DEF T
    <3>9. U # {}
      <4>1. InGroup(As(a, p, f), a.dims, k)
        BY InOwnGroup DEF k
      <4>2. QED
        BY <3>1, <3>7, <4>1
    <3>10. Worth(a, U, m) # None
      <4>1. Average(a, U) # None
        BY <3>9 DEF Average, None
      <4>2. \A S : Sum(S) # None
        BY DEF Sum, None
      <4> HIDE DEF U
      <4>3. QED
        BY <4>1, <4>2 DEF Worth
    <3> HIDE DEF U, R
    <3>11. MeantFigure(a, p, k, m) # None
      BY <1>11, <3>6, <3>8, <3>9, <3>10
    <3>12. k \in MeantKeys(a, p)
      BY <1>12, <3>5, <3>11
    <3>13. QED
      BY <3>5, <3>12
  <2>7. QED
    BY <2>5, <2>6
<1>14. ASSUME NEW k \in MeantKeys(a, p) PROVE k \in DOMAIN R
  <2>1. IsLabel(a, k)
    BY <1>10, <1>12
  <2>2. CASE k = total
    <3>1. PICK m \in BaseMetrics(a) : TRUE
      BY <1>4
    <3>2. Tells(T, a, Added(a, q, fs, total, m), total, m)
      BY <1>6, <2>1, <2>2 DEF IsLabel
    <3> HIDE DEF T
    <3>3. total \in DOMAIN T
      BY <3>2 DEF Tells
    <3> HIDE DEF R, total, move
    <3>4. total \in DOMAIN Realigned(a, q, T)
      BY <1>3, <1>8, <3>3
    <3>5. QED
      BY <1>1, <2>2, <3>4
  <2>3. CASE k # total
    <3>1. PICK m \in BaseMetrics(a) : MeantFigure(a, p, k, m) # None
      BY <1>12, <2>3
    <3>2. Figure(R, k, m) # None
      BY <1>11, <2>1, <3>1
    <3> HIDE DEF R
    <3>3. QED
      BY <3>2 DEF Figure
  <2>4. QED
    BY <2>2, <2>3
<1> HIDE DEF R, T, move
<1>15. \A k \in DOMAIN R : k \in MeantKeys(a, p)
  BY <1>1, <1>3, <1>13
<1>16. DOMAIN R = MeantKeys(a, p)
  BY <1>14, <1>15
<1>17. \A k \in MeantKeys(a, p) : IsLabel(a, k)
  BY <1>10, <1>12
<1>18. QED
  BY <1>16, <1>17 DEF R

\* What each stage has made of the question.
Course ==
    /\ stage = "planned" => plan = Deduplicated({QueryFor(ask, p) : p \in AllParts(ask)})
    /\ ScopeChecked => plan = PlanOf(ask)
    /\ stage \in {"retrieved", "answered", "drilled"} => ~FederatedRefused(ask) /\ raw = RawOf(ask, filters)
    /\ stage \in {"answered", "drilled"} => report = Formatted(ask, raw)
    /\ stage = "drilled" =>
         \E i \in DOMAIN ask.blocks :
            /\ Resolve(Registry, ask.blocks[i].key).node = "real"
            /\ records = <<i, Inspected(ask, Resolve(Registry, ask.blocks[i].key).base.id)>>

\* The parts of a block are parts of the request.
LEMMA PartsAreAll ==
    ASSUME NEW a, NEW b \in BlocksOf(a)
    PROVE  /\ Parts(b) \subseteq AllParts(a)
           /\ ~Compares(Resolve(Registry, b.key)) => Parts(b) = {Filed(b)}
           /\ Compares(Resolve(Registry, b.key)) =>
                /\ Plain(KeyOf(Resolve(Registry, b.key).left)) \in AllParts(a)
                /\ Plain(KeyOf(Resolve(Registry, b.key).right)) \in AllParts(a)
<1>1. Parts(b) \subseteq AllParts(a)
  BY DEF AllParts
<1>2. ~Compares(Resolve(Registry, b.key)) => Parts(b) = {Filed(b)}
  BY DEF Parts
<1>3. Compares(Resolve(Registry, b.key)) =>
        Parts(b) = {Plain(KeyOf(Resolve(Registry, b.key).left)), Plain(KeyOf(Resolve(Registry, b.key).right))}
  BY DEF Parts
<1>4. QED
  BY <1>1, <1>2, <1>3

\* A report has the rows of its parts.
LEMMA RowsAreOfParts ==
    ASSUME NEW a, NEW whole, DOMAIN whole = AllParts(a)
    PROVE  UNION {BlockKeys(whole, b) : b \in BlocksOf(a)} = UNION {DOMAIN whole[p] : p \in AllParts(a)}
<1> DEFINE all == UNION {DOMAIN whole[p] : p \in AllParts(a)}
           rows == UNION {BlockKeys(whole, b) : b \in BlocksOf(a)}
<1>1. RowKeys(whole) = all
  BY DEF RowKeys
<1>2. \A k : k \in all <=> \E p \in AllParts(a) : k \in DOMAIN whole[p]
  OBVIOUS
<1>3. \A k : k \in rows <=> \E b \in BlocksOf(a) : k \in BlockKeys(whole, b)
  OBVIOUS
<1> HIDE DEF all, rows
<1>4. ASSUME NEW b \in BlocksOf(a), NEW k \in BlockKeys(whole, b) PROVE k \in all
  <2>1. CASE Compares(Resolve(Registry, b.key))
    BY <1>1, <1>4, <2>1 DEF BlockKeys
  <2>2. CASE ~Compares(Resolve(Registry, b.key))
    <3>1. k \in DOMAIN whole[Filed(b)]
      BY <1>4, <2>2 DEF BlockKeys
    <3>2. Filed(b) \in AllParts(a)
      BY <2>2, PartsAreAll
    <3>3. QED
      BY <1>2, <3>1, <3>2
  <2>3. QED
    BY <2>1, <2>2
<1>5. ASSUME NEW p \in AllParts(a), NEW k \in DOMAIN whole[p] PROVE k \in rows
  <2>1. PICK b \in BlocksOf(a) : p \in Parts(b)
    BY DEF AllParts
  <2>2. CASE Compares(Resolve(Registry, b.key))
    <3>1. k \in BlockKeys(whole, b)
      BY <1>1, <1>2, <1>5, <2>2 DEF BlockKeys
    <3>2. QED
      BY <1>3, <3>1
  <2>3. CASE ~Compares(Resolve(Registry, b.key))
    <3>1. p = Filed(b)
      BY <2>1, <2>3, PartsAreAll
    <3>2. k \in BlockKeys(whole, b)
      BY <1>5, <2>3, <3>1 DEF BlockKeys
    <3>3. QED
      BY <1>3, <3>2
  <2>4. QED
    BY <2>2, <2>3
<1>6. rows = all
  BY <1>2, <1>3, <1>4, <1>5
<1>7. QED
  BY <1>6 DEF rows, all

\* A block's figure is the one meant where those of its parts are.
LEMMA BlockTells ==
    ASSUME NEW a, NEW whole, NEW b \in BlocksOf(a), NEW k, NEW m,
           \A p \in AllParts(a) : Figure(whole[p], k, m) = MeantFigure(a, p, k, m)
    PROVE  BlockFigure(whole, b, k, m) = MeantBlock(a, b, k, m)
<1> DEFINE ref == Resolve(Registry, b.key)
           l == Plain(KeyOf(ref.left))
           r == Plain(KeyOf(ref.right))
<1>1. CASE ~Compares(ref)
  <2>1. BlockFigure(whole, b, k, m) = Figure(whole[Filed(b)], k, m)
    BY <1>1 DEF BlockFigure, Compares
  <2>2. MeantBlock(a, b, k, m) = MeantFigure(a, Filed(b), k, m)
    BY <1>1 DEF MeantBlock
  <2>3. Filed(b) \in AllParts(a)
    BY <1>1, PartsAreAll
  <2>4. QED
    BY <2>1, <2>2, <2>3
<1>2. CASE Compares(ref)
  <2> DEFINE op == IF ref.node = "variance" THEN "-" ELSE "%"
  <2>1. l \in AllParts(a) /\ r \in AllParts(a)
    BY <1>2, PartsAreAll
  <2>2. BlockFigure(whole, b, k, m) = Apply(op, Figure(whole[l], k, m), Figure(whole[r], k, m))
    <3>1. CASE ref.node = "variance"
      BY <3>1 DEF BlockFigure
    <3>2. CASE ref.node # "variance" /\ ref.node = "variance_pct"
      BY <3>2 DEF BlockFigure
    <3>3. QED
      BY <1>2, <3>1, <3>2 DEF Compares
  <2>3. MeantBlock(a, b, k, m) = Apply(op, MeantFigure(a, l, k, m), MeantFigure(a, r, k, m))
    BY <1>2 DEF MeantBlock
  <2> HIDE DEF l, r, op, ref
  <2>4. QED
    BY <2>1, <2>2, <2>3
<1>3. QED
  BY <1>1, <1>2

\* The report of a request is the one meant.
LEMMA ReportTells ==
    ASSUME MembersAreKnown, NEW a \in Asks, ~Refused(a), ~FederatedRefused(a), Told(a),
           NEW fs, FiltersFit(a, fs), NEW rep, rep = Formatted(a, RawOf(a, fs))
    PROVE  /\ DOMAIN rep = UNION {MeantKeys(a, p) : p \in AllParts(a)}
           /\ \A k \in DOMAIN rep, m \in Range(a.metrics), i \in DOMAIN a.blocks :
                 rep[k][m][i] = MeantBlock(a, a.blocks[i], k, m)
<1> DEFINE data == RawOf(a, fs)
           whole == [p \in AllParts(a) |-> IF p \in DOMAIN data THEN data[p] ELSE <<>>]
           K == UNION {BlockKeys(whole, b) : b \in BlocksOf(a)}
<1>1. rep = [k \in K |-> [m \in Range(a.metrics) |-> [i \in DOMAIN a.blocks |-> BlockFigure(whole, a.blocks[i], k, m)]]]
  BY Zenon DEF Formatted
<1>2. DOMAIN whole = AllParts(a) /\ \A p \in AllParts(a) : whole[p] = data[p]
  <2>1. \A p \in AllParts(a) : p \in DOMAIN data
    BY RawIs DEF Told
  <2> HIDE DEF data
  <2>2. QED
    BY <2>1
<1> HIDE DEF whole, K
<1>3. DOMAIN rep = K /\ \A k \in K, m \in Range(a.metrics), i \in DOMAIN a.blocks :
        rep[k][m][i] = BlockFigure(whole, a.blocks[i], k, m)
  BY <1>1
<1>4. K = UNION {DOMAIN whole[p] : p \in AllParts(a)}
  BY <1>2, RowsAreOfParts DEF K
<1>5. \A p \in AllParts(a) : DOMAIN whole[p] = MeantKeys(a, p) /\ \A k \in MeantKeys(a, p) : IsLabel(a, k)
  BY <1>2, RawRows
<1>7. K = UNION {MeantKeys(a, p) : p \in AllParts(a)}
  BY <1>4, <1>5
<1>8. ASSUME NEW k \in K, NEW m \in Range(a.metrics), NEW i \in DOMAIN a.blocks
      PROVE  BlockFigure(whole, a.blocks[i], k, m) = MeantBlock(a, a.blocks[i], k, m)
  <2>1. IsLabel(a, k)
    BY <1>4, <1>5
  <2>2. \A p \in AllParts(a) : Figure(whole[p], k, m) = MeantFigure(a, p, k, m)
    BY <1>2, <2>1, RawTells
  <2>3. a.blocks[i] \in BlocksOf(a)
    BY DEF BlocksOf
  <2>4. QED
    BY <2>2, <2>3, BlockTells
<1>9. QED
  BY <1>3, <1>7, <1>8

\* What a part is about is behind a block that was asked for.
LEMMA AboutIsInvolved ==
    ASSUME NEW a \in Asks, ~Refused(a), NEW p \in AllParts(a)
    PROVE  About(p) \in InvolvedIn(a)
BY ReadsInvolved, SubstitutedIs

\* A report that is presented is the one meant.
LEMMA FiguresTell == MembersAreKnown /\ ReportInv /\ Course => (Told(ask) => FiguresMeanTheirLabels)
<1> SUFFICES ASSUME MembersAreKnown, ReportInv, Course, Told(ask), Presented
             PROVE  /\ DOMAIN report = UNION {MeantKeys(ask, p) : p \in AllParts(ask)}
                    /\ \A k \in DOMAIN report, m \in Range(ask.metrics), i \in DOMAIN ask.blocks :
                          report[k][m][i] = MeantBlock(ask, ask.blocks[i], k, m)
  BY DEF FiguresMeanTheirLabels
<1>1. stage \in {"answered", "drilled"}
  BY DEF Presented
<1>2. ask \in Asks /\ ~Refused(ask) /\ ~FederatedRefused(ask) /\ report = Formatted(ask, RawOf(ask, filters))
  BY <1>1 DEF ReportInv, PlanIsInvolved, Planned, Course
<1>3. FiltersFit(ask, filters)
  <2>1. SUFFICES ASSUME NEW p \in AllParts(ask)
                 PROVE  /\ About(p) \in DOMAIN ask.scope
                        /\ ask.scope[About(p)].open \/ ask.domain \in ask.scope[About(p)].admits \ ask.scope[About(p)].bars
                        /\ filters = Effective(ask.scope[About(p)], ResolveFilters(ask.filters))
    BY DEF FiltersFit
  <2>2. About(p) \in InvolvedIn(ask)
    BY <1>2, AboutIsInvolved
  <2>3. About(p) \in DOMAIN ask.scope
    BY <1>1, <2>2 DEF ReportInv, PlanIsInvolved, Planned, GateCloses
  <2>4. ask.scope[About(p)] \in Scopes(ask)
    BY <2>2 DEF Scopes
  <2>5. QED
    BY <1>1, <2>3, <2>4 DEF ReportInv, FiltersAreShared, ScopeChecked
<1>4. QED
  BY <1>2, <1>3, ReportTells

\* Nothing has been made of it at first.
LEMMA CourseInit == ReportInit => Course
BY DEF ReportInit, Course, ScopeChecked

\* Every step makes of the question what the stage says.
LEMMA CourseNext == Course /\ [ReportNext]_reportVars => Course'
<1> SUFFICES ASSUME Course, [ReportNext]_reportVars PROVE Course'
  OBVIOUS
<1>1. ASSUME Refuse PROVE Course'
  BY <1>1 DEF Refuse, Course, ScopeChecked
<1>2. CASE Plan
  BY <1>1, <1>2 DEF Plan, Course, ScopeChecked
<1>3. CASE Scope
  <2>1. CASE Refuse
    BY <1>1, <2>1
  <2>2. CASE ~Refuse
    <3>1. stage = "planned" /\ stage' = "scoped" /\ ask' = ask /\ plan' = {Substituted(q) : q \in plan}
      BY <1>3, <2>2 DEF Scope
    <3>2. plan' = PlanOf(ask)
      BY <3>1 DEF Course, PlanOf
    <3>3. QED
      BY <3>1, <3>2 DEF Course, ScopeChecked
  <2>3. QED
    BY <2>1, <2>2
<1>4. CASE Retrieve
  <2>1. CASE Refuse
    BY <1>1, <2>1
  <2>2. CASE ~Refuse
    <3> DEFINE query(p) == CHOOSE q \in plan : q.part = p
    <3>1. /\ stage = "scoped" /\ stage' = "retrieved" /\ ~FederatedRefused(ask) /\ ask' = ask /\ plan' = plan /\ filters' = filters
          /\ raw' = [p \in {q.part : q \in plan} |-> Realigned(ask, query(p), Retrieved(ask, query(p), filters))]
      BY <1>4, <2>2 DEF Retrieve
    <3>2. plan = PlanOf(ask)
      BY <3>1 DEF Course, ScopeChecked
    <3> DEFINE X(P) == [p \in {q.part : q \in P} |->
                          Realigned(ask, CHOOSE q \in P : q.part = p,
                                    Retrieved(ask, CHOOSE q \in P : q.part = p, filters))]
    <3>3. raw' = RawOf(ask, filters)
      <4>1. raw' = X(plan)
        BY <3>1, Zenon
      <4>2. RawOf(ask, filters) = X(PlanOf(ask))
        BY Zenon DEF RawOf
      <4> HIDE DEF X
      <4>3. QED
        BY <3>2, <4>1, <4>2
    <3>4. QED
      BY <3>1, <3>2, <3>3 DEF Course, ScopeChecked
  <2>3. QED
    BY <2>1, <2>2
<1>5. CASE Present
  BY <1>5 DEF Present, Course, ScopeChecked
<1>6. ASSUME NEW i \in DOMAIN ask.blocks, Drill(i) PROVE Course'
  BY <1>6 DEF Drill, Course, ScopeChecked
<1>7. CASE Discover
  BY <1>7 DEF Discover, Course, ScopeChecked
<1>8. CASE UNCHANGED reportVars
  BY <1>8 DEF reportVars, Course, ScopeChecked
<1>9. QED
  BY <1>2, <1>3, <1>4, <1>5, <1>6, <1>7, <1>8 DEF ReportNext, Done

\* A flow that is asked for is a base metric.
LEMMA FlowIsAsked ==
    ASSUME NEW a, "flow" \in Range(a.metrics)
    PROVE  "flow" \in BaseMetrics(a)
<1>1. BaseOf["flow"] = {"flow"}
  BY BasesAre, MetricNames
<1>2. QED
  BY <1>1 DEF BaseMetrics

\* The total is of a grain where it is asked for.
LEMMA TotalIsLabel ==
    ASSUME NEW a, Listed(a), 0 \in GroupingSets(a)
    PROVE  OfSomeGrain(a, TotalKey(a.dims))
BY KeysAreLabels DEF IsLabel

\* Where no total is asked for, none is shown.
LEMMA NoTotalShown ==
    ASSUME NEW a \in Asks, ByMonth(a), "tree" \notin Range(a.dims), 0 \notin GroupingSets(a), NEW fs
    PROVE  TotalKey(a.dims) \notin DOMAIN Formatted(a, RawOf(a, fs))
<1> DEFINE data == RawOf(a, fs)
           whole == [p \in AllParts(a) |-> IF p \in DOMAIN data THEN data[p] ELSE <<>>]
           k == TotalKey(a.dims)
<1>1. DOMAIN Formatted(a, data) = UNION {BlockKeys(whole, b) : b \in BlocksOf(a)}
  BY DEF Formatted
<1>2. Listed(a) /\ (a.grains.subtotals => a.grains.total)
  BY DimsAreListed, AsksAssumption
<1>3. 1 \in DOMAIN a.dims
  BY <1>2, NamedKeys
<1>4. k[1] = Rolled
  BY <1>3 DEF TotalKey
<1>5. ASSUME NEW p \in DOMAIN data PROVE k \notin DOMAIN data[p]
  <2> DEFINE q == CHOOSE x \in PlanOf(a) : x.part = p
             T == Retrieved(a, q, fs)
  <2>1. data[p] = Realigned(a, q, T)
    <3> DEFINE query(x) == CHOOSE y \in PlanOf(a) : y.part = x
    <3>1. data = [x \in {y.part : y \in PlanOf(a)} |-> Realigned(a, query(x), Retrieved(a, query(x), fs))]
      BY Zenon DEF RawOf
    <3> HIDE DEF data
    <3>2. p \in {y.part : y \in PlanOf(a)}
      BY <3>1
    <3>3. data[p] = Realigned(a, query(p), Retrieved(a, query(p), fs))
      BY <3>1, <3>2
    <3>4. QED
      BY <3>3
  <2>2. ~q.calendar \/ Domains[a.domain].backend # "ibis"
    <3>1. q \in PlanOf(a)
      BY DEF RawOf
    <3> HIDE DEF q
    <3>2. PICK r \in Deduplicated({QueryFor(a, o) : o \in AllParts(a)}) : q = Substituted(r)
      BY <3>1 DEF PlanOf
    <3>3. PICK o \in AllParts(a) : r = QueryFor(a, o)
      BY <3>2 DEF Deduplicated
    <3>4. Follows(q, a, ShiftIn(o))
      BY <3>2, <3>3, SubstitutedIs
    <3>5. QED
      BY <3>4 DEF Follows, ByMonth
  <2> HIDE DEF q
  <2>3. \A o \in DOMAIN T : Spelled(a.dims, o) /\ o[1] # Rolled
    BY <1>2, <2>2, RetrievedKeys DEF MadeOf
  <2>4. DOMAIN Realigned(a, q, T) = {KeyPutBack(q, a.dims, o) : o \in DOMAIN T}
    BY RealignedIs
  <2> HIDE DEF T
  <2>5. \A o \in DOMAIN T : KeyPutBack(q, a.dims, o)[1] # Rolled
    BY <1>3, <2>3, PutBackKeeps
  <2> HIDE DEF k, data
  <2>6. QED
    BY <1>4, <2>1, <2>4, <2>5
<1>6. \A p \in AllParts(a) : k \notin DOMAIN whole[p]
  <2> HIDE DEF data, k
  <2>1. DOMAIN <<>> = {}
    OBVIOUS
  <2>2. QED
    BY <1>5, <2>1
<1>7. ASSUME NEW b \in BlocksOf(a) PROVE k \notin BlockKeys(whole, b)
  <2>1. DOMAIN whole = AllParts(a)
    OBVIOUS
  <2> HIDE DEF whole, k
  <2>2. CASE Compares(Resolve(Registry, b.key))
    BY <1>6, <2>1, <2>2 DEF BlockKeys, RowKeys
  <2>3. CASE ~Compares(Resolve(Registry, b.key))
    <3>1. Filed(b) \in AllParts(a)
      BY <2>3 DEF AllParts, Parts
    <3>2. QED
      BY <1>6, <2>3, <3>1 DEF BlockKeys
  <2>4. QED
    BY <2>2, <2>3
<1> HIDE DEF whole, k, data
<1>8. k \notin DOMAIN Formatted(a, data)
  BY <1>1, <1>7
<1>9. QED
  BY <1>8 DEF k, data

\* What a plain query reads is what a drill returns.
LEMMA ReadIsInspected ==
    ASSUME NEW a \in Asks, ByMonth(a), NEW id, NEW q, q.scenario = id, q.from = a.from, q.to = a.to,
           ~q.calendar, q.part.reads = "committed",
           NEW fs, fs = Effective(a.scope[id], ResolveFilters(a.filters))
    PROVE  Read(a, q, fs) = Inspected(a, id)
<1> DEFINE common(f) == /\ f \in Facts /\ f.domain = a.domain /\ f.scenario = id
                        /\ \A d \in DOMAIN fs : f[d] \in fs[d]
           fresh(f) == Domains[a.domain].versioned => ~f.draft
           within(f) == TimeOf(f, a.grain) \in a.from .. a.to
<1>1. Inspected(a, id) = {f \in Facts : common(f) /\ fresh(f) /\ within(f)}
  BY DEF Inspected
<1>2. CASE Domains[a.domain].backend = "ibis"
  <2>1. a.grain = "month" /\ ~Domains[a.domain].versioned
    BY <1>2, AsksAssumption, DomainsAssumption DEF ByMonth
  <2>2. \A f : TextInWindow(q, a.grain, f.month) <=> within(f)
    BY <2>1 DEF TextInWindow, TimeOf, InGrain
  <2>3. \A f : fresh(f)
    BY <2>1
  <2>4. \A f : f \in Reached(a, q, fs) <=> common(f)
    BY DEF Reached, Rows
  <2>5. Read(a, q, fs) = {f \in Reached(a, q, fs) : TextInWindow(q, a.grain, f.month)}
    BY <1>2 DEF Read
  <2>6. \A f : common(f) => f \in Facts
    OBVIOUS
  <2> HIDE DEF common, fresh, within
  <2>7. QED
    BY <1>1, <2>2, <2>3, <2>4, <2>5, <2>6
<1>3. CASE Domains[a.domain].backend # "ibis"
  <2>1. \A f : InWindow(a, q, f) <=> within(f)
    BY DEF InWindow
  <2>2. \A f : Versioned(a, q, f) <=> fresh(f)
    BY DEF Versioned
  <2>3. \A f : f \in KeptRows(a, q, fs) <=> common(f) /\ Versioned(a, q, f)
    BY DEF KeptRows, Rows
  <2>4. Read(a, q, fs) = {f \in KeptRows(a, q, fs) : InWindow(a, q, f)}
    BY <1>3 DEF Read
  <2>5. \A f : common(f) => f \in Facts
    OBVIOUS
  <2> HIDE DEF common, fresh, within
  <2>6. QED
    BY <1>1, <2>1, <2>2, <2>3, <2>4, <2>5
<1>4. QED
  BY <1>2, <1>3

\* The records of a drill add up to the figure above them.
LEMMA DrillTells == ReportInv /\ Course => (ByMonth(ask) => DrillExplainsFigure)
<1> SUFFICES ASSUME ByMonth(ask), ReportInv, Course, stage = "drilled" PROVE DrillExplainsFigure
  BY DEF DrillExplainsFigure
<1>1. PICK i \in DOMAIN ask.blocks :
         /\ Resolve(Registry, ask.blocks[i].key).node = "real"
         /\ records = <<i, Inspected(ask, Resolve(Registry, ask.blocks[i].key).base.id)>>
  BY DEF Course
<1> DEFINE b == ask.blocks[i]
           ref == Resolve(Registry, b.key)
           k == TotalKey(ask.dims)
<1>2. records[1] = i /\ records[2] = Inspected(ask, ref.base.id)
  BY <1>1
<1> SUFFICES ASSUME b = Plain(b.key), "flow" \in Range(ask.metrics), k \in DOMAIN report, "tree" \notin Range(ask.dims)
             PROVE  report[k]["flow"][i] = Sum(Inspected(ask, ref.base.id))
  BY <1>2 DEF DrillExplainsFigure
<1>3. /\ ask \in Asks /\ ~Refused(ask) /\ raw = RawOf(ask, filters) /\ report = Formatted(ask, raw)
      /\ b \in BlocksOf(ask)
  BY DEF ReportInv, PlanIsInvolved, Planned, Course, BlocksOf
<1>4. 0 \in GroupingSets(ask)
  BY <1>3, NoTotalShown
<1>5. b.key \in Seq(Words) /\ ref # Unknown
  <2>1. b.key \in Seq(STRING) /\ ref # Unknown
    BY <1>3, AsksAssumption DEF Refused
  <2>2. STRING \subseteq Words
    BY DEF Words
  <2>3. QED
    BY <2>1, <2>2, WiderSeq
<1>6. ~Compares(ref) /\ ref.node = "real"
  BY <1>1 DEF Compares
<1>7. PICK s \in Registry : ref = Real(s)
  <2>1. IsSimple(ref)
    BY <1>5, <1>6, ResolvedIs
  <2> HIDE DEF ref
  <2>2. QED
    BY <1>6, <2>1 DEF IsSimple, Real, Moved
<1>8. ref.base = s /\ KeyOf(ref) = s.alias
  <2> HIDE DEF ref
  <2>1. QED
    BY <1>7 DEF KeyOf, Real, Compares
<1>9. Resolve(Registry, s.alias) = Real(s)
  <2>1. Resolve(Registry, KeyOf(ref)) = ref
    BY <1>5, <1>6, ResolvedAgain
  <2> HIDE DEF ref
  <2>2. QED
    BY <1>7, <1>8, <2>1
<1> DEFINE p0 == Plain(s.alias)
<1>10. Filed(b) = p0
  <2>1. Filed(b) = [b EXCEPT !.key = s.alias]
    BY <1>8 DEF Filed
  <2>2. b = [key |-> b.key, fork |-> <<"none">>, reads |-> "committed"]
    BY DEF Plain
  <2> HIDE DEF b
  <2>3. QED
    BY <2>1, <2>2 DEF Plain
<1>11. p0 \in AllParts(ask)
  BY <1>3, <1>6, <1>10 DEF AllParts, Parts
<1> DEFINE q0 == Substituted(QueryFor(ask, p0))
           T == Retrieved(ask, q0, filters)
           S == Read(ask, q0, filters)
           U == {f \in S : InGroup(As(ask, p0, f), ask.dims, k)}
<1>12. ShiftIn(p0) = "none" /\ About(p0) = s.id /\ p0.reads = "committed"
  <2>1. p0.key = s.alias /\ p0.fork = <<"none">> /\ p0.reads = "committed"
    BY DEF Plain
  <2> HIDE DEF p0, b, ref
  <2>2. Resolve(Registry, p0.key).base = s /\ ShiftOf(Resolve(Registry, p0.key)) = "none"
    BY <1>9, <2>1 DEF Real, ShiftOf
  <2>3. QED
    BY <2>1, <2>2 DEF ShiftIn, About
<1> HIDE DEF q0
<1>13. Follows(q0, ask, "none") /\ q0.part = p0 /\ q0.scenario = s.id
  BY <1>12, SubstitutedIs DEF q0
<1>14. p0 \in DOMAIN raw /\ raw[p0] = Realigned(ask, q0, T)
  <2> HIDE DEF p0, b, ref
  <2>1. QED
    BY <1>3, <1>11, <1>12, RawIs DEF q0
<1>15. Figure(Realigned(ask, q0, T), k, "flow") = Worth(ask, U, "flow")
  <2>1. "flow" \in Ranged \cap BaseMetrics(ask)
    BY FlowIsAsked DEF Ranged
  <2>2. OfSomeGrain(ask, k)
    BY <1>3, <1>4, DimsAreListed, TotalIsLabel
  <2>3. Aligned(ask, ShiftIn(p0))
    BY <1>12 DEF Aligned
  <2> HIDE DEF p0, b, ref, k
  <2>4. Figure(Realigned(ask, q0, T), k, "flow") =
          IF U = {} /\ k # TotalKey(ask.dims) THEN None ELSE Worth(ask, U, "flow")
    <3> DEFINE V == {f \in Read(ask, q0, filters) : InGroup(As(ask, p0, f), ask.dims, k)}
    <3>1. Figure(Realigned(ask, q0, Retrieved(ask, q0, filters)), k, "flow") =
            IF V = {} /\ k # TotalKey(ask.dims) THEN None ELSE Worth(ask, V, "flow")
      <4> DEFINE A == Added(ask, q0, filters, k, "flow")
      <4>1. A = Read(ask, q0, filters)
        BY DEF Added
      <4>2. Figure(Realigned(ask, q0, Retrieved(ask, q0, filters)), k, "flow") =
              IF {f \in Added(ask, q0, filters, k, "flow") : InGroup(As(ask, p0, f), ask.dims, k)} = {}
                 /\ k # TotalKey(ask.dims) THEN None
              ELSE Worth(ask, {f \in Added(ask, q0, filters, k, "flow") : InGroup(As(ask, p0, f), ask.dims, k)}, "flow")
        BY <1>3, <1>11, <2>1, <2>2, <2>3, PartTells DEF q0
      <4>3. QED
        BY <4>1, <4>2
    <3>2. QED
      BY <3>1
  <2>5. QED
    BY <2>4 DEF k
<1>16. U = S
  <2>1. \A f : InGroup(f, ask.dims, k)
    BY DEF InGroup, TotalKey
  <2> HIDE DEF S, k, p0
  <2>2. QED
    BY <2>1
<1>17. Worth(ask, S, "flow") = Sum(S)
  <2>1. \A f : Holds("flow", f)
    BY DEF Holds
  <2>2. Rollup["flow"] # "avg"
    BY DEF Rollup
  <2>3. {f \in S : Holds("flow", f)} = S
    BY <2>1
  <2>4. QED
    BY <2>2, <2>3 DEF Worth
<1>18. filters = Effective(ask.scope[s.id], ResolveFilters(ask.filters))
  <2>1. s.id \in InvolvedBy(b)
    <3>1. Dependencies(ref) = {s.id}
      BY <1>6, <1>8 DEF Dependencies
    <3>2. QED
      BY <3>1 DEF InvolvedBy
  <2>2. ask.scope[s.id] \in Scopes(ask)
    BY <1>3, <2>1 DEF Scopes, InvolvedIn
  <2>3. QED
    BY <2>2 DEF ReportInv, FiltersAreShared, ScopeChecked
<1>19. S = Inspected(ask, s.id)
  <2>1. q0.from = ask.from /\ q0.to = ask.to /\ ~q0.calendar
    BY <1>13 DEF Follows
  <2> HIDE DEF p0
  <2>2. QED
    BY <1>3, <1>12, <1>13, <1>18, <2>1, ReadIsInspected
<1> DEFINE whole == [p \in AllParts(ask) |-> IF p \in DOMAIN raw THEN raw[p] ELSE <<>>]
<1>20. whole[p0] = raw[p0]
  BY <1>11, <1>14
<1>21. report[k]["flow"][i] = BlockFigure(whole, b, k, "flow")
  <2> DEFINE K == UNION {BlockKeys(whole, c) : c \in BlocksOf(ask)}
  <2>1. report = [x \in K |-> [m \in Range(ask.metrics) |->
                       [j \in DOMAIN ask.blocks |-> BlockFigure(whole, ask.blocks[j], x, m)]]]
    BY <1>3, Zenon DEF Formatted
  <2> HIDE DEF whole, k, K
  <2>2. k \in K
    BY <2>1
  <2>3. QED
    BY <2>1, <2>2
<1>22. BlockFigure(whole, b, k, "flow") = Figure(whole[Filed(b)], k, "flow")
  <2>1. ref.node # "variance" /\ ref.node # "variance_pct"
    BY <1>6
  <2> HIDE DEF whole, k
  <2>2. QED
    BY <2>1 DEF BlockFigure
<1> HIDE DEF p0, k, whole, T, S, U, b, ref
<1>23. report[k]["flow"][i] = Sum(Inspected(ask, s.id))
  BY <1>10, <1>14, <1>15, <1>16, <1>17, <1>19, <1>20, <1>21, <1>22
<1>24. QED
  BY <1>8, <1>23 DEF k, b, ref

\* The invariant and the course of a report hold throughout.
LEMMA CourseHolds == ReportSpec => [](ReportInv /\ Course)
<1>1. ReportInit => ReportInv /\ Course
  BY ReportInvInit, CourseInit
<1>2. ReportInv /\ Course /\ [ReportNext]_reportVars => (ReportInv /\ Course)'
  <2>1. ReportInv /\ [ReportNext]_reportVars => ReportInv'
    BY PlanKeeps, ScopeKeeps, RetrieveKeeps, PresentKeeps, DrillKeeps, DiscoverKeeps, NothingKeepsReport
       DEF ReportNext, Done
  <2>2. QED
    BY <2>1, CourseNext
<1>3. QED
  BY <1>1, <1>2, PTL DEF ReportSpec

\* The records of a drill add up to the figure above them (inspect.py): for a
\* plain block, a flow and the total row, the committed rows that inspect.py
\* selects, with conditions built a second time, have the sum that retriever.py
\* read, through the merging of queries, the substitution, the roll-up, the moving
\* of periods, the grains and the formatting.  Federated windows compare codes as
\* text, so a federated request has to be by the month.
THEOREM DrillIsTheFigure == TableSpec => [](ByMonth(ask) => DrillExplainsFigure)
BY CourseHolds, DrillTells, TableImplementsReport, PTL

\* Every figure of a report is the facts its labels name and no others
\* (resolver.py, retriever.py, ibis_retriever.py, transformer.py, formatter.py):
\* the scenario, or what its fork reads, moved forward for a prior period, in the
\* row, in the window, asked for and permitted, a balance those of the row's last
\* period, and no row is missing or made up.  So it is for every metric and
\* formula, with any blocks, comparisons, filters, scopes, grains and breakdowns
\* that are no ragged hierarchy, of requests that Told admits.
THEOREM FiguresAreMeant ==
    MembersAreKnown => (TableSpec => [](Told(ask) => FiguresMeanTheirLabels))
<1> SUFFICES ASSUME MembersAreKnown PROVE TableSpec => [](Told(ask) => FiguresMeanTheirLabels)
  OBVIOUS
<1>1. ReportInv /\ Course => (Told(ask) => FiguresMeanTheirLabels)
  BY FiguresTell
<1>2. QED
  BY <1>1, CourseHolds, TableImplementsReport, PTL

-----------------------------------------------------------------------------
(* The questions that are answered.                                        *)

\* Every row is a total or a time of its own, so that where it has a flow it has
\* its balance too.
Dated(a) ==
    /\ "tree" \notin Range(a.dims)
    /\ \A j \in GroupingSets(a) :
          \/ j = 0
          \/ /\ Domains[a.domain].native \in Range(a.dims)
             /\ \A i \in DOMAIN a.dims : a.dims[i] \in TimeGroups(a) \cup {Domains[a.domain].native} => i <= j

\* The requests that are answered: what is compared is filed apart, and formulas
\* are asked for where no row lacks a balance.
Answerable(a) ==
    /\ (\E b \in BlocksOf(a) : Compares(Resolve(Registry, b.key))) => Apart(a)
    /\ Range(a.metrics) \cap DOMAIN Formula # {} => Dated(a)

\* Has every table's row the metrics?
Has(T, M) == \A o \in DOMAIN T : M \subseteq DOMAIN T[o]

\* In tables with the rows K, one for each metric, a row has every metric.
LEMMA MergedHave ==
    ASSUME NEW tables, NEW M,
           \A t \in tables : \A o \in DOMAIN t, m \in M : \E u \in tables : o \in DOMAIN u /\ m \in DOMAIN u[o]
    PROVE  Has(Merged(tables), M)
<1> SUFFICES ASSUME NEW o \in DOMAIN Merged(tables), NEW m \in M PROVE m \in DOMAIN Merged(tables)[o]
  BY DEF Has
<1>1. \E t \in tables : o \in DOMAIN t
  BY DEF Merged
<1>2. PICK u \in tables : o \in DOMAIN u /\ m \in DOMAIN u[o]
  BY <1>1
<1> DEFINE dicts == {t[o] : t \in {x \in tables : o \in DOMAIN x}}
<1>3. u[o] \in dicts
  BY <1>2
<1>4. Merged(tables)[o] = [n \in UNION {DOMAIN d : d \in dicts} |-> (CHOOSE d \in dicts : n \in DOMAIN d)[n]]
  BY DEF Merged
<1> HIDE DEF dicts
<1>5. m \in UNION {DOMAIN d : d \in dicts}
  BY <1>2, <1>3
<1>6. QED
  BY <1>4, <1>5

\* The federated rows have every metric.
LEMMA FederatedHas ==
    ASSUME NEW a, NEW q, NEW fs
    PROVE  Has(Merged(Federated(a, q, fs)), BaseMetrics(a))
<1>1. ASSUME NEW t \in Federated(a, q, fs), NEW o \in DOMAIN t PROVE DOMAIN t[o] = BaseMetrics(a)
  BY <1>1 DEF Federated, Dict
<1>2. QED
  BY <1>1, MergedHave

\* The ClickHouse rows do, where every row is dated or the total.
LEMMA ClickHouseHas ==
    ASSUME NEW a, Listed(a), Dated(a), NEW q, NEW fs
    PROVE  Has(Merged(ClickHouse(a, q, fs)), BaseMetrics(a))
<1> DEFINE prefixes == GroupingSets(a)
           native   == Domains[a.domain].native
           single   == native \in Range(a.dims)
           groups   == TimeGroups(a)
           timeDims == groups \cup (IF single THEN {native} ELSE {})
           isLive(j) == \A i \in DOMAIN a.dims : a.dims[i] \in timeDims => i <= j
           live     == {j \in prefixes : isLive(j)}
           inRange  == {f \in KeptRows(a, q, fs) : InWindow(a, q, f)}
           closing  == {f \in KeptRows(a, q, fs) :
                          IF single THEN InWindow(a, q, f) ELSE IsClosing(a, q, f, groups)}
           t == Dicts(a, Grouped(inRange, a.dims, prefixes), RangeMetrics(a))
           u == Dicts(a, Grouped(closing, a.dims, live), ClosingMetrics(a))
           w == Dicts(a, ClosingTotals(a, q, fs, timeDims, prefixes \ live), ClosingMetrics(a))
           R == RangeMetrics(a)
           C == ClosingMetrics(a)
           tables == {t : x \in R} \cup {u : x \in {y \in C : live # {}}} \cup {w : x \in {y \in C : prefixes # live}}
           k0 == TotalKey(a.dims)
           K == {KeyAt(f, a.dims, j) : f \in inRange, j \in prefixes \ {0}}
<1>1. ClickHouse(a, q, fs) = tables
  BY Zenon DEF ClickHouse
<1>2. BaseMetrics(a) = R \cup C
  BY DEF RangeMetrics, ClosingMetrics
<1>3. /\ \A o \in DOMAIN t : DOMAIN t[o] = R
      /\ \A o \in DOMAIN u : DOMAIN u[o] = C
      /\ \A o \in DOMAIN w : DOMAIN w[o] = C
  BY DEF Dicts, Dict
<1>4. \A f : KeyAt(f, a.dims, 0) = k0
  <2>1. \A i \in DOMAIN a.dims : ~(i <= 0)
    BY DEF Listed
  <2>2. QED
    BY <2>1 DEF KeyAt, TotalKey
<1>5. \A o : o \in DOMAIN t <=> o \in K \/ (0 \in prefixes /\ o = k0)
  <2> HIDE DEF prefixes, inRange, k0, R
  <2>1. \A o : o \in DOMAIN t <=> (\E f \in inRange, j \in prefixes : o = KeyAt(f, a.dims, j)) \/ (0 \in prefixes /\ o = TotalKey(a.dims))
    BY DEF Dicts, Grouped
  <2>2. QED
    BY <1>4, <2>1 DEF k0
<1>6. \A j \in prefixes \ {0} : single /\ j \in live
  BY DEF Dated
<1>7. \A o : o \in DOMAIN u <=> o \in K \/ (0 \in live /\ o = k0)
  <2>1. \A o : o \in DOMAIN u <=> (\E f \in closing, j \in live : o = KeyAt(f, a.dims, j)) \/ (0 \in live /\ o = TotalKey(a.dims))
    BY DEF Dicts, Grouped
  <2>2. single => closing = inRange
    OBVIOUS
  <2>3. live \subseteq prefixes
    OBVIOUS
  <2> HIDE DEF prefixes, inRange, k0, live, closing, single, u
  <2>4. ASSUME NEW o, NEW f \in closing, NEW j \in live, o = KeyAt(f, a.dims, j) PROVE o \in K \/ (0 \in live /\ o = k0)
    <3>1. CASE j = 0
      BY <1>4, <2>4, <3>1
    <3>2. CASE j # 0
      BY <1>6, <2>2, <2>3, <2>4, <3>2
    <3>3. QED
      BY <3>1, <3>2
  <2>5. ASSUME NEW o \in K PROVE \E f \in closing, j \in live : o = KeyAt(f, a.dims, j)
    BY <1>6, <2>2
  <2>6. QED
    BY <2>1, <2>4, <2>5 DEF k0
<1>8. prefixes # live => 0 \in prefixes /\ 0 \notin live
  <2>1. live \subseteq prefixes
    OBVIOUS
  <2> HIDE DEF live, prefixes, single
  <2>2. QED
    BY <1>6, <2>1
<1>9. prefixes # live => DOMAIN w = {k0}
  <2> SUFFICES ASSUME prefixes # live PROVE DOMAIN w = {k0}
    OBVIOUS
  <2>1. prefixes \ live = {0}
    <3> HIDE DEF live, prefixes, single
    <3>1. QED
      BY <1>6, <1>8
  <2>2. w = Dicts(a, ClosingTotals(a, q, fs, timeDims, {0}), ClosingMetrics(a))
    BY <2>1
  <2> HIDE DEF w, timeDims
  <2>3. DOMAIN ClosingTotals(a, q, fs, timeDims, {0}) = {k0}
    <3> DEFINE S == {f \in KeptRows(a, q, fs) : IsClosing(a, q, f, {})}
               at(j) == {i \in 1 .. j : a.dims[i] \notin timeDims}
               key(f, j) == [i \in DOMAIN a.dims |-> IF i \in at(j) THEN ValueOf(f, a.dims[i]) ELSE Rolled]
    <3>1. at(0) = {}
      OBVIOUS
    <3>2. \A f : key(f, 0) = k0
      BY <3>1 DEF TotalKey
    <3>3. DOMAIN ClosingTotals(a, q, fs, timeDims, {0}) =
            {key(f, j) : f \in S, j \in {0}} \cup (IF \E j \in {0} : at(j) = {} THEN {TotalKey(a.dims)} ELSE {})
      BY DEF ClosingTotals
    <3> HIDE DEF S, at, key
    <3>4. QED
      BY <3>1, <3>2, <3>3
  <2>4. QED
    BY <2>2, <2>3 DEF Dicts
<1> HIDE DEF t, u, w, R, C, live, prefixes, k0, K, single
<1>10. ASSUME NEW x \in tables, NEW o \in DOMAIN x, NEW m \in R \cup C
       PROVE  \E y \in tables : o \in DOMAIN y /\ m \in DOMAIN y[o]
  <2>1. o \in K \/ (0 \in prefixes /\ o = k0)
    <3>1. live \subseteq prefixes
      BY DEF live
    <3>2. x = t \/ x = u \/ (x = w /\ prefixes # live)
      OBVIOUS
    <3>3. QED
      BY <1>5, <1>7, <1>8, <1>9, <3>1, <3>2
  <2>2. CASE m \in R
    BY <1>3, <1>5, <2>1, <2>2
  <2>3. CASE m \in C
    <3>1. CASE o \in K
      <4>1. live # {}
        BY <1>6, <3>1 DEF K
      <4>2. u \in tables /\ o \in DOMAIN u
        BY <1>7, <2>3, <3>1, <4>1
      <4>3. QED
        BY <1>3, <2>3, <4>2
    <3>2. CASE 0 \in prefixes /\ o = k0
      <4>1. CASE 0 \in live
        <5>1. u \in tables /\ o \in DOMAIN u
          BY <1>7, <2>3, <3>2, <4>1
        <5>2. QED
          BY <1>3, <2>3, <5>1
      <4>2. CASE 0 \notin live
        <5>1. prefixes # live
          BY <3>2, <4>2
        <5>2. w \in tables /\ o \in DOMAIN w
          BY <1>9, <2>3, <3>2, <5>1
        <5>3. QED
          BY <1>3, <2>3, <5>2
      <4>3. QED
        BY <4>1, <4>2
    <3>3. QED
      BY <2>1, <3>1, <3>2
  <2>4. QED
    BY <2>2, <2>3
<1> HIDE DEF tables
<1>11. Has(Merged(tables), R \cup C)
  BY <1>10, MergedHave
<1>12. QED
  BY <1>1, <1>2, <1>11

\* No row of what is retrieved lacks a metric.
LEMMA RetrievedHas ==
    ASSUME NEW a, Listed(a), Dated(a), NEW q, NEW fs
    PROVE  Has(Retrieved(a, q, fs), BaseMetrics(a))
<1>1. CASE Domains[a.domain].backend = "ibis"
  <2>1. Retrieved(a, q, fs) = Merged(Federated(a, q, fs))
    BY <1>1, Zenon DEF Retrieved, Dated
  <2>2. QED
    BY <2>1, FederatedHas
<1>2. CASE Domains[a.domain].backend # "ibis"
  <2>1. Retrieved(a, q, fs) = Merged(ClickHouse(a, q, fs))
    BY <1>2 DEF Retrieved, Dated
  <2>2. QED
    BY <2>1, ClickHouseHas
<1>3. QED
  BY <1>1, <1>2

\* What such a request retrieves lacks nothing that the arithmetic needs.
LEMMA NothingIsLacking ==
    ASSUME NEW a \in Asks, ~Refused(a), Answerable(a), NEW fs
    PROVE  ~Unfiled(a, RawOf(a, fs)) /\ \A p \in DOMAIN RawOf(a, fs) : ~Lacking(a, RawOf(a, fs)[p])
<1> DEFINE data == RawOf(a, fs)
<1>1. ~Unfiled(a, data)
  <2>1. SUFFICES ASSUME NEW b \in BlocksOf(a), Compares(Resolve(Registry, b.key)), NEW p \in Parts(b)
                 PROVE  p \in DOMAIN data
    BY DEF Unfiled
  <2>2. Apart(a) /\ p \in AllParts(a)
    BY <2>1, PartsAreAll DEF Answerable
  <2>3. QED
    BY <2>2, RawIs
<1>2. ASSUME NEW p \in DOMAIN data PROVE ~Lacking(a, data[p])
  <2>1. CASE Range(a.metrics) \cap DOMAIN Formula = {}
    BY <2>1 DEF Lacking
  <2>2. CASE Range(a.metrics) \cap DOMAIN Formula # {}
    <3> DEFINE query(x) == CHOOSE y \in PlanOf(a) : y.part = x
               T == Retrieved(a, query(p), fs)
    <3>1. data = [x \in {y.part : y \in PlanOf(a)} |-> Realigned(a, query(x), Retrieved(a, query(x), fs))]
      BY Zenon DEF RawOf
    <3> HIDE DEF data, query
    <3>2. data[p] = Realigned(a, query(p), T)
      BY <1>2, <3>1
    <3>3. Has(T, BaseMetrics(a))
      BY <2>2, RetrievedHas, DimsAreListed DEF Answerable
    <3> DEFINE move(o) == KeyPutBack(query(p), a.dims, o)
    <3> HIDE DEF T
    <3>4. Realigned(a, query(p), T) = [k \in {move(o) : o \in DOMAIN T} |-> T[CHOOSE o \in DOMAIN T : move(o) = k]]
      BY RealignedIs
    <3> HIDE DEF move
    <3>5. Has(data[p], BaseMetrics(a))
      <4>1. SUFFICES ASSUME NEW k \in DOMAIN data[p] PROVE BaseMetrics(a) \subseteq DOMAIN data[p][k]
        BY DEF Has
      <4>2. k \in {move(o) : o \in DOMAIN T} /\ data[p][k] = T[CHOOSE o \in DOMAIN T : move(o) = k]
        BY <3>2, <3>4, <4>1
      <4>3. (CHOOSE o \in DOMAIN T : move(o) = k) \in DOMAIN T
        BY <4>2
      <4>4. QED
        BY <3>3, <4>2, <4>3 DEF Has
    <3>6. \A m \in Range(a.metrics) : BaseOf[m] \subseteq BaseMetrics(a)
      BY DEF BaseMetrics
    <3>7. QED
      BY <3>5, <3>6 DEF Lacking, Has
  <2>3. QED
    BY <2>1, <2>2
<1>3. QED
  BY <1>1, <1>2

\* Presenting such a request never fails.
LEMMA AnswerKeeps ==
    ReportInv /\ Course /\ (Answerable(ask) => AcceptedIsAnswered) /\ [ReportNext]_reportVars
      => (Answerable(ask) => AcceptedIsAnswered)'
<1> SUFFICES ASSUME ReportInv, Course, Answerable(ask) => AcceptedIsAnswered, [ReportNext]_reportVars
             PROVE  Answerable(ask)' => stage' # "failed"
  BY DEF AcceptedIsAnswered
<1>1. ASSUME Refuse PROVE stage' # "failed"
  BY <1>1 DEF Refuse
<1>2. CASE Plan
  BY <1>1, <1>2 DEF Plan
<1>3. CASE Scope
  BY <1>1, <1>3 DEF Scope
<1>4. CASE Retrieve
  BY <1>1, <1>4 DEF Retrieve
<1>5. CASE Present
  <2> SUFFICES ASSUME Answerable(ask)' PROVE stage' # "failed"
    OBVIOUS
  <2>1. stage = "retrieved" /\ ask' = ask
    BY <1>5 DEF Present
  <2>2. Answerable(ask)
    BY <2>1
  <2>3. ask \in Asks /\ ~Refused(ask) /\ raw = RawOf(ask, filters)
    BY <2>1 DEF ReportInv, PlanIsInvolved, Planned, Course
  <2>4. ~Unfiled(ask, raw) /\ \A p \in DOMAIN raw : ~Lacking(ask, raw[p])
    BY <2>2, <2>3, NothingIsLacking
  <2>5. QED
    BY <1>5, <2>4 DEF Present
<1>6. ASSUME NEW i \in DOMAIN ask.blocks, Drill(i) PROVE stage' # "failed"
  BY <1>6 DEF Drill
<1>7. CASE Discover
  BY <1>7 DEF Discover
<1>8. ASSUME UNCHANGED reportVars PROVE Answerable(ask)' => stage' # "failed"
  <2>1. ask' = ask /\ stage' = stage
    BY <1>8 DEF reportVars
  <2>2. Answerable(ask)' => Answerable(ask)
    BY <2>1
  <2>3. QED
    BY <2>1, <2>2 DEF AcceptedIsAnswered
<1>9. QED
  BY <1>2, <1>3, <1>4, <1>5, <1>6, <1>7, <1>8 DEF ReportNext, Done

\* A request that was let through is answered (transformer.py): a comparison finds
\* both its sides filed, and a formula every figure it is made of, in each row.
THEOREM AcceptedAreAnswered == TableSpec => [](Answerable(ask) => AcceptedIsAnswered)
<1>1. ReportInit => (Answerable(ask) => AcceptedIsAnswered)
  BY DEF ReportInit, AcceptedIsAnswered
<1>2. ReportSpec => [](Answerable(ask) => AcceptedIsAnswered)
  BY <1>1, AnswerKeeps, CourseHolds, PTL DEF ReportSpec
<1>3. QED
  BY <1>2, TableImplementsReport, PTL
=============================================================================
