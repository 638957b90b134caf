---------------------------- MODULE AccountsProofs ----------------------------
(***************************************************************************)
(* What the administration of accounts, profiles and the provisioning      *)
(* client promises for any operators, users, profiles and faults.          *)
(***************************************************************************)
EXTENDS Accounts, SequenceTheorems, TLAPS

-----------------------------------------------------------------------------
(* The inductive invariant, in five parts.                                 *)

Defects == Refused \cup Mended

\* What an operation carries.
Carries(job) ==
    /\ {"op", "pc"} \subseteq DOMAIN job
    /\ job.op \in {"idle", "create", "disable", "define", "redefine", "remove", "assign", "revoke",
                   "reconcile"}
    /\ job.op \in {"create", "disable", "assign", "revoke"} => "user" \in DOMAIN job /\ job.user \in Users
    /\ job.op = "create" => "by" \in DOMAIN job /\ job.by \in {"keycloak", "external"}
    /\ job.op \in {"define", "redefine", "remove"} =>
         {"profile", "version"} \subseteq DOMAIN job /\ job.profile \in Profiles /\ job.version \in Nat
    /\ job.op = "assign" => "profile" \in DOMAIN job /\ job.profile \in Profiles
    /\ job.op = "reconcile" => job.pc \in 1 .. Len(Steps)

TypeInv ==
    /\ users \in [Users -> [state : {"absent", "active", "disabled"},
                            by : {"", "keycloak", "external"}]]
    /\ accounts \in [Users -> {"none", "enabled", "disabled"}]
    /\ profiles \in [Profiles -> Nat]
    /\ history \in Seq([profile : Profiles, version : Nat, kind : {"create", "update", "delete"}])
    /\ realm \in [client : {"absent", "enabled", "disabled"}, defects : SUBSET Defects]
    /\ touched \in BOOLEAN
    /\ DOMAIN jobs = Actors /\ \A w \in Actors : Carries(jobs[w])
    /\ budget \in [accounts : Nat, grants : Nat, reconciles : Nat, drifts : Nat, faults : Nat,
                   kinds : SUBSET {"refused", "lost", "crash"}]

\* Who is locked out has a row that says so.
LockInv == \A u \in lockedOut : u \in Users /\ users[u].state = "disabled"

\* What a step of the reconcile sees to, and what the steps from one on do.
SeesTo(s) ==
    s.refuses \cup s.mends \cup (IF s.act = "group" THEN {"no group"} ELSE {})
      \cup (IF s.act = "settings" THEN {"client settings"} ELSE {})
Left(n) == UNION {SeesTo(Steps[i]) : i \in n .. Len(Steps)}

\* While a reconcile is under way in a realm nobody else changes, the client is
\* off and what is still wrong is what the steps to come see to.
RealmInv ==
    /\ EnabledIsRepaired
    /\ jobs[Deployer].op = "reconcile" /\ jobs[Deployer].pc > 1 /\ ~touched =>
         realm.client # "enabled" /\ realm.defects \subseteq Left(jobs[Deployer].pc)

\* The creations that have made the account of a user and not yet its row.
Making(w, u) ==
    /\ jobs[w].op = "create" /\ jobs[w].user = u /\ jobs[w].by = "keycloak"
    /\ jobs[w].pc \in {"row", "undo"}

\* At most one creation answers for an account without a row.
Answered(u) ==
    /\ \A w, x \in Actors : Making(w, u) /\ Making(x, u) => w = x
    /\ \A w \in Actors : Making(w, u) => accounts[u] # "none" /\ users[u].by # "keycloak"
    /\ (\A w \in Actors : ~Making(w, u)) => (accounts[u] # "none" <=> users[u].by = "keycloak")
AccountInv ==
    /\ \A w \in Actors : jobs[w].op = "create" /\ jobs[w].pc \in {"account", "undo"} =>
         jobs[w].by = "keycloak"
    /\ happened \subseteq {"refused"} => \A u \in Users : Answered(u)

\* A definition in force has its history row, or its writer is about to add it,
\* or was kept from it.
Recorded(p) ==
    \E i \in DOMAIN history : /\ history[i].profile = p /\ history[i].version = profiles[p]
                             /\ history[i].kind # "delete"
Recording(w, p) ==
    /\ jobs[w].op \in {"define", "redefine"} /\ jobs[w].pc \in {"create", "update"}
    /\ jobs[w].profile = p /\ jobs[w].version = profiles[p]
HistoryInv ==
    \A p \in Profiles :
        profiles[p] \notin {0} \cup unwritten => Recorded(p) \/ \E w \in Actors : Recording(w, p)

Inv == TypeInv /\ LockInv /\ RealmInv /\ AccountInv /\ HistoryInv

-----------------------------------------------------------------------------
(* The operations under way.                                               *)

Jobs == DOMAIN jobs = Actors /\ \A w \in Actors : Carries(jobs[w])

LEMMA IdleIs ==
    /\ Idle.op = "idle" /\ Idle.op # "reconcile" /\ Idle.pc # "undo"
    /\ Idle.op # "create" /\ Absent.by # "keycloak"
BY DEF Idle, Absent

\* The moves an operation can make: begin, go on, end.
LEMMA CallMoves ==
    ASSUME TypeInv, NEW w, NEW part, NEW job, Carries(job), Call(w, part, job)
    PROVE  /\ Jobs' /\ w \in Actors /\ jobs[w].op = "idle" /\ jobs'[w] = job
           /\ \A x \in Actors \ {w} : jobs'[x] = jobs[x]
BY DEF TypeInv, Call, Actors, Resting, Jobs

LEMMA GotoMoves ==
    ASSUME TypeInv, NEW w \in Actors, NEW pc, jobs[w].op = "reconcile" => pc \in 1 .. Len(Steps),
           Goto(w, pc)
    PROVE  /\ Jobs' /\ jobs'[w] = [jobs[w] EXCEPT !.pc = pc] /\ jobs'[w].pc = pc
           /\ \A f \in DOMAIN jobs[w] \ {"pc"} : jobs'[w][f] = jobs[w][f]
           /\ \A x \in Actors \ {w} : jobs'[x] = jobs[x]
<1>1. /\ jobs'[w] = [jobs[w] EXCEPT !.pc = pc] /\ DOMAIN jobs' = Actors
      /\ \A x \in Actors \ {w} : jobs'[x] = jobs[x]
  BY DEF TypeInv, Goto
<1>2. {"op", "pc"} \subseteq DOMAIN jobs[w]
  BY DEF TypeInv, Carries
<1>3. /\ jobs'[w].pc = pc /\ DOMAIN jobs'[w] = DOMAIN jobs[w]
      /\ \A f \in DOMAIN jobs[w] \ {"pc"} : jobs'[w][f] = jobs[w][f]
  BY <1>1, <1>2
<1>4. Carries(jobs'[w])
  BY <1>2, <1>3 DEF TypeInv, Carries
<1>5. \A x \in Actors \ {w} : Carries(jobs'[x])
  BY <1>1 DEF TypeInv
<1> QED
  BY <1>1, <1>3, <1>4, <1>5 DEF Jobs, Carries

LEMMA LeaveMoves ==
    ASSUME TypeInv, NEW w \in Actors, Leave(w)
    PROVE  Jobs' /\ jobs'[w] = Idle /\ \A x \in Actors \ {w} : jobs'[x] = jobs[x]
<1>1. Carries(Idle)
  BY DEF Carries, Idle
<1>2. jobs'[w] = Idle /\ DOMAIN jobs' = Actors /\ \A x \in Actors \ {w} : jobs'[x] = jobs[x]
  BY DEF TypeInv, Leave
<1>3. \A x \in Actors : Carries(jobs'[x])
  BY <1>1, <1>2 DEF TypeInv
<1> QED
  BY <1>2, <1>3 DEF Jobs, Carries

\* The steps, by what kind of step they are.
Begins(w) ==
    \/ \E u \in Users : \/ CreateUser(w, u, "keycloak") \/ CreateUser(w, u, "external")
                        \/ DisableUser(w, u) \/ RevokeProfile(w, u)
                        \/ \E p \in Profiles : AssignProfile(w, u, p)
    \/ \E p \in Profiles : CreateProfile(w, p) \/ UpdateProfile(w, p) \/ DeleteProfile(w, p)
OnUsers(w, kind) ==
    \/ CreateAccount(w, kind) \/ InsertUser(w, kind) \/ UndoAccount(w, kind)
    \/ DisableAccount(w, kind) \/ DisableRow(w, kind)
OnProfiles(w, kind) ==
    \/ InsertProfile(w, kind) \/ ReplaceProfile(w, kind) \/ Record(w, kind) \/ RemoveProfile(w, kind)
    \/ BindProfile(w, kind) \/ UnbindProfile(w, kind)
ByHand ==
    \/ \E u \in Users : LogIn(u) \/ LogOut(u) \/ Enroll(u)
    \/ \E d \in Refused \cup Mended \cup {"enable", "remove"} : Drift(d)
    \/ \E d \in Refused : Settle(d)

LEMMA NextIs ==
    Next <=> \/ \E w \in Operators : Begins(w) \/ \E kind \in Outcomes : OnUsers(w, kind) \/ OnProfiles(w, kind)
             \/ \E w \in Actors : Crash(w)
             \/ ByHand
             \/ BeginReconcile \/ \E kind \in Outcomes : ReconcileStep(kind)
BY Zenon DEF Next, OperatorSteps, Begins, OnUsers, OnProfiles, ByHand

\* Faults only add up.
LEMMA FaultsAddUp ==
    ASSUME [Next]_vars
    PROVE  happened \subseteq happened'
<1>1. \A kind \in Outcomes : Outcome(kind) => happened \subseteq happened'
  BY DEF Outcome, Spend
<1>2. ASSUME NEW w, NEW part, NEW job, Call(w, part, job) PROVE happened' = happened
  BY <1>2 DEF Call
<1>3. ASSUME NEW w \in Operators, Begins(w) PROVE happened' = happened
  BY <1>3, <1>2 DEF Begins, CreateUser, DisableUser, RevokeProfile, AssignProfile, CreateProfile,
     UpdateProfile, DeleteProfile
<1>4. ASSUME NEW w \in Operators, NEW kind \in Outcomes, OnUsers(w, kind) \/ OnProfiles(w, kind)
      PROVE  happened \subseteq happened'
  BY <1>4, <1>1 DEF OnUsers, OnProfiles, CreateAccount, InsertUser, UndoAccount, DisableAccount, DisableRow,
     InsertProfile, ReplaceProfile, Record, RemoveProfile, BindProfile, UnbindProfile
<1>5. ASSUME NEW w \in Actors, Crash(w) PROVE happened \subseteq happened'
  BY <1>5 DEF Crash, Spend
<1>6. CASE ByHand
  BY <1>6 DEF ByHand, LogIn, LogOut, Enroll, Drift, Settle
<1>7. CASE BeginReconcile
  BY <1>7 DEF BeginReconcile
<1>8. ASSUME NEW kind \in Outcomes, ReconcileStep(kind) PROVE happened \subseteq happened'
  BY <1>8, <1>1 DEF ReconcileStep
<1>9. CASE UNCHANGED vars
  BY <1>9 DEF vars
<1> QED
  BY <1>3, <1>4, <1>5, <1>6, <1>7, <1>8, <1>9, NextIs

-----------------------------------------------------------------------------
(* Types.                                                                  *)

BudgetType == [accounts : Nat, grants : Nat, reconciles : Nat, drifts : Nat, faults : Nat,
               kinds : SUBSET {"refused", "lost", "crash"}]

LEMMA ChargeType ==
    ASSUME TypeInv, NEW kind, Charge(kind) \/ Outcome(kind)
    PROVE  budget' \in BudgetType
<1>1. \/ budget' = budget
      \/ budget.faults > 0 /\ budget' = [budget EXCEPT !.faults = @ - 1]
  BY DEF Charge, Outcome, Spend
<1>2. budget \in BudgetType
  BY DEF TypeInv, BudgetType
<1> QED
  BY <1>1, <1>2 DEF BudgetType

\* An operation that begins carries what its steps will use.
LEMMA BeginsMoves ==
    ASSUME TypeInv, NEW w \in Operators, Begins(w)
    PROVE  /\ \E job : /\ Carries(job) /\ jobs'[w] = job
                       /\ job.op \in {"idle", "create", "disable", "define", "redefine", "remove",
                                      "assign", "revoke"}
                       /\ job.op = "create" => \/ job.pc = "account" /\ job.by = "keycloak"
                                               \/ job.pc = "row" /\ job.by = "external"
                       /\ job.op \in {"define", "redefine"} => job.pc = "row"
           /\ Jobs' /\ w \in Actors /\ jobs[w].op = "idle"
           /\ \A x \in Actors \ {w} : jobs'[x] = jobs[x]
           /\ budget' \in BudgetType
           /\ UNCHANGED <<directory, keycloak, grants, provisioning, happened>>
<1> DEFINE Fine(job) ==
        /\ Carries(job)
        /\ job.op \in {"idle", "create", "disable", "define", "redefine", "remove", "assign", "revoke"}
        /\ job.op = "create" => \/ job.pc = "account" /\ job.by = "keycloak"
                                \/ job.pc = "row" /\ job.by = "external"
        /\ job.op \in {"define", "redefine"} => job.pc = "row"
<1>1. Fine(Idle)
  BY DEF Idle, Carries
<1>2. \A u \in Users :
         /\ Fine([op |-> "create", pc |-> "account", user |-> u, by |-> "keycloak"])
         /\ Fine([op |-> "create", pc |-> "row", user |-> u, by |-> "external"])
         /\ Fine([op |-> "disable", pc |-> "account", user |-> u])
         /\ Fine([op |-> "revoke", pc |-> "row", user |-> u])
         /\ \A p \in Profiles : Fine([op |-> "assign", pc |-> "row", user |-> u, profile |-> p])
  BY DEF Carries
<1>3. \A p \in Profiles, v \in Nat :
         /\ Fine([op |-> "define", pc |-> "row", profile |-> p, version |-> v])
         /\ Fine([op |-> "redefine", pc |-> "row", profile |-> p, version |-> v])
         /\ Fine([op |-> "remove", pc |-> "delete", profile |-> p, version |-> v])
  BY DEF Carries
<1>4. budget.grants \in Nat /\ \A p \in Profiles : profiles[p] \in Nat
  BY DEF TypeInv
<1> HIDE DEF Fine
<1>5. \E job, part : Fine(job) /\ part \in {"accounts", "grants"} /\ Call(w, part, job)
  <2>1. CASE \E u \in Users : CreateUser(w, u, "keycloak") \/ CreateUser(w, u, "external")
    BY <2>1, <1>1, <1>2 DEF CreateUser
  <2>2. CASE \E u \in Users : DisableUser(w, u) \/ RevokeProfile(w, u)
    BY <2>2, <1>1, <1>2 DEF DisableUser, RevokeProfile
  <2>3. CASE \E u \in Users : \E p \in Profiles : AssignProfile(w, u, p)
    BY <2>3, <1>1, <1>2 DEF AssignProfile
  <2>4. CASE \E p \in Profiles : CreateProfile(w, p) \/ UpdateProfile(w, p) \/ DeleteProfile(w, p)
    BY <2>4, <1>1, <1>3, <1>4 DEF CreateProfile, UpdateProfile, DeleteProfile, Fresh
  <2> QED
    BY <2>1, <2>2, <2>3, <2>4 DEF Begins
<1>6. PICK job, part : Fine(job) /\ part \in {"accounts", "grants"} /\ Call(w, part, job)
  BY <1>5
<1>7. /\ UNCHANGED <<directory, keycloak, grants, provisioning, happened>>
      /\ budget[part] > 0 /\ budget' = [budget EXCEPT ![part] = @ - 1]
  BY <1>6 DEF Call
<1>8. budget' \in BudgetType
  <2>1. budget \in BudgetType
    BY DEF TypeInv, BudgetType
  <2>2. CASE part = "accounts"
    BY <1>7, <2>1, <2>2 DEF BudgetType
  <2>3. CASE part = "grants"
    BY <1>7, <2>1, <2>3 DEF BudgetType
  <2> QED
    BY <1>6, <2>2, <2>3
<1> QED
  BY <1>6, <1>7, <1>8, CallMoves DEF Fine

\* A step of an operation goes on to another of its steps, or is its last.
LEMMA StepMoves ==
    ASSUME TypeInv, NEW w \in Actors, jobs[w].op # "reconcile",
           Leave(w) \/ \E pc : Goto(w, pc)
    PROVE  Jobs' /\ \A x \in Actors \ {w} : jobs'[x] = jobs[x]
BY GotoMoves, LeaveMoves

LEMMA TypeOnUsers ==
    ASSUME TypeInv, NEW w \in Operators, NEW kind \in Outcomes, OnUsers(w, kind)
    PROVE  TypeInv'
<1> DEFINE job == jobs[w]
           u == jobs[w].user
<1>1. /\ w \in Actors /\ job.op \in {"create", "disable"}
      /\ UNCHANGED <<profiles, history, realm, touched>>
  BY DEF OnUsers, CreateAccount, InsertUser, UndoAccount, DisableAccount, DisableRow, At, Actors,
         grants, provisioning
<1>2. u \in Users /\ (job.op = "create" => job.by \in {"keycloak", "external"})
  BY <1>1 DEF TypeInv, Carries
<1>3. Jobs'
  BY <1>1, StepMoves DEF OnUsers, CreateAccount, InsertUser, UndoAccount, DisableAccount, DisableRow,
                         InsertFailed, AfterDisabling
<1>4. budget' \in BudgetType
  <2>1. budget \in BudgetType
    BY DEF TypeInv, BudgetType
  <2>2. CASE UndoAccount(w, kind)
    BY <2>1, <2>2, ChargeType DEF UndoAccount
  <2> QED
    BY <2>2, ChargeType DEF OnUsers, CreateAccount, InsertUser, DisableAccount, DisableRow
<1>5. accounts' \in [Users -> {"none", "enabled", "disabled"}]
  BY <1>2 DEF OnUsers, TypeInv, CreateAccount, InsertUser, UndoAccount, DisableAccount, DisableRow,
              keycloak
<1>6. users' \in [Users -> [state : {"absent", "active", "disabled"}, by : {"", "keycloak", "external"}]]
  <2>1. CASE InsertUser(w, kind)
    BY <1>2, <2>1 DEF InsertUser, TypeInv, At
  <2>2. CASE DisableRow(w, kind)
    BY <1>2, <2>2 DEF DisableRow, TypeInv
  <2>3. CASE UNCHANGED users
    BY <2>3 DEF TypeInv
  <2> QED
    BY <2>1, <2>2, <2>3 DEF OnUsers, CreateAccount, UndoAccount, DisableAccount, directory
<1> QED
  BY <1>1, <1>3, <1>4, <1>5, <1>6 DEF TypeInv, Jobs, BudgetType

LEMMA TypeOnProfiles ==
    ASSUME TypeInv, NEW w \in Operators, NEW kind \in Outcomes, OnProfiles(w, kind)
    PROVE  TypeInv'
<1> DEFINE job == jobs[w]
           Entries == [profile : Profiles, version : Nat, kind : {"create", "update", "delete"}]
<1>1. /\ w \in Actors /\ job.op \in {"define", "redefine", "remove", "assign", "revoke"}
      /\ UNCHANGED <<users, accounts, realm, touched>>
  BY DEF OnProfiles, InsertProfile, ReplaceProfile, Record, RemoveProfile, BindProfile, UnbindProfile,
         At, Actors, directory, keycloak, provisioning
<1>2. job.op \in {"define", "redefine", "remove"} => job.profile \in Profiles /\ job.version \in Nat
  BY <1>1 DEF TypeInv, Carries
<1>3. Jobs'
  BY <1>1, StepMoves DEF OnProfiles, InsertProfile, ReplaceProfile, Record, RemoveProfile,
                         BindProfile, UnbindProfile
<1>4. budget' \in BudgetType
  BY ChargeType DEF OnProfiles, InsertProfile, ReplaceProfile, Record, RemoveProfile, BindProfile,
                    UnbindProfile
<1>5. profiles' \in [Profiles -> Nat]
  <2>1. CASE InsertProfile(w, kind)
    BY <1>2, <2>1 DEF TypeInv, InsertProfile, At
  <2>2. CASE ReplaceProfile(w, kind)
    BY <1>2, <2>2 DEF TypeInv, ReplaceProfile, At
  <2>3. CASE RemoveProfile(w, kind)
    BY <1>2, <2>3 DEF TypeInv, RemoveProfile, At
  <2>4. CASE UNCHANGED profiles
    BY <2>4 DEF TypeInv
  <2> QED
    BY <2>1, <2>2, <2>3, <2>4 DEF OnProfiles, Record, BindProfile, UnbindProfile
<1>6. history' \in Seq(Entries)
  <2>1. CASE UNCHANGED history
    BY <2>1 DEF TypeInv
  <2>2. CASE Record(w, kind)
    <3>1. job.pc \in {"create", "update", "delete"} /\ job.profile \in Profiles /\ job.version \in Nat
      BY <1>2, <2>2 DEF Record
    <3>2. [profile |-> job.profile, version |-> job.version, kind |-> job.pc] \in Entries
      BY <3>1
    <3>3. history' = history \/ history' = Append(history, [profile |-> job.profile,
                                                          version |-> job.version, kind |-> job.pc])
      BY <2>2 DEF Record, Entry, Written
    <3>4. history \in Seq(Entries)
      BY DEF TypeInv
    <3> HIDE DEF Entries
    <3> QED
      BY <3>2, <3>3, <3>4, AppendProperties
  <2> QED
    BY <2>1, <2>2 DEF OnProfiles, InsertProfile, ReplaceProfile, RemoveProfile, BindProfile, UnbindProfile
<1> QED
  BY <1>1, <1>3, <1>4, <1>5, <1>6 DEF TypeInv, Jobs, BudgetType

\* The steps of the reconcile, one by one.
LEMMA StepsAre ==
    /\ Len(Steps) = 19
    /\ Steps[1] = Client("disable")
    /\ Steps[2] = Mend({"permissions off"}, {})
    /\ Steps[3] = Check({"foreign policy"})
    /\ Steps[4] = Client("group")
    /\ Steps[5] = Check({"group tree", "no group"})
    /\ Steps[6] = Check({"default grants"})
    /\ Steps[7] = Check({"admin member"})
    /\ Steps[8] = Client("settings")
    /\ Steps[9] = Mend({"scopes"}, {})
    /\ Steps[10] = Mend({"mappers"}, {"no mapper"})
    /\ Steps[11] = Mend({"no mapper"}, {})
    /\ Steps[12] = Mend({"account groups"}, {})
    /\ Steps[13] = Mend({"account roles"}, {"no query role"})
    /\ Steps[14] = Check({"composite query"})
    /\ Steps[15] = Mend({"no query role"}, {})
    /\ Steps[16] = Check({"foreign policy"})
    /\ Steps[17] = Mend({"no policy"}, {})
    /\ Steps[18] = Mend({"no permission"}, {})
    /\ Steps[19] = Client("enable")
BY DEF Steps

\* What a step of the reconcile leaves is a realm.
LEMMA AfterIsRealm ==
    ASSUME realm \in [client : {"absent", "enabled", "disabled"}, defects : SUBSET Defects],
           NEW n \in 1 .. Len(Steps)
    PROVE  After(Steps[n], realm) \in [client : {"absent", "enabled", "disabled"}, defects : SUBSET Defects]
<1>1. {"no permission", "scopes", "no mapper", "no query role", "no policy"} \subseteq Defects
  BY DEF Defects, Mended
<1>2. Steps[n].breaks \subseteq Defects
  <2>1. Len(Steps) = 19
    BY StepsAre
  <2>2. n \in {1, 2, 3, 4, 5, 6, 7, 8, 9, 10, 11, 12, 13, 14, 15, 16, 17, 18, 19}
    BY <2>1
  <2>3. PICK s : s = Steps[n]
    OBVIOUS
  <2>4. \/ \E act : s = Client(act)
        \/ \E ds : s = Check(ds) 
        \/ \E ds : \E b \in {{}, {"no mapper"}, {"no query role"}} : s = Mend(ds, b)
    BY <2>2, <2>3, StepsAre
  <2>5. CASE \E act : s = Client(act)
    BY <2>3, <2>5 DEF Client
  <2>6. CASE \E ds : s = Check(ds)
    BY <2>3, <2>6 DEF Check
  <2>7. CASE \E ds : \E b \in {{}, {"no mapper"}, {"no query role"}} : s = Mend(ds, b)
    <3>1. PICK ds, b : b \in {{}, {"no mapper"}, {"no query role"}} /\ s = Mend(ds, b)
      BY <2>7
    <3>2. s.breaks = b
      BY <3>1 DEF Mend
    <3> QED
      BY <1>1, <2>3, <3>1, <3>2
  <2> QED
    BY <2>4, <2>5, <2>6, <2>7
<1> QED
  BY <1>1, <1>2 DEF After

LEMMA TypeStep ==
    ASSUME TypeInv, [Next]_vars
    PROVE  TypeInv'
<1>1. ASSUME NEW w \in Operators, Begins(w) PROVE TypeInv'
  <2>1. /\ Jobs' /\ budget' \in BudgetType
        /\ UNCHANGED <<directory, keycloak, grants, provisioning, happened>>
    BY <1>1, BeginsMoves
  <2> QED
    BY <2>1 DEF TypeInv, Jobs, BudgetType, directory, keycloak, grants, provisioning
<1>2. ASSUME NEW w \in Actors, Crash(w) PROVE TypeInv'
  <2>1. Jobs'
    BY <1>2, LeaveMoves DEF Crash
  <2>2. budget' \in BudgetType
    BY <1>2, ChargeType DEF Crash, Spend
  <2> QED
    BY <1>2, <2>1, <2>2 DEF Crash, TypeInv, Jobs, BudgetType, directory, keycloak, grants, provisioning
<1>3. CASE ByHand
  <2>1. UNCHANGED jobs
    BY <1>3 DEF ByHand, LogIn, LogOut, Enroll, Drift, Settle
  <2>2. UNCHANGED <<users, accounts, profiles, history>>
    BY <1>3 DEF ByHand, LogIn, LogOut, Enroll, Drift, Settle, directory, keycloak, grants
  <2>3. ASSUME NEW d \in Refused \cup Mended \cup {"enable", "remove"}, Drift(d)
        PROVE  /\ budget' \in BudgetType /\ touched' \in BOOLEAN
               /\ realm' \in [client : {"absent", "enabled", "disabled"}, defects : SUBSET Defects]
    <3>1. budget' \in BudgetType
      <4>1. budget \in BudgetType /\ budget.drifts > 0 /\ budget' = [budget EXCEPT !.drifts = @ - 1]
        BY <2>3 DEF Drift, TypeInv, BudgetType
      <4> QED
        BY <4>1 DEF BudgetType
    <3>2. d \in Defects \cup {"enable", "remove"}
      BY DEF Defects
    <3>3. \/ realm' = [realm EXCEPT !.client = "enabled"]
          \/ realm' = [realm EXCEPT !.client = "absent"]
          \/ d \in Defects /\ realm' = [realm EXCEPT !.defects = @ \cup {d}]
      BY <2>3, <3>2 DEF Drift
    <3>4. realm \in [client : {"absent", "enabled", "disabled"}, defects : SUBSET Defects]
      BY DEF TypeInv
    <3>5. realm' \in [client : {"absent", "enabled", "disabled"}, defects : SUBSET Defects]
      BY <3>3, <3>4
    <3>6. touched' \in BOOLEAN
      BY <2>3 DEF Drift
    <3> QED
      BY <3>1, <3>5, <3>6
  <2>4. ASSUME NEW d, Settle(d)
        PROVE  /\ UNCHANGED <<budget, touched>>
               /\ realm' \in [client : {"absent", "enabled", "disabled"}, defects : SUBSET Defects]
    <3>1. UNCHANGED <<budget, touched>> /\ realm' = [realm EXCEPT !.defects = @ \ {d}]
      BY <2>4 DEF Settle
    <3>2. realm \in [client : {"absent", "enabled", "disabled"}, defects : SUBSET Defects]
      BY DEF TypeInv
    <3> QED
      BY <3>1, <3>2
  <2>5. CASE UNCHANGED <<budget, provisioning>>
    BY <2>1, <2>2, <2>5 DEF TypeInv, provisioning
  <2>6. \/ UNCHANGED <<budget, provisioning>>
        \/ \E d \in Refused \cup Mended \cup {"enable", "remove"} : Drift(d)
        \/ \E d \in Refused : Settle(d)
    BY <1>3 DEF ByHand, LogIn, LogOut, Enroll
  <2>7. CASE \E d \in Refused \cup Mended \cup {"enable", "remove"} : Drift(d)
    BY <2>1, <2>2, <2>3, <2>7 DEF TypeInv, BudgetType
  <2>8. CASE \E d \in Refused : Settle(d)
    BY <2>1, <2>2, <2>4, <2>8 DEF TypeInv
  <2> QED
    BY <2>5, <2>6, <2>7, <2>8
<1>4. CASE BeginReconcile
  <2>1. budget' \in BudgetType
    <3>1. /\ budget \in BudgetType /\ budget.reconciles > 0
          /\ budget' = [budget EXCEPT !.reconciles = @ - 1]
      BY <1>4 DEF BeginReconcile, TypeInv, BudgetType
    <3> QED
      BY <3>1 DEF BudgetType
  <2>2. Carries([op |-> "reconcile", pc |-> 1])
    BY DEF Carries, Steps
  <2>3. Jobs'
    BY <1>4, <2>2 DEF BeginReconcile, TypeInv, Jobs
  <2> QED
    BY <1>4, <2>1, <2>3 DEF BeginReconcile, TypeInv, Jobs, BudgetType, directory, keycloak, grants,
       provisioning
<1>5. ASSUME NEW kind \in Outcomes, ReconcileStep(kind) PROVE TypeInv'
  <2> DEFINE n == jobs[Deployer].pc
  <2>1. Deployer \in Actors /\ jobs[Deployer].op = "reconcile" /\ n \in 1 .. Len(Steps)
    BY <1>5 DEF ReconcileStep, Actors, TypeInv, Carries
  <2>2. Leave(Deployer) \/ (n < Len(Steps) /\ Goto(Deployer, n + 1))
    BY <1>5 DEF ReconcileStep
  <2>3. Jobs'
    <3>1. n < Len(Steps) => n + 1 \in 1 .. Len(Steps)
      BY <2>1 DEF Steps
    <3> QED
      BY <2>1, <2>2, <3>1, GotoMoves, LeaveMoves
  <2>4. realm' \in [client : {"absent", "enabled", "disabled"}, defects : SUBSET Defects]
    BY <1>5, <2>1, AfterIsRealm DEF ReconcileStep, TypeInv
  <2>5. budget' \in BudgetType /\ touched' \in BOOLEAN
    BY <1>5, ChargeType DEF ReconcileStep, TypeInv
  <2> QED
    BY <1>5, <2>3, <2>4, <2>5 DEF ReconcileStep, TypeInv, Jobs, BudgetType, directory, keycloak, grants
<1>6. CASE UNCHANGED vars
  BY <1>6 DEF vars, TypeInv
<1> QED
  BY <1>1, <1>2, <1>3, <1>4, <1>5, <1>6, NextIs, TypeOnUsers, TypeOnProfiles

-----------------------------------------------------------------------------
(* The provisioning client.                                                *)

\* What each kind of step does and sees to.
LEMMA StepKinds ==
    /\ \A ds, b : LET s == Mend(ds, b) IN s.act = "mend" /\ s.refuses = {} /\ s.mends = ds /\ s.breaks = b
    /\ \A ds : LET s == Check(ds) IN s.act = "check" /\ s.refuses = ds /\ s.mends = {} /\ s.breaks = {}
    /\ \A a : LET s == Client(a) IN s.act = a /\ s.refuses = {} /\ s.mends = {} /\ s.breaks = {}
BY DEF Mend, Check, Client

LEMMA MendDoes == \A s, ds, b : s = Mend(ds, b) => s.act = "mend" /\ s.breaks = b
BY DEF Mend

LEMMA KindsSee ==
    /\ \A ds, b : SeesTo(Mend(ds, b)) = ds
    /\ \A ds : SeesTo(Check(ds)) = ds
    /\ SeesTo(Client("group")) = {"no group"} /\ SeesTo(Client("settings")) = {"client settings"}
    /\ SeesTo(Client("enable")) = {}
<1>1. \A ds, b : SeesTo(Mend(ds, b)) = ds
  BY DEF SeesTo, Mend
<1>2. \A ds : SeesTo(Check(ds)) = ds
  BY DEF SeesTo, Check
<1>3. /\ SeesTo(Client("group")) = {"no group"} /\ SeesTo(Client("settings")) = {"client settings"}
      /\ SeesTo(Client("enable")) = {}
  BY DEF SeesTo, Client
<1> QED
  BY <1>1, <1>2, <1>3

\* Which step does what: the points at which one step undoes another's work.
LEMMA StepsDo ==
    ASSUME NEW n \in 1 .. Len(Steps), NEW s, s = Steps[n]
    PROVE  /\ n = 1 => s.act = "disable"
           /\ s.act = "group" => n = 4
           /\ s.act = "settings" => n = 8
           /\ s.act = "enable" => n = 19
           /\ \/ s.breaks = {}
              \/ n = 10 /\ s.breaks = {"no mapper"}
              \/ n = 13 /\ s.breaks = {"no query role"}
<1>1. n \in {1, 2, 3, 4, 5, 6, 7, 8, 9, 10, 11, 12, 13, 14, 15, 16, 17, 18, 19}
  <2>1. Len(Steps) = 19
    BY StepsAre
  <2> QED
    BY <2>1
<1>2. \/ (n = 1 /\ s = Client("disable"))
      \/ (n = 4 /\ s = Client("group"))
      \/ (n = 8 /\ s = Client("settings"))
      \/ (n = 19 /\ s = Client("enable"))
      \/ (n = 10 /\ \E ds : s = Mend(ds, {"no mapper"}))
      \/ (n = 13 /\ \E ds : s = Mend(ds, {"no query role"}))
      \/ (n # 1 /\ \E ds : s = Mend(ds, {}))
      \/ (n # 1 /\ \E ds : s = Check(ds))
  BY <1>1, StepsAre
<1>3. CASE n = 1 /\ s = Client("disable")
  BY <1>3, StepKinds
<1>4. CASE n = 4 /\ s = Client("group")
  <2>1. s.act = "group" /\ s.breaks = {}
    BY <1>4, StepKinds
  <2>2. n # 1
    BY <1>4
  <2> QED
    BY <1>4, <2>1, <2>2, Zenon
<1>5. CASE n = 8 /\ s = Client("settings")
  <2>1. s.act = "settings" /\ s.breaks = {}
    BY <1>5, StepKinds
  <2>2. n # 1
    BY <1>5
  <2> QED
    BY <1>5, <2>1, <2>2, Zenon
<1>6. CASE n = 19 /\ s = Client("enable")
  <2>1. s.act = "enable" /\ s.breaks = {}
    BY <1>6, StepKinds
  <2>2. n # 1
    BY <1>6
  <2> QED
    BY <1>6, <2>1, <2>2, Zenon
<1>7. CASE n = 10 /\ \E ds : s = Mend(ds, {"no mapper"})
  <2>1. s.act = "mend" /\ s.breaks = {"no mapper"}
    <3>1. PICK ds : s = Mend(ds, {"no mapper"})
      BY <1>7, Zenon
    <3> QED
      BY <3>1, MendDoes
  <2>2. n # 1
    <3>1. n = 10
      BY <1>7, Zenon
    <3> QED
      BY <3>1
  <2> QED
    BY <1>7, <2>1, <2>2, Zenon
<1>8. CASE n = 13 /\ \E ds : s = Mend(ds, {"no query role"})
  <2>1. s.act = "mend" /\ s.breaks = {"no query role"}
    <3>1. PICK ds : s = Mend(ds, {"no query role"})
      BY <1>8, Zenon
    <3> QED
      BY <3>1, MendDoes
  <2>2. n # 1
    <3>1. n = 13
      BY <1>8, Zenon
    <3> QED
      BY <3>1
  <2> QED
    BY <1>8, <2>1, <2>2, Zenon
<1>9. CASE n # 1 /\ \E ds : s = Mend(ds, {})
  <2>1. s.act = "mend" /\ s.breaks = {}
    BY <1>9, StepKinds
  <2> QED
    BY <1>9, <2>1, Zenon
<1>10. CASE n # 1 /\ \E ds : s = Check(ds)
  <2>1. s.act = "check" /\ s.breaks = {}
    BY <1>10, StepKinds
  <2> QED
    BY <1>10, <2>1, Zenon
<1> QED
  BY <1>2, <1>3, <1>4, <1>5, <1>6, <1>7, <1>8, <1>9, <1>10

\* What the later steps see to.
LEMMA LaterSteps ==
    /\ SeesTo(Steps[2]) = {"permissions off"} /\ SeesTo(Steps[3]) = {"foreign policy"}
    /\ SeesTo(Steps[4]) = {"no group"}
    /\ SeesTo(Steps[5]) = {"group tree", "no group"} /\ SeesTo(Steps[6]) = {"default grants"}
    /\ SeesTo(Steps[7]) = {"admin member"} /\ SeesTo(Steps[8]) = {"client settings"}
    /\ SeesTo(Steps[9]) = {"scopes"} /\ SeesTo(Steps[10]) = {"mappers"}
    /\ SeesTo(Steps[11]) = {"no mapper"} /\ SeesTo(Steps[12]) = {"account groups"}
    /\ SeesTo(Steps[13]) = {"account roles"} /\ SeesTo(Steps[14]) = {"composite query"}
    /\ SeesTo(Steps[15]) = {"no query role"} /\ SeesTo(Steps[16]) = {"foreign policy"}
    /\ SeesTo(Steps[17]) = {"no policy"} /\ SeesTo(Steps[18]) = {"no permission"}
    /\ SeesTo(Steps[19]) = {}
BY StepsAre, KindsSee

\* Every defect is seen to by a step after the first.
LEMMA AllSeenTo == Defects \subseteq Left(2)
<1>1. \A i \in 2 .. 19 : SeesTo(Steps[i]) \subseteq Left(2)
  <2>1. Len(Steps) = 19
    BY StepsAre
  <2> QED
    BY <2>1 DEF Left
<1>2. \A i \in {2, 3, 4, 5, 6, 7, 8, 9, 10, 11, 12, 13, 14, 15, 16, 17, 18, 19} :
        SeesTo(Steps[i]) \subseteq Left(2)
  BY <1>1
<1>3. Refused \subseteq Left(2)
  BY <1>2, LaterSteps DEF Refused
<1>4. Mended \subseteq Left(2)
  BY <1>2, LaterSteps DEF Mended
<1> QED
  BY <1>3, <1>4 DEF Defects

\* A step that passes sees to its defects and breaks only what later steps mend.
LEMMA StepLeaves ==
    ASSUME NEW r \in [client : {"absent", "enabled", "disabled"}, defects : SUBSET Defects],
           NEW n \in 1 .. Len(Steps), NEW s, s = Steps[n], s.refuses \cap r.defects = {},
           n > 1 => r.client # "enabled" /\ r.defects \subseteq Left(n)
    PROVE  /\ n < 19 => After(s, r).client # "enabled" /\ After(s, r).defects \subseteq Left(n + 1)
           /\ n = 19 => After(s, r).defects = {}
<1> DEFINE q == After(s, r)
           fresh == (IF s.act = "group" /\ "no group" \in r.defects THEN {"no permission"} ELSE {})
                      \cup (IF s.act = "settings" /\ r.client = "absent"
                            THEN {"scopes", "no mapper", "no query role", "no policy"} ELSE {})
           gone == s.mends \cup (CASE s.act = "group" -> {"no group"}
                                   [] s.act = "settings" -> {"client settings"}
                                   [] OTHER -> {})
<1>1. Len(Steps) = 19
  BY StepsAre
<1>n. n \in 1 .. 19 /\ n \in Nat /\ (n = 1 \/ n > 1)
  BY <1>1
<1>2. \A m \in 1 .. 19 : \A i \in m .. 19 : SeesTo(Steps[i]) \subseteq Left(m)
  BY <1>1 DEF Left
<1>3. q.defects = (r.defects \ gone) \cup s.breaks \cup fresh
  BY DEF After
<1>4. r.defects \ gone \subseteq Left(n + 1)
  <2>1. CASE n = 1
    <3>1. r.defects \subseteq Defects
      OBVIOUS
    <3>2. n + 1 = 2
      BY <2>1
    <3> HIDE DEF gone
    <3> QED
      BY <3>1, <3>2, AllSeenTo, Zenon
  <2>2. CASE n > 1
    <3> SUFFICES ASSUME NEW d \in r.defects, d \notin gone PROVE d \in Left(n + 1)
      OBVIOUS
    <3>1. PICK i \in n .. 19 : d \in SeesTo(Steps[i])
      <4>1. d \in Left(n)
        BY <2>2
      <4> QED
        BY <1>1, <4>1, Zenon DEF Left
    <3>2. d \notin SeesTo(s)
      <4>1. d \notin s.refuses /\ d \notin s.mends
        OBVIOUS
      <4>2. s.act = "group" => d # "no group"
        OBVIOUS
      <4>3. s.act = "settings" => d # "client settings"
        OBVIOUS
      <4> HIDE DEF gone
      <4> QED
        BY <4>1, <4>2, <4>3 DEF SeesTo
    <3>3. i # n
      BY <3>1, <3>2
    <3>4. i \in (n + 1) .. 19 /\ n + 1 \in 1 .. 19
      <4>1. i \in n .. 19 /\ i # n
        BY <3>1, <3>3, Zenon
      <4> HIDE DEF gone
      <4> QED
        BY <1>n, <4>1
    <3> QED
      BY <1>2, <3>1, <3>4
  <2> QED
    BY <1>n, <2>1, <2>2
<1>5. n < 19 => s.breaks \subseteq Left(n + 1)
  <2>1. CASE s.breaks = {}
    BY <2>1
  <2>2. CASE n = 10 /\ s.breaks = {"no mapper"}
    <3>1. SeesTo(Steps[11]) \subseteq Left(11)
      BY <1>2
    <3>2. "no mapper" \in Left(11)
      BY <3>1, LaterSteps
    <3>3. n + 1 = 11
      <4>1. n = 10
        BY <2>2, Zenon
      <4> QED
        BY <4>1
    <3> QED
      BY <2>2, <3>2, <3>3, Zenon
  <2>3. CASE n = 13 /\ s.breaks = {"no query role"}
    <3>1. SeesTo(Steps[15]) \subseteq Left(14)
      BY <1>2
    <3>2. "no query role" \in Left(14)
      BY <3>1, LaterSteps
    <3>3. n + 1 = 14
      <4>1. n = 13
        BY <2>3, Zenon
      <4> QED
        BY <4>1
    <3> QED
      BY <2>3, <3>2, <3>3, Zenon
  <2> QED
    BY <2>1, <2>2, <2>3, StepsDo
<1>6. n < 19 => fresh \subseteq Left(n + 1)
  <2>1. CASE s.act = "group"
    <3>1. n = 4
      BY <2>1, StepsDo
    <3>2. SeesTo(Steps[18]) \subseteq Left(5)
      BY <1>2
    <3>3. "no permission" \in Left(5)
      BY <3>2, LaterSteps
    <3>4. fresh \subseteq {"no permission"}
      BY <2>1
    <3>5. n + 1 = 5
      BY <3>1
    <3> HIDE DEF fresh
    <3> QED
      BY <3>3, <3>4, <3>5
  <2>2. CASE s.act = "settings"
    <3>1. n = 8
      BY <2>2, StepsDo
    <3>2. /\ SeesTo(Steps[9]) \subseteq Left(9) /\ SeesTo(Steps[11]) \subseteq Left(9)
          /\ SeesTo(Steps[15]) \subseteq Left(9) /\ SeesTo(Steps[17]) \subseteq Left(9)
      BY <1>2
    <3>3. {"scopes", "no mapper", "no query role", "no policy"} \subseteq Left(9)
      BY <3>2, LaterSteps
    <3>4. fresh \subseteq {"scopes", "no mapper", "no query role", "no policy"}
      BY <2>2
    <3>5. n + 1 = 9
      BY <3>1
    <3> HIDE DEF fresh
    <3> QED
      BY <3>3, <3>4, <3>5
  <2>3. CASE s.act \notin {"group", "settings"}
    BY <2>3
  <2> QED
    BY <2>1, <2>2, <2>3
<1>7. n < 19 => q.client # "enabled"
  <2>1. n = 1 => s.act = "disable"
    BY StepsDo
  <2>2. n < 19 => s.act # "enable"
    <3>1. s.act = "enable" => n = 19
      BY StepsDo
    <3> QED
      BY <3>1
  <2>3. CASE s.act = "disable"
    BY <2>3 DEF After
  <2>4. CASE s.act = "settings"
    BY <2>4 DEF After
  <2>5. CASE s.act \notin {"disable", "settings", "enable"}
    <3>1. q.client = r.client
      BY <2>5 DEF After
    <3> QED
      BY <2>1, <2>5, <3>1
  <2> QED
    BY <2>2, <2>3, <2>4, <2>5
<1>8. n = 19 => q.defects = {}
  <2> SUFFICES ASSUME n = 19 PROVE q.defects = {}
    OBVIOUS
  <2>1. r.defects \subseteq Left(19)
    OBVIOUS
  <2>2. Left(19) = SeesTo(Steps[19])
    BY <1>1 DEF Left
  <2>3. r.defects = {}
    <3>1. SeesTo(Steps[19]) = {}
      BY LaterSteps
    <3> QED
      BY <2>1, <2>2, <3>1
  <2>4. s.act # "group" /\ s.act # "settings" /\ s.breaks = {}
    <3>1. /\ s.act = "group" => n = 4
          /\ s.act = "settings" => n = 8
          /\ s.breaks = {} \/ n = 10 \/ n = 13
      BY StepsDo, Zenon
    <3> QED
      BY <3>1
  <2>5. fresh = {}
    BY <2>4
  <2> HIDE DEF fresh, gone, q
  <2> QED
    BY <1>3, <2>3, <2>4, <2>5
<1> HIDE DEF fresh, gone, q
<1>9. n < 19 => q.defects \subseteq Left(n + 1)
  BY <1>3, <1>4, <1>5, <1>6
<1> QED
  BY <1>7, <1>8, <1>9 DEF q

\* What operators do touches neither the realm nor a reconcile under way.
LEMMA OperatorMoves ==
    ASSUME TypeInv, NEW w \in Operators,
           Begins(w) \/ \E kind \in Outcomes : OnUsers(w, kind) \/ OnProfiles(w, kind)
    PROVE  /\ UNCHANGED provisioning
           /\ \A x \in Actors : jobs'[x] = jobs[x] \/ jobs'[x].op # "reconcile"
<1>1. CASE Begins(w)
  BY <1>1, BeginsMoves
<1>2. ASSUME NEW kind \in Outcomes, OnUsers(w, kind) \/ OnProfiles(w, kind)
      PROVE  /\ UNCHANGED provisioning
             /\ \A x \in Actors : jobs'[x] = jobs[x] \/ jobs'[x].op # "reconcile"
  <2>1. UNCHANGED provisioning /\ w \in Actors
    BY <1>2 DEF OnUsers, OnProfiles, CreateAccount, InsertUser, UndoAccount, DisableAccount, DisableRow,
       InsertProfile, ReplaceProfile, Record, RemoveProfile, BindProfile, UnbindProfile, Actors
  <2>2. jobs[w].op # "reconcile"
    BY <1>2 DEF OnUsers, OnProfiles, CreateAccount, InsertUser, UndoAccount, DisableAccount, DisableRow,
       InsertProfile, ReplaceProfile, Record, RemoveProfile, BindProfile, UnbindProfile, At
  <2>3. Leave(w) \/ \E pc : Goto(w, pc)
    BY <1>2 DEF OnUsers, OnProfiles, CreateAccount, InsertUser, UndoAccount, DisableAccount, DisableRow,
       InsertProfile, ReplaceProfile, Record, RemoveProfile, BindProfile, UnbindProfile, InsertFailed,
       AfterDisabling
  <2>4. jobs'[w].op # "reconcile"
    <3>1. CASE Leave(w)
      BY <2>1, <3>1, LeaveMoves, IdleIs
    <3>2. ASSUME NEW pc, Goto(w, pc) PROVE jobs'[w].op = jobs[w].op
      <4>1. {"op", "pc"} \subseteq DOMAIN jobs[w]
        BY <2>1 DEF TypeInv, Carries
      <4> QED
        BY <2>1, <2>2, <3>2, <4>1, GotoMoves
    <3> QED
      BY <2>2, <2>3, <3>1, <3>2
  <2> QED
    BY <2>1, <2>2, <2>3, <2>4, StepMoves
<1> QED
  BY <1>1, <1>2

LEMMA RealmStep ==
    ASSUME TypeInv, RealmInv, [Next]_vars
    PROVE  RealmInv'
<1> DEFINE Sound(r, t, job) ==
              /\ r.client = "enabled" /\ ~t => r.defects = {}
              /\ job.op = "reconcile" /\ job.pc > 1 /\ ~t =>
                   r.client # "enabled" /\ r.defects \subseteq Left(job.pc)
           job == jobs[Deployer]
<1>1. Sound(realm, touched, job)
  BY DEF RealmInv, EnabledIsRepaired
<1>2. SUFFICES Sound(realm', touched', job')
  BY DEF RealmInv, EnabledIsRepaired
<1>3. Deployer \in Actors
  BY DEF Actors
<1>4. ASSUME UNCHANGED provisioning, job' = job \/ job'.op # "reconcile" PROVE Sound(realm', touched', job')
  BY <1>1, <1>4 DEF provisioning
<1>5. ASSUME NEW w \in Operators,
             Begins(w) \/ \E kind \in Outcomes : OnUsers(w, kind) \/ OnProfiles(w, kind)
      PROVE  Sound(realm', touched', job')
  BY <1>3, <1>4, <1>5, OperatorMoves
<1>6. ASSUME NEW w \in Actors, Crash(w) PROVE Sound(realm', touched', job')
  <2>1. UNCHANGED provisioning /\ Leave(w)
    BY <1>6 DEF Crash
  <2>2. job' = job \/ job' = Idle
    BY <1>3, <2>1, LeaveMoves
  <2> QED
    BY <1>4, <2>1, <2>2, IdleIs
<1>7. CASE ByHand
  <2>1. UNCHANGED jobs
    BY <1>7 DEF ByHand, LogIn, LogOut, Enroll, Drift, Settle
  <2>2. CASE UNCHANGED provisioning
    BY <1>4, <2>1, <2>2
  <2>3. CASE \E d \in Refused \cup Mended \cup {"enable", "remove"} : Drift(d)
    <3>1. touched' = TRUE
      BY <2>3 DEF Drift
    <3> QED
      BY <3>1
  <2>4. CASE \E d \in Refused : Settle(d)
    <3>1. PICK d \in Refused : Settle(d)
      BY <2>4
    <3>2. realm' = [realm EXCEPT !.defects = @ \ {d}] /\ touched' = touched
      BY <3>1 DEF Settle
    <3>3. realm \in [client : {"absent", "enabled", "disabled"}, defects : SUBSET Defects]
      BY DEF TypeInv
    <3>4. realm'.client = realm.client /\ realm'.defects \subseteq realm.defects
      BY <3>2, <3>3
    <3> QED
      BY <1>1, <2>1, <3>2, <3>4
  <2> QED
    BY <1>7, <2>2, <2>3, <2>4 DEF ByHand, LogIn, LogOut, Enroll
<1>8. CASE BeginReconcile
  <2>1. job' = [op |-> "reconcile", pc |-> 1] /\ UNCHANGED provisioning
    BY <1>3, <1>8 DEF BeginReconcile, TypeInv
  <2>2. ~(job'.pc > 1)
    BY <2>1
  <2> QED
    BY <1>1, <2>1, <2>2 DEF provisioning
<1>9. ASSUME NEW kind \in Outcomes, ReconcileStep(kind) PROVE Sound(realm', touched', job')
  <2> DEFINE n == job.pc
             passes == kind # "refused" /\ Steps[n].refuses \cap realm.defects = {}
  <2>1. /\ n \in 1 .. Len(Steps) /\ job.op = "reconcile" /\ Len(Steps) = 19
        /\ realm \in [client : {"absent", "enabled", "disabled"}, defects : SUBSET Defects]
    BY <1>3, <1>9, StepsAre DEF ReconcileStep, TypeInv, Carries
  <2>2. /\ realm' = IF passes THEN After(Steps[n], realm) ELSE realm
        /\ touched' = IF n = 1 /\ passes THEN FALSE ELSE touched
        /\ IF passes /\ kind = "done" /\ n < Len(Steps) THEN Goto(Deployer, n + 1) ELSE Leave(Deployer)
    BY <1>9 DEF ReconcileStep
  <2>3. \/ job' = Idle
        \/ passes /\ n < 19 /\ job'.pc = n + 1
    <3>1. CASE Leave(Deployer)
      BY <1>3, <3>1, LeaveMoves
    <3>2. CASE passes /\ n < 19 /\ Goto(Deployer, n + 1)
      <4>1. n + 1 \in 1 .. Len(Steps)
        BY <2>1, <3>2
      <4> QED
        BY <1>3, <3>2, <4>1, GotoMoves
    <3> QED
      BY <2>1, <2>2, <3>1, <3>2
  <2>4. CASE ~passes
    <3>1. job' = Idle /\ UNCHANGED provisioning
      BY <2>2, <2>3, <2>4 DEF provisioning
    <3> QED
      BY <1>4, <3>1, IdleIs
  <2>5. CASE passes
    <3> SUFFICES ASSUME ~touched' PROVE Sound(realm', touched', job')
      OBVIOUS
    <3>1. n > 1 => realm.client # "enabled" /\ realm.defects \subseteq Left(n)
      BY <1>1, <2>1, <2>2
    <3>2. PICK s : s = Steps[n]
      OBVIOUS
    <3>3. s.refuses \cap realm.defects = {}
      BY <2>5, <3>2
    <3>4. PICK m : m = n
      OBVIOUS
    <3>5. /\ m < 19 => After(s, realm).client # "enabled" /\ After(s, realm).defects \subseteq Left(m + 1)
          /\ m = 19 => After(s, realm).defects = {}
      BY <2>1, <3>1, <3>2, <3>3, <3>4, StepLeaves
    <3>6. realm' = After(s, realm)
      BY <2>2, <2>5, <3>2
    <3>7. CASE n < 19
      BY <2>3, <3>4, <3>5, <3>6, <3>7, IdleIs
    <3>8. CASE n = 19
      BY <2>3, <3>4, <3>5, <3>6, <3>8, IdleIs
    <3> QED
      BY <2>1, <3>7, <3>8
  <2> QED
    BY <2>4, <2>5
<1>10. CASE UNCHANGED vars
  BY <1>4, <1>10 DEF vars, provisioning
<1> HIDE DEF Sound, job
<1> QED
  BY <1>5, <1>6, <1>7, <1>8, <1>9, <1>10, NextIs

-----------------------------------------------------------------------------
(* Users.                                                                  *)

LEMMA LockStep ==
    ASSUME TypeInv, LockInv, [Next]_vars
    PROVE  LockInv'
<1>1. CASE UNCHANGED directory
  BY <1>1 DEF LockInv, directory
<1>2. ASSUME NEW w \in Operators, NEW kind \in Outcomes, InsertUser(w, kind) PROVE LockInv'
  <2>1. lockedOut' = lockedOut
    BY <1>2 DEF InsertUser
  <2>2. \A u \in lockedOut : users[u] # Absent
    <3>1. Absent.state # "disabled"
      BY DEF Absent
    <3> QED
      BY <3>1 DEF LockInv
  <2>3. \A u \in lockedOut : users'[u] = users[u]
    BY <1>2, <2>2 DEF InsertUser, TypeInv, LockInv
  <2> QED
    BY <2>1, <2>3 DEF LockInv
<1>3. ASSUME NEW w \in Operators, NEW kind \in Outcomes, DisableRow(w, kind) PROVE LockInv'
  <2> DEFINE u == jobs[w].user
  <2>1. u \in Users
    BY <1>3 DEF DisableRow, At, TypeInv, Carries, Actors
  <2>2. CASE kind = "refused"
    BY <1>3, <2>2 DEF DisableRow, LockInv
  <2>3. CASE kind # "refused"
    <3>1. users' = [users EXCEPT ![u].state = "disabled"] /\ lockedOut' \subseteq lockedOut \cup {u}
      BY <1>3, <2>3 DEF DisableRow
    <3>2. users'[u].state = "disabled" /\ \A x \in Users \ {u} : users'[x] = users[x]
      BY <2>1, <3>1 DEF TypeInv
    <3> QED
      BY <2>1, <3>1, <3>2 DEF LockInv
  <2> QED
    BY <2>2, <2>3
<1>4. ASSUME NEW w \in Operators, NEW kind \in Outcomes, DisableAccount(w, kind) PROVE LockInv'
  <2>1. /\ w \in Actors /\ jobs[w].op = "disable" /\ Goto(w, "row")
        /\ UNCHANGED users /\ lockedOut' = IF jobs'[w] = Idle THEN lockedOut \cup {jobs[w].user} ELSE lockedOut
    BY <1>4 DEF DisableAccount, AfterDisabling, At, Actors
  <2>2. jobs'[w].pc = "row"
    BY <2>1, GotoMoves
  <2>3. jobs'[w] # Idle
    <3>1. Idle.pc = ""
      BY DEF Idle
    <3> QED
      BY <2>2, <3>1
  <2> QED
    BY <2>1, <2>3 DEF LockInv
<1>5. ASSUME NEW w \in Operators, NEW kind \in Outcomes, OnUsers(w, kind) PROVE LockInv'
  BY <1>1, <1>2, <1>3, <1>4, <1>5 DEF OnUsers, CreateAccount, UndoAccount
<1>6. ASSUME NEW w \in Operators, NEW kind \in Outcomes, OnProfiles(w, kind) PROVE UNCHANGED directory
  BY <1>6 DEF OnProfiles, InsertProfile, ReplaceProfile, Record, RemoveProfile, BindProfile, UnbindProfile
<1>7. ASSUME NEW w \in Operators, Begins(w) PROVE UNCHANGED directory
  BY <1>7, BeginsMoves
<1>8. CASE ByHand
  BY <1>1, <1>8 DEF ByHand, LogIn, LogOut, Enroll, Drift, Settle
<1>9. ASSUME NEW w \in Actors, Crash(w) PROVE UNCHANGED directory
  BY <1>9 DEF Crash
<1>10. BeginReconcile \/ (\E kind \in Outcomes : ReconcileStep(kind)) => UNCHANGED directory
  BY DEF BeginReconcile, ReconcileStep
<1>11. UNCHANGED vars => UNCHANGED directory
  BY DEF vars, directory
<1> QED
  BY <1>1, <1>5, <1>6, <1>7, <1>8, <1>9, <1>10, <1>11, NextIs

\* Who is making what changes only by the steps of a creation.
LEMMA AccountKept ==
    ASSUME AccountInv, happened \subseteq happened',
           \A u \in Users : accounts'[u] = "none" <=> accounts[u] = "none",
           \A u \in Users : users'[u].by = users[u].by,
           \A w \in Actors : jobs'[w] = jobs[w] \/ ~(jobs[w].op = "create" /\ jobs[w].pc # "account"),
           \A w \in Actors : jobs'[w] = jobs[w] \/ jobs'[w].op # "create"
                               \/ (jobs'[w].pc = "account" /\ jobs'[w].by = "keycloak")
                               \/ (jobs'[w].pc = "row" /\ jobs'[w].by = "external")
    PROVE  AccountInv'
<1>1. \A w \in Actors, u \in Users : Making(w, u)' <=> Making(w, u)
  <2> SUFFICES ASSUME NEW w \in Actors, NEW u \in Users PROVE Making(w, u)' <=> Making(w, u)
    OBVIOUS
  <2>1. CASE jobs'[w] = jobs[w]
    BY <2>1 DEF Making
  <2>2. CASE jobs'[w] # jobs[w]
    <3>1. ~Making(w, u)
      BY <2>2 DEF Making
    <3>2. jobs'[w].op # "create" \/ jobs'[w].pc = "account" \/ jobs'[w].by = "external"
      BY <2>2
    <3>3. ~Making(w, u)'
      BY <3>2 DEF Making
    <3> QED
      BY <3>1, <3>3
  <2> QED
    BY <2>1, <2>2
<1>2. ASSUME happened' \subseteq {"refused"}, NEW u \in Users PROVE Answered(u)'
  <2>1. Answered(u)
    BY <1>2 DEF AccountInv
  <2>2. \A w \in Actors : Making(w, u)' <=> Making(w, u)
    BY <1>1
  <2>3. (accounts'[u] = "none" <=> accounts[u] = "none") /\ users'[u].by = users[u].by
    OBVIOUS
  <2> QED
    BY <2>1, <2>2, <2>3, Zenon DEF Answered
<1>3. ASSUME NEW w \in Actors, jobs'[w].op = "create", jobs'[w].pc \in {"account", "undo"}
      PROVE  jobs'[w].by = "keycloak"
  <2>1. CASE jobs'[w] = jobs[w]
    BY <1>3, <2>1 DEF AccountInv
  <2>2. CASE jobs'[w] # jobs[w]
    BY <1>3, <2>2
  <2> QED
    BY <2>1, <2>2
<1> QED
  BY <1>2, <1>3 DEF AccountInv

\* One user's creation moves on; the others' accounts stay as they are.
LEMMA AccountMoves ==
    ASSUME AccountInv, happened \subseteq happened', NEW w \in Actors, NEW u \in Users,
           \A x \in Actors \ {w} : jobs'[x] = jobs[x],
           \A v \in Users \ {u} : accounts'[v] = accounts[v] /\ users'[v] = users[v],
           \A v \in Users \ {u} : ~Making(w, v) /\ ~Making(w, v)',
           jobs'[w].op = "create" /\ jobs'[w].pc \in {"account", "undo"} => jobs'[w].by = "keycloak",
           happened' \subseteq {"refused"} => Answered(u)'
    PROVE  AccountInv'
<1>1. ASSUME happened' \subseteq {"refused"}, NEW v \in Users \ {u} PROVE Answered(v)'
  <2>1. Answered(v)
    BY <1>1 DEF AccountInv
  <2>2. \A x \in Actors : Making(x, v)' <=> Making(x, v)
    <3> SUFFICES ASSUME NEW x \in Actors PROVE Making(x, v)' <=> Making(x, v)
      OBVIOUS
    <3>1. CASE x = w
      BY <3>1
    <3>2. CASE x # w
      <4>1. jobs'[x] = jobs[x]
        BY <3>2
      <4> QED
        BY <4>1 DEF Making
    <3> QED
      BY <3>1, <3>2
  <2>3. accounts'[v] = accounts[v] /\ users'[v] = users[v]
    OBVIOUS
  <2> QED
    BY <2>1, <2>2, <2>3, Zenon DEF Answered
<1>2. ASSUME NEW x \in Actors, jobs'[x].op = "create", jobs'[x].pc \in {"account", "undo"}
      PROVE  jobs'[x].by = "keycloak"
  BY <1>2 DEF AccountInv
<1> QED
  BY <1>1, <1>2 DEF AccountInv

LEMMA AccountOnCreate ==
    ASSUME TypeInv, AccountInv, happened \subseteq happened', NEW w \in Operators, NEW kind \in Outcomes,
           CreateAccount(w, kind)
    PROVE  AccountInv'
<1>1. PICK u : u = jobs[w].user
  OBVIOUS
<1> DEFINE made == Authorised /\ accounts[u] = "none" /\ kind # "refused"
<1>2. /\ w \in Actors /\ u \in Users /\ jobs[w].op = "create" /\ jobs[w].pc = "account"
      /\ jobs[w].by = "keycloak" /\ {"op", "pc", "user", "by"} \subseteq DOMAIN jobs[w]
  BY <1>1 DEF CreateAccount, At, Actors, TypeInv, Carries, AccountInv
<1>3. /\ Outcome(kind) /\ UNCHANGED users
      /\ accounts' = IF made THEN [accounts EXCEPT ![u] = "enabled"] ELSE accounts
      /\ IF made /\ kind = "done" THEN Goto(w, "row") ELSE Leave(w)
  BY <1>1 DEF CreateAccount, directory
<1>4. CASE ~made
  <2>1. jobs'[w] = Idle /\ \A x \in Actors \ {w} : jobs'[x] = jobs[x]
    BY <1>2, <1>3, <1>4, LeaveMoves
  <2>2. UNCHANGED accounts
    BY <1>3, <1>4
  <2> QED
    BY <1>2, <1>3, <2>1, <2>2, IdleIs, AccountKept
<1>5. CASE made /\ kind # "done"
  <2>1. kind = "lost"
    BY <1>5 DEF Outcomes
  <2>2. "lost" \in happened'
    BY <1>3, <2>1 DEF Outcome, Spend
  <2>3. ~(happened' \subseteq {"refused"})
    BY <2>2
  <2>4. jobs'[w] = Idle /\ \A x \in Actors \ {w} : jobs'[x] = jobs[x]
    BY <1>2, <1>3, <1>5, LeaveMoves
  <2> QED
    BY <2>3, <2>4, IdleIs DEF AccountInv
<1>6. CASE made /\ kind = "done"
  <2>1. /\ \A f \in DOMAIN jobs[w] \ {"pc"} : jobs'[w][f] = jobs[w][f]
        /\ jobs'[w].pc = "row" /\ \A x \in Actors \ {w} : jobs'[x] = jobs[x]
    BY <1>2, <1>3, <1>6, GotoMoves
  <2>2. jobs'[w].op = "create" /\ jobs'[w].user = u /\ jobs'[w].by = "keycloak"
    BY <1>1, <1>2, <2>1
  <2>3. \A v \in Users \ {u} : accounts'[v] = accounts[v]
    BY <1>3, <1>6
  <2>4. \A v \in Users : ~Making(w, v)
    BY <1>2 DEF Making
  <2>5. \A v \in Users \ {u} : ~Making(w, v)'
    BY <2>2 DEF Making
  <2>6. ASSUME happened' \subseteq {"refused"} PROVE Answered(u)'
    <3>1. Answered(u)
      BY <1>2, <2>6 DEF AccountInv
    <3>2. \A x \in Actors : ~Making(x, u)
      BY <1>6, <3>1 DEF Answered
    <3>3. users[u].by # "keycloak"
      BY <1>6, <3>1, <3>2 DEF Answered
    <3>4. Making(w, u)' /\ \A x \in Actors \ {w} : ~Making(x, u)'
      BY <2>1, <2>2, <3>2 DEF Making
    <3>5. accounts'[u] = "enabled"
      BY <1>2, <1>3, <1>6 DEF TypeInv
    <3>6. accounts'[u] # "none" /\ users'[u].by # "keycloak"
      BY <1>3, <3>3, <3>5
    <3> QED
      BY <1>2, <3>4, <3>6 DEF Answered
  <2> QED
    BY <1>2, <1>3, <2>1, <2>2, <2>3, <2>4, <2>5, <2>6, AccountMoves
<1> QED
  BY <1>4, <1>5, <1>6

LEMMA AccountOnInsert ==
    ASSUME TypeInv, AccountInv, happened \subseteq happened', NEW w \in Operators, NEW kind \in Outcomes,
           InsertUser(w, kind)
    PROVE  AccountInv'
<1>1. PICK u : u = jobs[w].user
  OBVIOUS
<1> DEFINE made == users[u] = Absent /\ kind # "refused"
           own == jobs[w].by = "keycloak"
<1>2. /\ w \in Actors /\ u \in Users /\ jobs[w].op = "create" /\ jobs[w].pc = "row"
      /\ jobs[w].by \in {"keycloak", "external"} /\ {"op", "pc", "user", "by"} \subseteq DOMAIN jobs[w]
  BY <1>1 DEF InsertUser, At, Actors, TypeInv, Carries
<1>3. /\ Outcome(kind) /\ UNCHANGED accounts
      /\ users' = IF made THEN [users EXCEPT ![u] = [state |-> "active", by |-> jobs[w].by]] ELSE users
      /\ IF made /\ kind = "done" THEN Leave(w) ELSE IF own THEN Goto(w, "undo") ELSE Leave(w)
  BY <1>1 DEF InsertUser, InsertFailed, keycloak
<1>4. /\ \A v \in Users \ {u} : accounts'[v] = accounts[v] /\ users'[v] = users[v]
      /\ accounts'[u] = accounts[u]
  BY <1>3
<1>5. \A v \in Users \ {u} : ~Making(w, v)
  BY <1>1 DEF Making
<1>6. Making(w, u) <=> own
  BY <1>1, <1>2 DEF Making
<1>7. CASE Leave(w)
  <2>1. jobs'[w] = Idle /\ \A x \in Actors \ {w} : jobs'[x] = jobs[x]
    BY <1>2, <1>7, LeaveMoves
  <2>2. \A v \in Users : ~Making(w, v)'
    BY <2>1, IdleIs DEF Making
  <2>3. ASSUME happened' \subseteq {"refused"} PROVE Answered(u)'
    <3>1. Answered(u)
      BY <1>2, <2>3 DEF AccountInv
    <3>2. \A x \in Actors \ {w} : Making(x, u)' <=> Making(x, u)
      BY <2>1 DEF Making
    <3>3. CASE made
      <4>1. users'[u].by = jobs[w].by
        BY <1>2, <1>3, <3>3 DEF TypeInv
      <4>2. users[u].by # "keycloak"
        BY <3>3, IdleIs
      <4>3. CASE own
        <5>1. \A x \in Actors : ~Making(x, u)'
          BY <1>2, <1>6, <2>2, <3>1, <3>2, <4>3 DEF Answered
        <5>2. accounts[u] # "none"
          BY <1>2, <1>6, <3>1, <4>3 DEF Answered
        <5> QED
          BY <1>4, <4>1, <4>3, <5>1, <5>2 DEF Answered
      <4>4. CASE ~own
        <5>3. ~Making(w, u) /\ ~Making(w, u)'
          BY <1>2, <1>6, <2>2, <4>4
        <5>1. \A x \in Actors : Making(x, u)' <=> Making(x, u)
          BY <3>2, <5>3, Zenon
        <5>2. users'[u].by # "keycloak"
          BY <4>1, <4>4
        <5> QED
          BY <1>4, <3>1, <4>2, <5>1, <5>2, Zenon DEF Answered
      <4> QED
        BY <4>3, <4>4
    <3>4. CASE ~made
      <4>1. ~own
        <5>1. own => Goto(w, "undo")
          BY <1>3, <3>4
        <5>2. Goto(w, "undo") => jobs'[w].pc = "undo"
          BY <1>2, GotoMoves
        <5>3. jobs'[w].pc # "undo"
          BY <2>1, IdleIs
        <5> QED
          BY <5>1, <5>2, <5>3
      <4>2. ~Making(w, u) /\ ~Making(w, u)'
        BY <1>2, <1>6, <2>2, <4>1
      <4>3. \A x \in Actors : Making(x, u)' <=> Making(x, u)
        BY <3>2, <4>2, Zenon
      <4>4. users'[u] = users[u]
        BY <1>3, <3>4
      <4> QED
        BY <1>4, <3>1, <4>3, <4>4, Zenon DEF Answered
    <3> QED
      BY <3>3, <3>4
  <2> QED
    BY <1>2, <1>4, <1>5, <2>1, <2>2, <2>3, IdleIs, AccountMoves
<1>8. CASE Goto(w, "undo") /\ own /\ ~(made /\ kind = "done")
  <2>1. /\ \A f \in DOMAIN jobs[w] \ {"pc"} : jobs'[w][f] = jobs[w][f]
        /\ jobs'[w].pc = "undo" /\ \A x \in Actors \ {w} : jobs'[x] = jobs[x]
    BY <1>2, <1>8, GotoMoves
  <2>2. jobs'[w].op = "create" /\ jobs'[w].user = u /\ jobs'[w].by = "keycloak"
    BY <1>1, <1>2, <1>8, <2>1
  <2>3. \A v \in Users \ {u} : ~Making(w, v)'
    BY <2>2 DEF Making
  <2>4. Making(w, u)' /\ \A x \in Actors \ {w} : Making(x, u)' <=> Making(x, u)
    BY <2>1, <2>2 DEF Making
  <2>5. ASSUME happened' \subseteq {"refused"} PROVE Answered(u)'
    <3>1. Answered(u)
      BY <1>2, <2>5 DEF AccountInv
    <3>2. kind # "lost"
      <4>1. kind = "lost" => "lost" \in happened'
        BY <1>3 DEF Outcome, Spend
      <4> QED
        BY <2>5, <4>1
    <3>3. ~made
      BY <1>8, <3>2 DEF Outcomes
    <3>4. users'[u] = users[u]
      BY <1>3, <3>3
    <3>5. \A x \in Actors : Making(x, u)' <=> Making(x, u)
      BY <1>6, <1>8, <2>4
    <3> QED
      BY <1>4, <3>1, <3>4, <3>5, Zenon DEF Answered
  <2> QED
    BY <1>2, <1>4, <1>5, <2>1, <2>2, <2>3, <2>5, AccountMoves
<1> QED
  BY <1>3, <1>7, <1>8

LEMMA AccountOnUndo ==
    ASSUME TypeInv, AccountInv, happened \subseteq happened', NEW w \in Operators, NEW kind \in Outcomes,
           UndoAccount(w, kind)
    PROVE  AccountInv'
<1>1. PICK u : u = jobs[w].user
  OBVIOUS
<1> DEFINE gone == Authorised /\ u \in members /\ kind # "refused"
<1>2. /\ w \in Actors /\ u \in Users /\ jobs[w].op = "create" /\ jobs[w].pc = "undo"
      /\ jobs[w].by = "keycloak"
  BY <1>1 DEF UndoAccount, At, Actors, TypeInv, Carries, AccountInv
<1>3. /\ UNCHANGED users /\ Leave(w)
      /\ accounts' = IF gone THEN [accounts EXCEPT ![u] = "none"] ELSE accounts
      /\ happened' = happened \cup (IF kind = "done" THEN {} ELSE {kind})
                              \cup (IF gone THEN {} ELSE {"not undone"})
  BY <1>1 DEF UndoAccount, directory
<1>4. jobs'[w] = Idle /\ \A x \in Actors \ {w} : jobs'[x] = jobs[x]
  BY <1>2, <1>3, LeaveMoves
<1>5. \A v \in Users \ {u} : accounts'[v] = accounts[v] /\ users'[v] = users[v]
  <2>1. \A v \in Users \ {u} : accounts'[v] = accounts[v]
    BY <1>3 DEF TypeInv
  <2>2. users' = users
    BY <1>3
  <2> HIDE DEF gone
  <2> QED
    BY <2>1, <2>2
<1>6. \A v \in Users \ {u} : ~Making(w, v)
  BY <1>1 DEF Making
<1>7. \A v \in Users : ~Making(w, v)'
  BY <1>4, IdleIs DEF Making
<1>8. ASSUME happened' \subseteq {"refused"} PROVE Answered(u)'
  <2>1. Answered(u)
    BY <1>2, <1>8 DEF AccountInv
  <2>2. gone
    <3>1. ~gone => "not undone" \in happened'
      BY <1>3
    <3> QED
      BY <1>8, <3>1
  <2>3. accounts'[u] = "none"
    BY <1>2, <1>3, <2>2 DEF TypeInv
  <2>4. Making(w, u)
    BY <1>1, <1>2 DEF Making
  <2>5. users[u].by # "keycloak" /\ \A x \in Actors \ {w} : ~Making(x, u)
    BY <1>2, <2>1, <2>4 DEF Answered
  <2>6. \A x \in Actors : ~Making(x, u)'
    BY <1>4, <1>7, <1>2, <2>5 DEF Making
  <2> QED
    BY <1>3, <2>3, <2>5, <2>6 DEF Answered
<1> QED
  BY <1>2, <1>4, <1>5, <1>6, <1>7, <1>8, IdleIs, AccountMoves

LEMMA AccountOnDisable ==
    ASSUME TypeInv, AccountInv, happened \subseteq happened', NEW w \in Operators, NEW kind \in Outcomes,
           DisableAccount(w, kind) \/ DisableRow(w, kind)
    PROVE  AccountInv'
<1>1. PICK u : u = jobs[w].user
  OBVIOUS
<1>2. w \in Actors /\ u \in Users /\ jobs[w].op = "disable"
  BY <1>1 DEF DisableAccount, DisableRow, At, Actors, TypeInv, Carries
<1>3. jobs[w].op # "create" /\ jobs[w].op # "reconcile"
  BY <1>2
<1>4. Leave(w) \/ Goto(w, "row")
  BY DEF DisableAccount, DisableRow, AfterDisabling
<1>5. jobs'[w].op # "create" /\ \A x \in Actors \ {w} : jobs'[x] = jobs[x]
  <2>1. CASE Leave(w)
    <3>1. jobs'[w] = Idle /\ \A x \in Actors \ {w} : jobs'[x] = jobs[x]
      BY <1>2, <2>1, LeaveMoves
    <3> QED
      BY <3>1, IdleIs
  <2>2. CASE Goto(w, "row")
    <3>1. {"op", "pc"} \subseteq DOMAIN jobs[w]
      BY <1>2 DEF TypeInv, Carries
    <3>2. /\ jobs'[w].op = jobs[w].op
          /\ \A x \in Actors \ {w} : jobs'[x] = jobs[x]
      BY <1>2, <1>3, <2>2, <3>1, GotoMoves
    <3> QED
      BY <1>3, <3>2
  <2> QED
    BY <1>4, <2>1, <2>2
<1>6. (\A v \in Users : accounts'[v] = "none" <=> accounts[v] = "none")
      /\ (\A v \in Users : users'[v].by = users[v].by)
  <2>1. CASE DisableAccount(w, kind)
    <3>1. UNCHANGED users
      BY <2>1 DEF DisableAccount
    <3>2. UNCHANGED accounts \/ (accounts[u] # "none" /\ accounts' = [accounts EXCEPT ![u] = "disabled"])
      BY <1>1, <2>1 DEF DisableAccount
    <3> QED
      BY <1>2, <3>1, <3>2 DEF TypeInv
  <2>2. CASE DisableRow(w, kind)
    <3>1. UNCHANGED accounts
      BY <2>2 DEF DisableRow, keycloak
    <3>2. UNCHANGED users \/ users' = [users EXCEPT ![u].state = "disabled"]
      BY <1>1, <2>2 DEF DisableRow
    <3>3. users \in [Users -> [state : {"absent", "active", "disabled"},
                                by : {"", "keycloak", "external"}]]
      BY DEF TypeInv
    <3>4. ASSUME users' = [users EXCEPT ![u].state = "disabled"], NEW v \in Users
          PROVE  users'[v].by = users[v].by
      <4>1. CASE v = u
        BY <3>3, <3>4, <4>1
      <4>2. CASE v # u
        BY <3>3, <3>4, <4>2
      <4> QED
        BY <4>1, <4>2
    <3> QED
      BY <3>1, <3>2, <3>4
  <2> QED
    BY <2>1, <2>2
<1> QED
  BY <1>3, <1>5, <1>6, AccountKept

LEMMA AccountStep ==
    ASSUME TypeInv, AccountInv, [Next]_vars
    PROVE  AccountInv'
<1>1. happened \subseteq happened'
  BY FaultsAddUp
<1>2. ASSUME NEW w \in Operators, NEW kind \in Outcomes, OnUsers(w, kind) PROVE AccountInv'
  BY <1>1, <1>2, AccountOnCreate, AccountOnInsert, AccountOnUndo, AccountOnDisable DEF OnUsers
<1>3. ASSUME NEW w \in Operators, Begins(w) PROVE AccountInv'
  <2>1. /\ jobs[w].op = "idle" /\ \A x \in Actors \ {w} : jobs'[x] = jobs[x]
        /\ UNCHANGED <<directory, keycloak>>
    BY <1>3, BeginsMoves
  <2>2. jobs'[w].op = "create" => \/ jobs'[w].pc = "account" /\ jobs'[w].by = "keycloak"
                                  \/ jobs'[w].pc = "row" /\ jobs'[w].by = "external"
    BY <1>3, BeginsMoves
  <2>3. UNCHANGED <<users, accounts>> /\ jobs[w].op # "create"
    BY <2>1 DEF directory, keycloak
  <2> QED
    BY <1>1, <2>1, <2>2, <2>3, AccountKept
<1>4. ASSUME NEW w \in Operators, NEW kind \in Outcomes, OnProfiles(w, kind) PROVE AccountInv'
  <2>1. /\ w \in Actors /\ UNCHANGED <<users, accounts>>
        /\ jobs[w].op \in {"define", "redefine", "remove", "assign", "revoke"}
    BY <1>4 DEF OnProfiles, InsertProfile, ReplaceProfile, Record, RemoveProfile, BindProfile, UnbindProfile,
       At, Actors, directory, keycloak
  <2>2. jobs[w].op # "create" /\ jobs[w].op # "reconcile"
    BY <2>1
  <2>3. Leave(w) \/ \E pc : Goto(w, pc)
    BY <1>4 DEF OnProfiles, InsertProfile, ReplaceProfile, Record, RemoveProfile, BindProfile, UnbindProfile
  <2>4. jobs'[w].op # "create"
    <3>1. CASE Leave(w)
      <4>1. jobs'[w] = Idle
        BY <2>1, <3>1, LeaveMoves
      <4> QED
        BY <4>1, IdleIs
    <3>2. ASSUME NEW pc, Goto(w, pc) PROVE jobs'[w].op = jobs[w].op
      <4>1. {"op", "pc"} \subseteq DOMAIN jobs[w]
        BY <2>1 DEF TypeInv, Carries
      <4> QED
        BY <2>1, <2>2, <3>2, <4>1, GotoMoves
    <3> QED
      BY <2>2, <2>3, <3>1, <3>2
  <2>5. \A x \in Actors \ {w} : jobs'[x] = jobs[x]
    BY <2>1, <2>2, <2>3, StepMoves
  <2> QED
    BY <1>1, <2>1, <2>2, <2>4, <2>5, AccountKept
<1>5. ASSUME NEW w \in Actors, Crash(w) PROVE AccountInv'
  <2>1. "crash" \in happened' /\ Leave(w)
    BY <1>5 DEF Crash, Spend
  <2>2. jobs'[w] = Idle /\ \A x \in Actors \ {w} : jobs'[x] = jobs[x]
    BY <1>5, <2>1, LeaveMoves
  <2>3. ~(happened' \subseteq {"refused"})
    BY <2>1
  <2> QED
    BY <2>2, <2>3, IdleIs DEF AccountInv
<1>6. CASE ByHand
  <2>1. UNCHANGED <<users, accounts, jobs>>
    BY <1>6 DEF ByHand, LogIn, LogOut, Enroll, Drift, Settle, directory, keycloak
  <2> QED
    BY <1>1, <2>1, AccountKept
<1>7. CASE BeginReconcile \/ \E kind \in Outcomes : ReconcileStep(kind)
  <2>1. /\ UNCHANGED <<users, accounts>> /\ Deployer \in Actors
        /\ jobs[Deployer].op = "idle" \/ jobs[Deployer].op = "reconcile"
    BY <1>7 DEF BeginReconcile, ReconcileStep, Resting, directory, keycloak, Actors
  <2>2. /\ jobs'[Deployer].op = "idle" \/ jobs'[Deployer].op = "reconcile"
        /\ \A x \in Actors \ {Deployer} : jobs'[x] = jobs[x]
    <3>1. CASE BeginReconcile
      <4>1. jobs' = [jobs EXCEPT ![Deployer] = [op |-> "reconcile", pc |-> 1]]
        BY <3>1 DEF BeginReconcile
      <4> QED
        BY <2>1, <4>1 DEF TypeInv
    <3>2. ASSUME NEW kind \in Outcomes, ReconcileStep(kind)
          PROVE  /\ jobs'[Deployer].op = "idle" \/ jobs'[Deployer].op = "reconcile"
                 /\ \A x \in Actors \ {Deployer} : jobs'[x] = jobs[x]
      <4>1. CASE Leave(Deployer)
        BY <2>1, <4>1, LeaveMoves, IdleIs
      <4>2. CASE ~Leave(Deployer)
        <5>1. /\ jobs[Deployer].op = "reconcile" /\ jobs[Deployer].pc < Len(Steps)
              /\ Goto(Deployer, jobs[Deployer].pc + 1)
          BY <3>2, <4>2 DEF ReconcileStep
        <5>2. {"op", "pc"} \subseteq DOMAIN jobs[Deployer] /\ jobs[Deployer].pc \in 1 .. Len(Steps)
          BY <2>1, <5>1 DEF TypeInv, Carries
        <5>3. jobs[Deployer].pc + 1 \in 1 .. Len(Steps)
          <6>1. Len(Steps) = 19
            BY StepsAre
          <6> QED
            BY <5>1, <5>2, <6>1
        <5> QED
          BY <2>1, <5>1, <5>2, <5>3, GotoMoves
      <4> QED
        BY <4>1, <4>2
    <3> QED
      BY <1>7, <3>1, <3>2
  <2>3. jobs[Deployer].op # "create" /\ jobs'[Deployer].op # "create"
    BY <2>1, <2>2
  <2> QED
    BY <1>1, <2>1, <2>2, <2>3, AccountKept
<1>8. CASE UNCHANGED vars
  BY <1>1, <1>8, AccountKept DEF vars, directory, keycloak
<1> QED
  BY <1>2, <1>3, <1>4, <1>5, <1>6, <1>7, <1>8, NextIs

-----------------------------------------------------------------------------
(* Profiles.                                                               *)

\* Whatever leaves the definitions and the history alone, and takes no writer
\* away from between the two.
LEMMA HistoryKept ==
    ASSUME HistoryInv, UNCHANGED <<profiles, history>>, unwritten \subseteq unwritten',
           \A w \in Actors : \/ jobs'[w] = jobs[w]
                             \/ jobs[w].op \notin {"define", "redefine"}
                             \/ jobs[w].pc \notin {"create", "update"}
                             \/ jobs[w].version \in unwritten'
    PROVE  HistoryInv'
<1> SUFFICES ASSUME NEW p \in Profiles, profiles'[p] \notin {0} \cup unwritten'
             PROVE  Recorded(p)' \/ \E w \in Actors : Recording(w, p)'
  BY DEF HistoryInv
<1>1. profiles'[p] = profiles[p]
  OBVIOUS
<1>2. Recorded(p) \/ \E w \in Actors : Recording(w, p)
  BY <1>1 DEF HistoryInv
<1>3. CASE Recorded(p)
  BY <1>3 DEF Recorded
<1>4. ASSUME NEW w \in Actors, Recording(w, p) PROVE Recording(w, p)'
  <2>1. jobs'[w] = jobs[w]
    BY <1>1, <1>4 DEF Recording
  <2> QED
    BY <1>4, <2>1 DEF Recording
<1> QED
  BY <1>2, <1>3, <1>4

\* A definition goes in force when its writer has still to record it.
LEMMA HistoryOnDefinition ==
    ASSUME TypeInv, HistoryInv, NEW w \in Operators, NEW kind \in Outcomes,
           InsertProfile(w, kind) \/ ReplaceProfile(w, kind) \/ RemoveProfile(w, kind)
    PROVE  HistoryInv'
<1>1. PICK p : p = jobs[w].profile
  OBVIOUS
<1>2. /\ w \in Actors /\ jobs[w].pc = "row" /\ jobs[w].op \in {"define", "redefine", "remove"}
      /\ p \in Profiles /\ {"op", "pc", "profile", "version"} \subseteq DOMAIN jobs[w]
  BY <1>1 DEF InsertProfile, ReplaceProfile, RemoveProfile, At, Actors, TypeInv, Carries
<1>3. /\ UNCHANGED history /\ unwritten \subseteq unwritten'
      /\ \A q \in Profiles \ {p} : profiles'[q] = profiles[q]
  <2>1. /\ UNCHANGED history /\ unwritten \subseteq unwritten'
        /\ profiles' = profiles \/ \E v : profiles' = [profiles EXCEPT ![p] = v]
    BY <1>1 DEF InsertProfile, ReplaceProfile, RemoveProfile
  <2> QED
    BY <2>1 DEF TypeInv
<1>4. \A q : ~Recording(w, q)
  BY <1>2 DEF Recording
<1>5. jobs[w].op # "reconcile"
  BY <1>2
<1>6. Leave(w) \/ \E pc : Goto(w, pc)
  BY DEF InsertProfile, ReplaceProfile, RemoveProfile
<1>7. \A x \in Actors \ {w} : jobs'[x] = jobs[x]
  BY <1>2, <1>5, <1>6, StepMoves
<1>8. ASSUME profiles'[p] # profiles[p]
      PROVE  profiles'[p] \in {0} \cup unwritten' \/ Recording(w, p)'
  <2>2. CASE InsertProfile(w, kind) \/ ReplaceProfile(w, kind)
    <3>1. /\ profiles' = [profiles EXCEPT ![p] = jobs[w].version] \/ profiles' = profiles
          /\ jobs[w].op \in {"define", "redefine"}
      BY <1>1, <2>2 DEF InsertProfile, ReplaceProfile, At
    <3>2. profiles'[p] = jobs[w].version /\ profiles' # profiles
      BY <1>2, <1>8, <3>1 DEF TypeInv
    <3>6. CASE jobs[w].version \in unwritten'
      BY <3>2, <3>6
    <3> SUFFICES ASSUME jobs[w].version \notin unwritten' PROVE Recording(w, p)'
      BY <3>6
    <3>3. Goto(w, "create") \/ Goto(w, "update")
      <4>1. CASE ReplaceProfile(w, kind)
        BY <3>2, <4>1 DEF ReplaceProfile, Outcomes
      <4>2. CASE InsertProfile(w, kind)
        BY <3>2, <4>2 DEF InsertProfile, Outcomes
      <4> QED
        BY <2>2, <4>1, <4>2
    <3>4. /\ \A f \in DOMAIN jobs[w] \ {"pc"} : jobs'[w][f] = jobs[w][f]
          /\ jobs'[w].pc \in {"create", "update"}
      BY <1>2, <1>5, <3>3, GotoMoves
    <3>5. jobs'[w].op = jobs[w].op /\ jobs'[w].profile = p /\ jobs'[w].version = jobs[w].version
      BY <1>1, <1>2, <3>4
    <3> QED
      BY <3>1, <3>2, <3>4, <3>5 DEF Recording
  <2>3. CASE RemoveProfile(w, kind)
    <3>1. profiles' = [profiles EXCEPT ![p] = 0] \/ profiles' = profiles
      BY <1>1, <2>3 DEF RemoveProfile
    <3> QED
      BY <1>2, <1>8, <3>1 DEF TypeInv
  <2> QED
    BY <2>2, <2>3
<1>9. ASSUME NEW q \in Profiles, profiles'[q] \notin {0} \cup unwritten'
      PROVE  Recorded(q)' \/ \E x \in Actors : Recording(x, q)'
  <2>1. CASE profiles'[q] = profiles[q]
    <3>1. Recorded(q) \/ \E x \in Actors \ {w} : Recording(x, q)
      BY <1>3, <1>4, <1>9, <2>1 DEF HistoryInv
    <3>2. CASE Recorded(q)
      BY <1>3, <2>1, <3>2 DEF Recorded
    <3>3. ASSUME NEW x \in Actors \ {w}, Recording(x, q) PROVE Recording(x, q)'
      <4>1. jobs'[x] = jobs[x]
        BY <1>7
      <4> QED
        BY <2>1, <3>3, <4>1 DEF Recording
    <3> QED
      BY <3>1, <3>2, <3>3
  <2>2. CASE profiles'[q] # profiles[q]
    BY <1>2, <1>3, <1>8, <1>9, <2>2
  <2> QED
    BY <2>1, <2>2
<1> QED
  BY <1>9 DEF HistoryInv

\* The history only grows, by what its writer carries.
LEMMA HistoryOnRecord ==
    ASSUME TypeInv, HistoryInv, NEW w \in Operators, NEW kind \in Outcomes, Record(w, kind)
    PROVE  HistoryInv'
<1>1. PICK job : job = jobs[w]
  OBVIOUS
<1> DEFINE entry == [profile |-> job.profile, version |-> job.version, kind |-> job.pc]
<1>2. /\ w \in Actors /\ job.op \in {"define", "redefine", "remove"} /\ UNCHANGED profiles
      /\ job.pc \in {"create", "update", "delete"} /\ unwritten \subseteq unwritten'
      /\ history' = IF kind = "refused" THEN history ELSE Append(history, entry)
  BY <1>1 DEF Record, Entry, Written, Actors
<1>3. Leave(w) \/ \E pc : Goto(w, pc)
  BY DEF Record
<1>4. jobs[w].op # "reconcile"
  BY <1>1, <1>2
<1>5. \A x \in Actors \ {w} : jobs'[x] = jobs[x]
  BY <1>2, <1>3, <1>4, StepMoves
<1>6. CASE kind = "refused"
  <2>1. /\ UNCHANGED <<profiles, history>>
        /\ jobs[w].op \in {"define", "redefine"} /\ jobs[w].pc \in {"create", "update"}
             => jobs[w].version \in unwritten'
    BY <1>2, <1>6 DEF Record, Unwritten
  <2> QED
    BY <1>2, <1>5, <2>1, HistoryKept
<1> SUFFICES ASSUME kind # "refused", NEW p \in Profiles, profiles'[p] \notin {0} \cup unwritten'
             PROVE  Recorded(p)' \/ \E x \in Actors : Recording(x, p)'
  BY <1>6 DEF HistoryInv
<1>7. history' = Append(history, entry)
  BY <1>2
<1>8. /\ Len(history') = Len(history) + 1 /\ history'[Len(history) + 1] = entry
      /\ \A i \in 1 .. Len(history) : history'[i] = history[i]
      /\ DOMAIN history = 1 .. Len(history) /\ DOMAIN history' = 1 .. Len(history')
      /\ Len(history) \in Nat
  <2>1. PICK Entries : history \in Seq(Entries) /\ entry \in Entries
    <3> DEFINE Rows == [profile : Profiles, version : Nat, kind : {"create", "update", "delete"}]
    <3>1. history \in Seq(Rows)
      BY DEF TypeInv
    <3>2. entry \in Rows
      BY <1>1, <1>2 DEF TypeInv, Carries
    <3> HIDE DEF Rows, entry
    <3> QED
      BY <3>1, <3>2
  <2> HIDE DEF entry
  <2>2. history' \in Seq(Entries)
    BY <1>7, <2>1, AppendProperties
  <2> QED
    BY <1>7, <2>1, <2>2, AppendProperties, LenProperties
<1>9. Recorded(p) \/ \E x \in Actors : Recording(x, p)
  <2>1. profiles[p] \notin {0} \cup unwritten
    BY <1>2
  <2> QED
    BY <2>1 DEF HistoryInv
<1>10. CASE Recorded(p)
  <2>1. PICK i \in DOMAIN history : /\ history[i].profile = p /\ history[i].version = profiles[p]
                                    /\ history[i].kind # "delete"
    BY <1>10 DEF Recorded
  <2>2. i \in DOMAIN history' /\ history'[i] = history[i]
    BY <1>8
  <2> QED
    BY <1>2, <2>1, <2>2 DEF Recorded
<1>11. CASE Recording(w, p)
  <2>1. entry.profile = p /\ entry.version = profiles'[p] /\ entry.kind # "delete"
    BY <1>1, <1>2, <1>11 DEF Recording
  <2>2. Len(history) + 1 \in DOMAIN history'
    BY <1>8
  <2> HIDE DEF entry
  <2> QED
    BY <1>8, <2>1, <2>2 DEF Recorded
<1>12. ASSUME NEW x \in Actors \ {w}, Recording(x, p) PROVE Recording(x, p)'
  <2>1. jobs'[x] = jobs[x]
    BY <1>5
  <2> QED
    BY <1>2, <1>12, <2>1 DEF Recording
<1> QED
  BY <1>9, <1>10, <1>11, <1>12

LEMMA HistoryStep ==
    ASSUME TypeInv, HistoryInv, [Next]_vars
    PROVE  HistoryInv'
<1>2. ASSUME NEW w \in Operators, Begins(w) PROVE HistoryInv'
  <2>1. /\ UNCHANGED <<profiles, history, unwritten>> /\ jobs[w].op \notin {"define", "redefine"}
        /\ \A x \in Actors \ {w} : jobs'[x] = jobs[x]
    BY <1>2, BeginsMoves DEF grants
  <2> QED
    BY <2>1, HistoryKept
<1>3. ASSUME NEW w \in Operators, NEW kind \in Outcomes, OnUsers(w, kind) PROVE HistoryInv'
  <2>1. /\ w \in Actors /\ UNCHANGED <<profiles, history, unwritten>> /\ jobs[w].op \in {"create", "disable"}
    BY <1>3 DEF OnUsers, CreateAccount, InsertUser, UndoAccount, DisableAccount, DisableRow, At, Actors, grants
  <2>2. Leave(w) \/ \E pc : Goto(w, pc)
    BY <1>3 DEF OnUsers, CreateAccount, InsertUser, UndoAccount, DisableAccount, DisableRow, InsertFailed,
       AfterDisabling
  <2>3. jobs[w].op # "reconcile" /\ jobs[w].op \notin {"define", "redefine"}
    BY <2>1
  <2>4. \A x \in Actors \ {w} : jobs'[x] = jobs[x]
    BY <2>1, <2>2, <2>3, StepMoves
  <2> QED
    BY <2>1, <2>3, <2>4, HistoryKept
<1>4. ASSUME NEW w \in Operators, NEW kind \in Outcomes,
             BindProfile(w, kind) \/ UnbindProfile(w, kind)
      PROVE  HistoryInv'
  <2>1. /\ w \in Actors /\ UNCHANGED <<profiles, history, unwritten>> /\ jobs[w].op \in {"assign", "revoke"} /\ Leave(w)
    BY <1>4 DEF BindProfile, UnbindProfile, At, Actors
  <2>2. jobs[w].op # "reconcile" /\ jobs[w].op \notin {"define", "redefine"}
    BY <2>1
  <2>3. \A x \in Actors \ {w} : jobs'[x] = jobs[x]
    BY <2>1, <2>2, StepMoves
  <2> QED
    BY <2>1, <2>2, <2>3, HistoryKept
<1>5. ASSUME NEW w \in Operators, NEW kind \in Outcomes, OnProfiles(w, kind) PROVE HistoryInv'
  BY <1>4, <1>5, HistoryOnDefinition, HistoryOnRecord DEF OnProfiles
<1>6. ASSUME NEW w \in Actors, Crash(w) PROVE HistoryInv'
  <2>1. /\ UNCHANGED <<profiles, history>> /\ unwritten' = unwritten \cup Unwritten(w) /\ Leave(w)
    BY <1>6 DEF Crash
  <2>2. \A x \in Actors \ {w} : jobs'[x] = jobs[x]
    BY <2>1, LeaveMoves
  <2>3. jobs[w].op \in {"define", "redefine"} /\ jobs[w].pc \in {"create", "update"}
          => jobs[w].version \in unwritten'
    BY <2>1 DEF Unwritten
  <2> QED
    BY <2>1, <2>2, <2>3, HistoryKept
<1>7. CASE ByHand
  <2>1. UNCHANGED <<profiles, history, unwritten, jobs>>
    BY <1>7 DEF ByHand, LogIn, LogOut, Enroll, Drift, Settle, grants
  <2> QED
    BY <2>1, HistoryKept
<1>8. CASE BeginReconcile \/ \E kind \in Outcomes : ReconcileStep(kind)
  <2>1. UNCHANGED <<profiles, history, unwritten>> /\ jobs[Deployer].op \notin {"define", "redefine"}
    BY <1>8 DEF BeginReconcile, ReconcileStep, Resting, grants
  <2>2. \A x \in Actors \ {Deployer} : jobs'[x] = jobs[x]
    BY <1>8 DEF BeginReconcile, ReconcileStep, Goto, Leave, TypeInv
  <2> QED
    BY <2>1, <2>2, HistoryKept
<1>9. CASE UNCHANGED vars
  BY <1>9, HistoryKept DEF vars, grants
<1> QED
  BY <1>2, <1>3, <1>5, <1>6, <1>7, <1>8, <1>9, NextIs

-----------------------------------------------------------------------------
(* The invariant holds, and what follows from it.                          *)

LEMMA InvInit == Init => Inv
<1> SUFFICES ASSUME Init PROVE Inv
  OBVIOUS
<1>1. TypeInv
  <2>1. \A w \in Actors : Carries(jobs[w])
    BY DEF Init, Carries, Idle
  <2>2. /\ users \in [Users -> [state : {"absent", "active", "disabled"}, by : {"", "keycloak", "external"}]]
        /\ accounts \in [Users -> {"none", "enabled", "disabled"}]
    BY DEF Init, Absent
  <2>3. realm \in [client : {"absent", "enabled", "disabled"}, defects : SUBSET Defects]
    <3>1. "no group" \in Defects
      BY DEF Defects, Mended
    <3>2. /\ [client |-> "enabled", defects |-> {}] \in
                [client : {"absent", "enabled", "disabled"}, defects : SUBSET Defects]
          /\ [client |-> "absent", defects |-> {"no group"}] \in
                [client : {"absent", "enabled", "disabled"}, defects : SUBSET Defects]
      BY <3>1
    <3>3. realm = [client |-> "enabled", defects |-> {}] \/ realm = [client |-> "absent", defects |-> {"no group"}]
      BY DEF Init
    <3> QED
      BY <3>2, <3>3, Zenon
  <2>4. history \in Seq([profile : Profiles, version : Nat, kind : {"create", "update", "delete"}])
    BY EmptySeq, Zenon DEF Init
  <2>5. budget \in [accounts : Nat, grants : Nat, reconciles : Nat, drifts : Nat, faults : Nat,
                    kinds : SUBSET {"refused", "lost", "crash"}]
    BY BudgetsAssumption DEF Init
  <2> QED
    BY <2>1, <2>2, <2>3, <2>4, <2>5 DEF Init, TypeInv
<1>2. LockInv
  BY DEF Init, LockInv
<1>3. RealmInv
  BY DEF Init, RealmInv, EnabledIsRepaired, Idle, Actors
<1>4. AccountInv
  <2>1. \A w \in Actors : jobs[w] = Idle
    BY DEF Init
  <2>2. \A w \in Actors : \A u : ~Making(w, u)
    BY <2>1, IdleIs DEF Making
  <2>3. \A u \in Users : accounts[u] # "none" <=> users[u].by = "keycloak"
    BY DEF Init, Absent
  <2>4. \A u \in Users : Answered(u)
    BY <2>2, <2>3, Zenon DEF Answered
  <2> QED
    BY <2>1, <2>4, IdleIs DEF AccountInv
<1>5. HistoryInv
  BY DEF Init, HistoryInv
<1> QED
  BY <1>1, <1>2, <1>3, <1>4, <1>5 DEF Inv

LEMMA InvNext == Inv /\ [Next]_vars => Inv'
BY TypeStep, LockStep, RealmStep, AccountStep, HistoryStep DEF Inv

LEMMA InvHolds == Spec => []Inv
BY InvInit, InvNext, PTL DEF Spec

\* Once disable_user has returned, no token lets the user in, whoever else works
\* on accounts and whatever was refused, lost or cut off.
THEOREM DisabledStaysOut == Spec => []LockedOut
<1>1. Inv => LockedOut
  BY DEF Inv, LockInv, LockedOut, Admitted
<1> QED
  BY <1>1, InvHolds, PTL

\* Whichever step a reconcile stops at, it leaves the provisioning client off or
\* the realm around it repaired, unless someone changes the realm meanwhile.
THEOREM ReconcileFailsClosed == Spec => []EnabledIsRepaired
<1>1. Inv => EnabledIsRepaired
  BY DEF Inv, RealmInv
<1> QED
  BY <1>1, InvHolds, PTL

\* A user's account and row come together, however many creations of the same
\* user raced and whatever was refused.
THEOREM AccountsMatchRows == Spec => []CreationIsWhole
<1>1. Inv => CreationIsWhole
  <2> SUFFICES ASSUME Inv, Quiet, happened \subseteq {"refused"}, NEW u \in Users
               PROVE  accounts[u] # "none" <=> users[u].by = "keycloak"
    BY DEF CreationIsWhole
  <2>1. \A w \in Actors : ~Making(w, u)
    BY DEF Quiet, Resting, Making
  <2> QED
    BY <2>1 DEF Inv, AccountInv, Answered
<1> QED
  BY <1>1, InvHolds, PTL

\* Every definition in force has a row in the history by which somebody put it
\* in force, through any race and any fault but the one that keeps the writer of
\* that very definition from its row.
THEOREM DefinitionsAreAudited == Spec => []InForceIsRecorded
<1>1. Inv => InForceIsRecorded
  <2> SUFFICES ASSUME Inv, Quiet, NEW p \in Profiles, profiles[p] \notin {0} \cup unwritten
               PROVE  Recorded(p)
    BY DEF InForceIsRecorded, Recorded
  <2>1. \A w \in Actors : ~Recording(w, p)
    BY DEF Quiet, Resting, Recording
  <2> QED
    BY <2>1 DEF Inv, HistoryInv
<1> QED
  BY <1>1, InvHolds, PTL
=============================================================================
