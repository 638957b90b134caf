------------------------------- MODULE Accounts -------------------------------
(***************************************************************************)
(* Administration of who may use the system: platform users, their         *)
(* Keycloak accounts and their profiles (admin_ops.py over Postgres and    *)
(* keycloak_admin.py), and the client those accounts are provisioned with, *)
(* which a deployment reconciles (keycloak_operator.py).                   *)
(*                                                                         *)
(* Each statement commits on its own and each request to Keycloak stands   *)
(* alone, so an operation is a sequence of steps that other operators'     *)
(* operations come between.  A step may be refused, may be done with its   *)
(* answer lost, and the process may die before it.                         *)
(***************************************************************************)
EXTENDS Integers, Sequences, FiniteSets, Functions, SequencesExt, TLC

CONSTANTS
    Operators,   \* whoever runs the administration commands
    Users,       \* platform users, the same name in Keycloak
    Profiles,
    Legacy,      \* users with a row and an account from before enrolment
    Budgets      \* of each behaviour: [accounts, grants, reconciles, drifts, faults, kinds]

ASSUME LegacyAssumption == Legacy \subseteq Users
ASSUME BudgetsAssumption ==
    Budgets \subseteq [accounts : Nat, grants : Nat, reconciles : Nat, drifts : Nat, faults : Nat,
                      kinds : SUBSET {"refused", "lost", "crash"}]

VARIABLES
    users,       \* user -> its row: [state, by]
    accounts,    \* user -> "none", "enabled" or "disabled" in Keycloak
    members,     \* the accounts in the application group
    sessions,    \* users who hold a token
    profiles,    \* profile -> its version, 0 when there is none
    assigned,    \* user -> its profile, or ""
    history,     \* rows of profile_audit
    unwritten,   \* the versions whose row of it no operation is left to write
    realm,       \* the provisioning client and what is wrong around it
    touched,     \* whether the realm was changed since a reconcile put the client off
    jobs,        \* operator -> the operation under way, or Idle
    lockedOut,   \* users a disabling has ended for, the database having refused it nothing
    budget,      \* what is left of the budget
    happened     \* the kinds of fault that happened
vars == <<users, accounts, members, sessions, profiles, assigned, history, unwritten, realm, touched,
          jobs, lockedOut, budget, happened>>
directory == <<users, lockedOut>>
keycloak == <<accounts, members, sessions>>
grants == <<profiles, assigned, history, unwritten>>
provisioning == <<realm, touched>>

Deployer == "deployer"
Actors == Operators \cup {Deployer}
Idle == [op |-> "idle", pc |-> ""]
NoProfile == "none"
Absent == [state |-> "absent", by |-> ""]
Resting(w) == jobs[w].op = "idle"
Quiet == \A w \in Actors : Resting(w)

-----------------------------------------------------------------------------
\* The realm, told by its defects.

Refused == {"foreign policy", "group tree", "default grants", "admin member", "composite query"}
Mended == {"permissions off", "no group", "client settings", "scopes", "mappers", "no mapper",
           "account groups", "account roles", "no query role", "no policy", "no permission"}
Blocking == {"permissions off", "no group", "client settings", "no query role", "no policy", "no permission"}

\* The provisioning client's token is good, and good for the group's accounts.
Authorised == realm.client = "enabled" /\ realm.defects \cap Blocking = {}

Check(defects) == [act |-> "check", refuses |-> defects, mends |-> {}, breaks |-> {}]
Mend(defects, broken) == [act |-> "mend", refuses |-> {}, mends |-> defects, breaks |-> broken]
Client(act) == [act |-> act, refuses |-> {}, mends |-> {}, breaks |-> {}]

\* Mutant: the client stays enabled while it is looked at.
StepsInService ==
    <<Mend({"permissions off"}, {}),
      Check({"foreign policy"}),
      Client("group"),
      Check({"group tree", "no group"}), Check({"default grants"}), Check({"admin member"}),
      Client("settings"), Mend({"scopes"}, {}), Mend({"mappers"}, {"no mapper"}),
      Mend({"no mapper"}, {}), Mend({"account groups"}, {}),
      Mend({"account roles"}, {"no query role"}), Check({"composite query"}),
      Mend({"no query role"}, {}), Check({"foreign policy"}),
      Mend({"no policy"}, {}), Mend({"no permission"}, {}),
      Client("enable")>>

\* reconcile_provisioner: disabled first, enabled last.
Steps ==
    <<Client("disable"),
      Mend({"permissions off"}, {}),
      Check({"foreign policy"}),
      Client("group"),
      Check({"group tree", "no group"}), Check({"default grants"}), Check({"admin member"}),
      Client("settings"), Mend({"scopes"}, {}), Mend({"mappers"}, {"no mapper"}),
      Mend({"no mapper"}, {}), Mend({"account groups"}, {}),
      Mend({"account roles"}, {"no query role"}), Check({"composite query"}),
      Mend({"no query role"}, {}), Check({"foreign policy"}),
      Mend({"no policy"}, {}), Mend({"no permission"}, {}),
      Client("enable")>>

\* What a step that goes through leaves; a new group or client has none of what
\* hung on the old one.
After(s, r) ==
    LET fresh == (IF s.act = "group" /\ "no group" \in r.defects THEN {"no permission"} ELSE {})
                   \cup (IF s.act = "settings" /\ r.client = "absent"
                         THEN {"scopes", "no mapper", "no query role", "no policy"} ELSE {})
        gone == s.mends \cup (CASE s.act = "group" -> {"no group"}
                                [] s.act = "settings" -> {"client settings"}
                                [] OTHER -> {})
    IN [client |-> CASE s.act = "disable" -> IF r.client = "absent" THEN "absent" ELSE "disabled"
                     [] s.act = "settings" -> "disabled"
                     [] s.act = "enable" -> "enabled"
                     [] OTHER -> r.client,
        defects |-> (r.defects \ gone) \cup s.breaks \cup fresh]

-----------------------------------------------------------------------------
Init ==
    /\ users = [u \in Users |-> IF u \in Legacy THEN [state |-> "active", by |-> "keycloak"] ELSE Absent]
    /\ accounts = [u \in Users |-> IF u \in Legacy THEN "enabled" ELSE "none"]
    /\ members = {} /\ sessions = {}
    /\ profiles = [p \in Profiles |-> 0] /\ assigned = [u \in Users |-> NoProfile]
    /\ history = <<>> /\ unwritten = {}
    /\ realm \in {[client |-> "enabled", defects |-> {}], [client |-> "absent", defects |-> {"no group"}]}
    /\ touched = TRUE
    /\ jobs = [w \in Actors |-> Idle] /\ lockedOut = {}
    /\ budget \in Budgets /\ happened = {}

\* An operation begins, or is turned down by what it reads first.
Call(w, part, job) ==
    /\ w \in Operators /\ Resting(w) /\ budget[part] > 0
    /\ budget' = [budget EXCEPT ![part] = @ - 1]
    /\ jobs' = [jobs EXCEPT ![w] = job]
    /\ UNCHANGED <<directory, keycloak, grants, provisioning, happened>>

At(w, op, pc) == jobs[w].op = op /\ jobs[w].pc = pc
Goto(w, pc) == jobs' = [jobs EXCEPT ![w].pc = pc]
Leave(w) == jobs' = [jobs EXCEPT ![w] = Idle]

\* A step goes through, is refused, or goes through with its answer lost.
Charge(kind) ==
    /\ budget.faults > 0 /\ kind \in budget.kinds
    /\ budget' = [budget EXCEPT !.faults = @ - 1]
Spend(kind) == Charge(kind) /\ happened' = happened \cup {kind}
Outcome(kind) == IF kind = "done" THEN UNCHANGED <<budget, happened>> ELSE Spend(kind)
Outcomes == {"done", "refused", "lost"}

\* The version an operation has written and not yet recorded.
Unwritten(w) ==
    IF jobs[w].op \in {"define", "redefine"} /\ jobs[w].pc \in {"create", "update"}
    THEN {jobs[w].version} ELSE {}

\* The process dies; nothing of its operation is undone.
Crash(w) ==
    /\ ~Resting(w) /\ Spend("crash") /\ Leave(w)
    /\ unwritten' = unwritten \cup Unwritten(w)
    /\ UNCHANGED <<directory, keycloak, profiles, assigned, history, provisioning>>

-----------------------------------------------------------------------------
\* Users.

\* create_user: turned down when the row exists; by is who keeps the password.
CreateUser(w, u, by) ==
    Call(w, "accounts", IF users[u] # Absent THEN Idle
            ELSE [op |-> "create", pc |-> IF by = "keycloak" THEN "account" ELSE "row",
                  user |-> u, by |-> by])

\* KeycloakAdmin.create_user: 409 when there is one; any error ends the operation.
CreateAccount(w, kind) ==
    LET u == jobs[w].user
        made == Authorised /\ accounts[u] = "none" /\ kind # "refused"
    IN /\ At(w, "create", "account") /\ Outcome(kind)
       /\ accounts' = IF made THEN [accounts EXCEPT ![u] = "enabled"] ELSE accounts
       /\ members' = IF made THEN members \cup {u} ELSE members
       /\ IF made /\ kind = "done" THEN Goto(w, "row") ELSE Leave(w)
       /\ UNCHANGED <<directory, sessions, grants, provisioning>>

\* Mutant: only a refused insert takes the account back.
KeepOnConflict(w) == IF users[jobs[w].user] = Absent /\ jobs[w].by = "keycloak" THEN Goto(w, "undo") ELSE Leave(w)

\* create_user's except: an account of this operation is taken back.
InsertFailed(w) == IF jobs[w].by = "keycloak" THEN Goto(w, "undo") ELSE Leave(w)

InsertUser(w, kind) ==
    LET u == jobs[w].user
        made == users[u] = Absent /\ kind # "refused"
    IN /\ At(w, "create", "row") /\ Outcome(kind)
       /\ users' = IF made THEN [users EXCEPT ![u] = [state |-> "active", by |-> jobs[w].by]] ELSE users
       /\ IF made /\ kind = "done" THEN Leave(w) ELSE InsertFailed(w)
       /\ UNCHANGED <<lockedOut, keycloak, grants, provisioning>>

\* KeycloakAdmin.delete_user: an error is logged; an account outside the group is
\* not seen at all.
UndoAccount(w, kind) ==
    LET u == jobs[w].user
        gone == Authorised /\ u \in members /\ kind # "refused"
    IN /\ At(w, "create", "undo")
       /\ IF kind = "done" THEN budget' = budget ELSE Charge(kind)
       /\ happened' = happened \cup (IF kind = "done" THEN {} ELSE {kind})
                               \cup (IF gone THEN {} ELSE {"not undone"})
       /\ accounts' = IF gone THEN [accounts EXCEPT ![u] = "none"] ELSE accounts
       /\ members' = IF gone THEN members \ {u} ELSE members
       /\ Leave(w)
       /\ UNCHANGED <<directory, sessions, grants, provisioning>>

\* disable_user.
DisableUser(w, u) ==
    Call(w, "accounts", IF users[u] = Absent THEN Idle ELSE [op |-> "disable", pc |-> "account", user |-> u])

\* Mutant: what Keycloak has disabled needs nothing more.
AfterAccount(w, done) == IF done THEN Leave(w) ELSE Goto(w, "row")

\* Mutant: an error of Keycloak ends the operation.
AfterSuccess(w, done) == IF done THEN Goto(w, "row") ELSE Leave(w)

\* KeycloakAdmin.set_enabled: an error is logged, and the row follows anyway.
AfterDisabling(w, done) == Goto(w, "row")

DisableAccount(w, kind) ==
    LET u == jobs[w].user
        done == Authorised /\ u \in members /\ accounts[u] # "none" /\ kind # "refused"
    IN /\ At(w, "disable", "account") /\ Outcome(kind)
       /\ accounts' = IF done THEN [accounts EXCEPT ![u] = "disabled"] ELSE accounts
       /\ AfterDisabling(w, done /\ kind = "done")
       /\ lockedOut' = IF jobs'[w] = Idle THEN lockedOut \cup {u} ELSE lockedOut
       /\ UNCHANGED <<users, members, sessions, grants, provisioning>>

DisableRow(w, kind) ==
    LET u == jobs[w].user
    IN /\ At(w, "disable", "row") /\ Outcome(kind)
       /\ users' = IF kind = "refused" THEN users ELSE [users EXCEPT ![u].state = "disabled"]
       /\ lockedOut' = IF kind = "done" THEN lockedOut \cup {u} ELSE lockedOut
       /\ Leave(w)
       /\ UNCHANGED <<keycloak, grants, provisioning>>

\* A person logs in at Keycloak; a token outlives the account it was issued for.
LogIn(u) ==
    /\ accounts[u] = "enabled" /\ u \notin sessions
    /\ sessions' = sessions \cup {u}
    /\ UNCHANGED <<directory, accounts, members, grants, provisioning, jobs, budget, happened>>

LogOut(u) ==
    /\ u \in sessions /\ sessions' = sessions \ {u}
    /\ UNCHANGED <<directory, accounts, members, grants, provisioning, jobs, budget, happened>>

\* load_permissions: a token is heard while the row is there and not disabled,
\* with the profile assigned at that moment.
Admitted(u) == u \in sessions /\ users[u].state = "active"

-----------------------------------------------------------------------------
\* Profiles: a version is told by the number of the call that wrote it.

Written(p, version, kind) == Append(history, [profile |-> p, version |-> version, kind |-> kind])
Fresh == budget.grants

\* create_profile
CreateProfile(w, p) ==
    Call(w, "grants", IF profiles[p] # 0 THEN Idle ELSE [op |-> "define", pc |-> "row", profile |-> p, version |-> Fresh])

\* The primary key refuses a second row.
InsertProfile(w, kind) ==
    LET p == jobs[w].profile
        made == profiles[p] = 0 /\ kind # "refused"
    IN /\ At(w, "define", "row") /\ Outcome(kind)
       /\ profiles' = IF made THEN [profiles EXCEPT ![p] = jobs[w].version] ELSE profiles
       /\ unwritten' = IF made /\ kind = "lost" THEN unwritten \cup {jobs[w].version} ELSE unwritten
       /\ IF made /\ kind = "done" THEN Goto(w, "create") ELSE Leave(w)
       /\ UNCHANGED <<directory, keycloak, assigned, history, provisioning>>

\* update_profile
UpdateProfile(w, p) ==
    Call(w, "grants", IF profiles[p] = 0 THEN Idle ELSE [op |-> "redefine", pc |-> "row", profile |-> p, version |-> Fresh])

\* An update of a row deleted meanwhile touches nothing and is recorded.
ReplaceProfile(w, kind) ==
    LET p == jobs[w].profile
    IN /\ At(w, "redefine", "row") /\ Outcome(kind)
       /\ profiles' = IF profiles[p] # 0 /\ kind # "refused" THEN [profiles EXCEPT ![p] = jobs[w].version]
                      ELSE profiles
       /\ unwritten' = IF kind = "lost" THEN unwritten \cup {jobs[w].version} ELSE unwritten
       /\ IF kind = "done" THEN Goto(w, "update") ELSE Leave(w)
       /\ UNCHANGED <<directory, keycloak, assigned, history, provisioning>>

\* Mutant: an update leaves no row.
UnrecordedUpdate(p, version, kind) == IF kind = "update" THEN history ELSE Written(p, version, kind)

\* The definition an operation read or wrote is what it records.
Entry(p, version, kind) == Written(p, version, kind)

\* The history row of a create or an update comes last, of a delete first.
Record(w, kind) ==
    LET job == jobs[w]
    IN /\ job.op \in {"define", "redefine", "remove"} /\ job.pc \in {"create", "update", "delete"}
       /\ Outcome(kind)
       /\ history' = IF kind = "refused" THEN history ELSE Entry(job.profile, job.version, job.pc)
       /\ unwritten' = IF kind = "refused" THEN unwritten \cup Unwritten(w) ELSE unwritten
       /\ IF job.pc = "delete" /\ kind = "done" THEN Goto(w, "row") ELSE Leave(w)
       /\ UNCHANGED <<directory, keycloak, profiles, assigned, provisioning>>

\* delete_profile: turned down while a user has the profile.
DeleteProfile(w, p) ==
    Call(w, "grants", IF profiles[p] = 0 \/ p \in Range(assigned) THEN Idle
            ELSE [op |-> "remove", pc |-> "delete", profile |-> p, version |-> profiles[p]])

\* The foreign key keeps a profile that was assigned meanwhile.
RemoveProfile(w, kind) ==
    LET p == jobs[w].profile
    IN /\ At(w, "remove", "row") /\ Outcome(kind)
       /\ profiles' = IF p \notin Range(assigned) /\ kind # "refused" THEN [profiles EXCEPT ![p] = 0] ELSE profiles
       /\ Leave(w)
       /\ UNCHANGED <<directory, keycloak, assigned, history, unwritten, provisioning>>

\* assign_profile: one profile per user, the later assignment replaces.
AssignProfile(w, u, p) ==
    Call(w, "grants", IF users[u] = Absent \/ profiles[p] = 0 THEN Idle
            ELSE [op |-> "assign", pc |-> "row", user |-> u, profile |-> p])

BindProfile(w, kind) ==
    LET job == jobs[w]
    IN /\ At(w, "assign", "row") /\ Outcome(kind)
       /\ assigned' = IF profiles[job.profile] # 0 /\ kind # "refused"
                      THEN [assigned EXCEPT ![job.user] = job.profile] ELSE assigned
       /\ Leave(w)
       /\ UNCHANGED <<directory, keycloak, profiles, history, unwritten, provisioning>>

\* revoke_profile: whatever profile the user has by then.
RevokeProfile(w, u) ==
    Call(w, "grants", IF users[u] = Absent \/ assigned[u] = NoProfile THEN Idle
            ELSE [op |-> "revoke", pc |-> "row", user |-> u])

UnbindProfile(w, kind) ==
    /\ At(w, "revoke", "row") /\ Outcome(kind)
    /\ assigned' = IF kind = "refused" THEN assigned ELSE [assigned EXCEPT ![jobs[w].user] = NoProfile]
    /\ Leave(w)
    /\ UNCHANGED <<directory, keycloak, profiles, history, unwritten, provisioning>>

-----------------------------------------------------------------------------
\* The provisioning client.

\* Someone changes the realm by hand; the client goes only between reconciles.
Drift(d) ==
    /\ budget.drifts > 0 /\ budget' = [budget EXCEPT !.drifts = @ - 1]
    /\ CASE d = "enable" -> realm.client = "disabled" /\ realm' = [realm EXCEPT !.client = "enabled"]
         [] d = "remove" -> realm.client # "absent" /\ Resting(Deployer) /\ realm' = [realm EXCEPT !.client = "absent"]
         [] OTHER -> d \notin realm.defects /\ realm' = [realm EXCEPT !.defects = @ \cup {d}]
    /\ members' = IF d = "no group" THEN {} ELSE members
    /\ touched' = TRUE
    /\ UNCHANGED <<directory, accounts, sessions, grants, jobs, happened>>

\* Someone settles by hand what a reconcile refuses.
Settle(d) ==
    /\ d \in realm.defects \cap Refused
    /\ realm' = [realm EXCEPT !.defects = @ \ {d}]
    /\ UNCHANGED <<directory, keycloak, grants, touched, jobs, budget, happened>>

\* reconcile_provisioner, the deployment's one-shot.
BeginReconcile ==
    /\ Resting(Deployer) /\ budget.reconciles > 0
    /\ budget' = [budget EXCEPT !.reconciles = @ - 1]
    /\ jobs' = [jobs EXCEPT ![Deployer] = [op |-> "reconcile", pc |-> 1]]
    /\ UNCHANGED <<directory, keycloak, grants, provisioning, happened>>

\* A refused check or a failed request leaves the rest undone.
ReconcileStep(kind) ==
    LET n == jobs[Deployer].pc
        s == Steps[n]
        passes == kind # "refused" /\ s.refuses \cap realm.defects = {}
    IN /\ jobs[Deployer].op = "reconcile" /\ Outcome(kind)
       /\ realm' = IF passes THEN After(s, realm) ELSE realm
       /\ IF passes /\ kind = "done" /\ n < Len(Steps) THEN Goto(Deployer, n + 1) ELSE Leave(Deployer)
       /\ touched' = IF n = 1 /\ passes THEN FALSE ELSE touched
       /\ UNCHANGED <<directory, keycloak, grants>>

\* enroll_application_user, for an account from before the group.
Enroll(u) ==
    /\ u \in Legacy \ members /\ accounts[u] # "none"
    /\ realm.defects \cap {"foreign policy", "no group", "group tree", "default grants"} = {}
    /\ members' = members \cup {u}
    /\ UNCHANGED <<directory, accounts, sessions, grants, provisioning, jobs, budget, happened>>

-----------------------------------------------------------------------------
OperatorSteps(w) ==
    \/ \E u \in Users : \/ CreateUser(w, u, "keycloak") \/ CreateUser(w, u, "external")
                        \/ DisableUser(w, u) \/ RevokeProfile(w, u)
                        \/ \E p \in Profiles : AssignProfile(w, u, p)
    \/ \E p \in Profiles : CreateProfile(w, p) \/ UpdateProfile(w, p) \/ DeleteProfile(w, p)
    \/ \E kind \in Outcomes :
          \/ CreateAccount(w, kind) \/ InsertUser(w, kind) \/ UndoAccount(w, kind)
          \/ DisableAccount(w, kind) \/ DisableRow(w, kind)
          \/ InsertProfile(w, kind) \/ ReplaceProfile(w, kind) \/ Record(w, kind) \/ RemoveProfile(w, kind)
          \/ BindProfile(w, kind) \/ UnbindProfile(w, kind)
Next ==
    \/ \E w \in Operators : OperatorSteps(w)
    \/ \E w \in Actors : Crash(w)
    \/ \E u \in Users : LogIn(u) \/ LogOut(u) \/ Enroll(u)
    \/ \E d \in Refused \cup Mended \cup {"enable", "remove"} : Drift(d)
    \/ \E d \in Refused : Settle(d)
    \/ BeginReconcile \/ \E kind \in Outcomes : ReconcileStep(kind)
Spec == Init /\ [][Next]_vars

-----------------------------------------------------------------------------
\* A user's account and row come together: no Keycloak account is left without
\* its row by an insert that failed or that another creation won, and no row waits
\* for an account that was taken back, unless an answer was lost, the process
\* died, or the account could not be taken back: Keycloak refused, which is logged,
\* or the account is not in the group any more, which is not (create_user and its
\* except branch, delete_user).
CreationIsWhole ==
    Quiet /\ happened \subseteq {"refused"} =>
        \A u \in Users : accounts[u] # "none" <=> users[u].by = "keycloak"

\* Once disable_user has ended, but for a database that refused its row or a
\* process that died, no token lets the user in: not one issued before, and not
\* one that a Keycloak which could not be reached, or would not have the client,
\* goes on issuing.
LockedOut == \A u \in lockedOut : ~Admitted(u)

\* The provisioning client is enabled only around a realm nothing is wrong with,
\* unless the realm was changed since a reconcile last put it off: whichever step
\* a reconcile stops at, it leaves the client off.
EnabledIsRepaired == realm.client = "enabled" /\ ~touched => realm.defects = {}

\* Every definition in force is one the history shows somebody put in force,
\* whatever creations, updates and deletions it raced with and whatever was
\* refused, lost or killed around it.  The one exception is the definition whose
\* own row was lost between two statements: the answer to its write never came,
\* its record was refused or its writer died before it (update_profile).
InForceIsRecorded ==
    Quiet =>
        \A p \in Profiles : profiles[p] \notin {0} \cup unwritten =>
            \E i \in DOMAIN history : /\ history[i].profile = p /\ history[i].version = profiles[p]
                                      /\ history[i].kind # "delete"

=============================================================================
