--------------------------- MODULE ArtifactStore ---------------------------
(***************************************************************************)
(* artifacts/registry.py, uploads.py and the upload route: one owner's     *)
(* files.  Postgres holds the rows and is transactional; the directory     *)
(* that holds the bytes is not.  The workers of several processes and the  *)
(* cleaner share both, under the owner's transaction-scoped lock.          *)
(*                                                                         *)
(* A blob is the name of its path; every path is generated once.  Sizes    *)
(* are one file each.                                                      *)
(***************************************************************************)
EXTENDS Integers, FiniteSets

CONSTANTS
    MaxBlobs,      \* bound: file ids and paths of versions generated
    Uploads,       \* upload ids, also the paths of staged bytes
    Partial(_),    \* the path of an upload that is being received
    Workers,       \* threads that serve tool calls
    None,
    Quota,         \* _MAX_QUOTA_BYTES, in files
    MaxUncertain   \* bound: commits that succeed and whose caller sees them fail

\* A file's id is the path of its first version.
Blobs == 1 .. MaxBlobs
Paths == Blobs \union Uploads \union {Partial(u) : u \in Uploads}

ASSUME PathsAssumption ==
    /\ Blobs \intersect Uploads = {}
    /\ \A u \in Uploads : Partial(u) \notin Blobs \union Uploads
    /\ None \notin Workers \union Paths
ASSUME UploadsAssumption == IsFiniteSet(Uploads)
ASSUME BoundsAssumption == {MaxBlobs, Quota, MaxUncertain} \subseteq Nat

VARIABLES
    file,      \* [Blobs -> "none", "live" or "dead" (deleted or expired)]
    path,      \* [Blobs -> storage_path]
    gc,        \* artifact_blob_gc
    upload,    \* [Uploads -> state, "none": no row]
    result,    \* [Uploads -> file_id]
    expired,   \* reservations whose time is up
    lock,      \* the worker in a transaction under the owner's lock
    disk,      \* the paths that exist
    sweep,     \* what reconcile_orphans has found and has yet to unlink
    minted,    \* how many of Blobs have been generated
    put,       \* [Uploads -> where the PUT that receives the bytes is]
    work,      \* [Workers -> what each is doing]
    uncertain  \* the paths of versions so committed

rows == <<file, path, gc, upload, result>>
vars == <<rows, expired, lock, disk, sweep, minted, put, work, uncertain>>

-----------------------------------------------------------------------------
(* Helpers *)

Rest == [at |-> "idle", file |-> None, upload |-> None, path |-> None, base |-> None]

Labels == {"idle", "staged", "creating", "created", "unstage",
           "editing", "updating", "updated", "undo"}
Calls == [at : Labels, file : Blobs \union {None}, upload : Uploads \union {None},
          path : Blobs \union {None}, base : Blobs \union {None}]

Goto(w, l) == work' = [work EXCEPT ![w].at = l]
Leave(w) == work' = [work EXCEPT ![w] = Rest]

Reserved(u) == upload[u] \in {"pending", "receiving", "uploaded"}

\* Mutant of Used: retired versions are not counted.
UsedByRows(except) ==
    Cardinality({f \in Blobs : file[f] # "none"})
      + Cardinality({u \in Uploads \ {except} : Reserved(u)})

\* quota_used
Used(except) ==
    Cardinality({f \in Blobs : file[f] # "none"}) + Cardinality(gc)
      + Cardinality({u \in Uploads \ {except} : Reserved(u)})

Init ==
    /\ file = [f \in Blobs |-> "none"]
    /\ path = [f \in Blobs |-> f]
    /\ gc = {}
    /\ upload = [u \in Uploads |-> "none"]
    /\ result = [u \in Uploads |-> None]
    /\ expired = {} /\ lock = None
    /\ disk = {} /\ sweep = {} /\ minted = 0
    /\ put = [u \in Uploads |-> "none"]
    /\ work = [w \in Workers |-> Rest]
    /\ uncertain = {}

-----------------------------------------------------------------------------
(* Reservation and reception of an upload *)

BeginUpload(u) ==
    /\ upload[u] = "none" /\ u \notin expired
    /\ lock = None
    /\ Used(None) + 1 <= Quota
    /\ upload' = [upload EXCEPT ![u] = "pending"]
    /\ UNCHANGED <<file, path, gc, result, expired, lock, disk, sweep, minted, put, work, uncertain>>

\* The PUT claims the reservation and opens its temporary file.
PutStart(u) ==
    /\ upload[u] = "pending" /\ u \notin expired
    /\ upload' = [upload EXCEPT ![u] = "receiving"]
    /\ put' = [put EXCEPT ![u] = "receiving"]
    /\ disk' = disk \union {Partial(u)}
    /\ UNCHANGED <<file, path, gc, result, expired, lock, sweep, minted, work, uncertain>>

\* All bytes are there: os.replace.
PutReplace(u) ==
    /\ put[u] = "receiving" /\ Partial(u) \in disk
    /\ put' = [put EXCEPT ![u] = "finalizing"]
    /\ disk' = (disk \ {Partial(u)}) \union {u}
    /\ UNCHANGED <<rows, expired, lock, sweep, minted, work, uncertain>>

\* The transfer fails, is too long or too short, times out or is cancelled,
\* or the temporary file is gone: both paths are unlinked, or cannot be ...
PutFails(u) ==
    /\ put[u] = "receiving"
    /\ put' = [put EXCEPT ![u] = "failed"]
    /\ disk' = disk \ {u, Partial(u)} \/ UNCHANGED disk
    /\ UNCHANGED <<rows, expired, lock, sweep, minted, work, uncertain>>

\* ... and then the reservation is open for another attempt.
PutReopen(u) ==
    /\ put[u] = "failed"
    /\ put' = [put EXCEPT ![u] = "none"]
    /\ upload' = [upload EXCEPT ![u] = IF @ = "receiving" THEN "pending" ELSE @]
    /\ UNCHANGED <<file, path, gc, result, expired, lock, disk, sweep, minted, work, uncertain>>

\* The reservation is marked; the handler may not hear of it (its task is
\* cancelled, the connection is lost).
PutMark(u) ==
    /\ put[u] = "finalizing"
    /\ \E answer \in {"none", "unsure"} : put' = [put EXCEPT ![u] = answer]
    /\ upload' = [upload EXCEPT ![u] = IF @ = "receiving" /\ u \notin expired THEN "uploaded" ELSE @]
    /\ UNCHANGED <<file, path, gc, result, expired, lock, disk, sweep, minted, work, uncertain>>

\* Past the replace an error changes nothing.
PutAbandon(u) ==
    /\ put[u] \in {"finalizing", "unsure"}
    /\ put' = [put EXCEPT ![u] = "none"]
    /\ UNCHANGED <<rows, expired, lock, disk, sweep, minted, work, uncertain>>

-----------------------------------------------------------------------------
(* complete_upload and create_file *)

\* get_upload finds the bytes received, and they are read; without them the
\* call ends as it began.
BeginComplete(w) ==
    /\ work[w].at = "idle"
    /\ \E u \in Uploads \intersect disk :
          /\ upload[u] = "uploaded" /\ u \notin expired
          /\ work' = [work EXCEPT ![w].at = "staged", ![w].upload = u]
    /\ UNCHANGED <<rows, expired, lock, disk, sweep, minted, put, uncertain>>

\* An export or an import: create_file without an upload.
BeginCreate(w) ==
    /\ work[w].at = "idle"
    /\ Goto(w, "staged")
    /\ UNCHANGED <<rows, expired, lock, disk, sweep, minted, put, uncertain>>

\* What the row of the upload, read under the lock, must say.
Registers(u) == upload[u] = "uploaded" /\ u \notin expired

\* The transaction begins, its checks pass.
EnterCreate(w) ==
    /\ work[w].at = "staged" /\ lock = None
    /\ work[w].upload # None => Registers(work[w].upload)
    /\ Used(work[w].upload) + 1 <= Quota
    /\ minted < MaxBlobs /\ minted' = minted + 1
    /\ work' = [work EXCEPT ![w].at = "creating", ![w].file = minted', ![w].path = minted']
    /\ lock' = w
    /\ UNCHANGED <<rows, expired, disk, sweep, put, uncertain>>

\* They do not: the call ends, with the file another completion has
\* registered (then the staged bytes go) or with an error.
RefuseCreate(w) ==
    /\ work[w].at = "staged" /\ lock = None
    /\ LET u == work[w].upload IN
       \/ u # None /\ ~Registers(u)
            /\ IF upload[u] = "complete" /\ u \notin expired /\ result[u] # None
                    /\ file[result[u]] = "live"
               THEN Goto(w, "unstage") ELSE Leave(w)
       \/ (u # None => Registers(u)) /\ Used(u) + 1 > Quota /\ Leave(w)
    /\ UNCHANGED <<rows, expired, lock, disk, sweep, minted, put, uncertain>>

Write(w) ==
    /\ work[w].at \in {"creating", "updating"}
    /\ disk' = disk \union {work[w].path}
    /\ Goto(w, IF work[w].at = "creating" THEN "created" ELSE "updated")
    /\ UNCHANGED <<rows, expired, lock, sweep, minted, put, uncertain>>

\* _write_atomic raises, before the replace or after it (the fsync of the
\* directory): written is False, nothing is cleaned up.
WriteFails(w) ==
    /\ work[w].at \in {"creating", "updating"}
    /\ disk' = disk \union {work[w].path} \/ UNCHANGED disk
    /\ lock' = None
    /\ Leave(w)
    /\ UNCHANGED <<rows, expired, sweep, minted, put, uncertain>>

\* The rows of a new file.
InsertFile(f, u) ==
    /\ file' = [file EXCEPT ![f] = "live"]
    /\ path' = [path EXCEPT ![f] = f]
    /\ upload' = IF u = None THEN upload ELSE [upload EXCEPT ![u] = "complete"]
    /\ result' = IF u = None THEN result ELSE [result EXCEPT ![u] = f]
    /\ UNCHANGED gc

CommitCreate(w) ==
    /\ work[w].at = "created"
    /\ InsertFile(work[w].file, work[w].upload)
    /\ lock' = None
    /\ IF work[w].upload = None THEN Leave(w) ELSE Goto(w, "unstage")
    /\ UNCHANGED <<expired, disk, sweep, minted, put, uncertain>>

\* complete_upload unlinks what it has registered, or fails to.
Unstage(w) ==
    /\ work[w].at = "unstage"
    /\ disk' = disk \ {work[w].upload} \/ UNCHANGED disk
    /\ Leave(w)
    /\ UNCHANGED <<rows, expired, lock, sweep, minted, put, uncertain>>

-----------------------------------------------------------------------------
(* update_file_blob *)

\* materialize_for_update: the row and its bytes are read.
OpenFile(w) ==
    /\ work[w].at = "idle"
    /\ \E f \in Blobs :
          /\ file[f] = "live" /\ path[f] \in disk
          /\ work' = [work EXCEPT ![w].at = "editing", ![w].file = f, ![w].base = path[f]]
    /\ UNCHANGED <<rows, expired, lock, disk, sweep, minted, put, uncertain>>

\* The file is still there and its bytes are those that were read.
Unchanged(f, base) == file[f] = "live" /\ path[f] = base

\* The quota discounts the version that is replaced.
EnterUpdate(w) ==
    /\ work[w].at = "editing" /\ lock = None
    /\ Unchanged(work[w].file, work[w].base)
    /\ Used(None) - 1 + 1 <= Quota
    /\ minted < MaxBlobs /\ minted' = minted + 1
    /\ work' = [work EXCEPT ![w].at = "updating", ![w].path = minted']
    /\ lock' = w
    /\ UNCHANGED <<rows, expired, disk, sweep, put, uncertain>>

RefuseUpdate(w) ==
    /\ work[w].at = "editing" /\ lock = None
    /\ ~Unchanged(work[w].file, work[w].base) \/ Used(None) - 1 + 1 > Quota
    /\ Leave(w)
    /\ UNCHANGED <<rows, expired, lock, disk, sweep, minted, put, uncertain>>

\* The row names the new version, the replaced one is put on the list.
ReplaceFile(f, p) ==
    /\ gc' = gc \union {path[f]}
    /\ path' = [path EXCEPT ![f] = p]
    /\ UNCHANGED <<file, upload, result>>

\* The collection that follows is Collect's, whose failures it swallows.
CommitUpdate(w) ==
    /\ work[w].at = "updated"
    /\ ReplaceFile(work[w].file, work[w].path)
    /\ lock' = None
    /\ Leave(w)
    /\ UNCHANGED <<expired, disk, sweep, minted, put, uncertain>>

-----------------------------------------------------------------------------
(* A commit fails *)

\* Rolled back: the caller has to unlink what it wrote.
CommitFails(w) ==
    /\ work[w].at \in {"created", "updated"}
    /\ lock' = None
    /\ Goto(w, "undo")
    /\ UNCHANGED <<rows, expired, disk, sweep, minted, put, uncertain>>

\* The connection is lost after the server has committed: the caller sees
\* the same exception.
CommitUncertain(w) ==
    /\ Cardinality(uncertain) < MaxUncertain
    /\ uncertain' = uncertain \union {work[w].path}
    /\ \/ work[w].at = "created" /\ InsertFile(work[w].file, work[w].upload)
       \/ work[w].at = "updated" /\ ReplaceFile(work[w].file, work[w].path)
    /\ lock' = None
    /\ Goto(w, "undo")
    /\ UNCHANGED <<expired, disk, sweep, minted, put>>

Undo(w) ==
    /\ work[w].at = "undo"
    /\ disk' = disk \ {work[w].path} \/ UNCHANGED disk
    /\ Leave(w)
    /\ UNCHANGED <<rows, expired, lock, sweep, minted, put, uncertain>>

-----------------------------------------------------------------------------
(* Deletion, expiry, cleanup *)

\* soft_delete, or expires_at passes.
Retire(f) ==
    /\ file[f] = "live"
    /\ file' = [file EXCEPT ![f] = "dead"]
    /\ UNCHANGED <<path, gc, upload, result, expired, lock, disk, sweep, minted, put, work, uncertain>>

Expire(u) ==
    /\ upload[u] # "none" /\ u \notin expired
    /\ expired' = expired \union {u}
    /\ UNCHANGED <<rows, lock, disk, sweep, minted, put, work, uncertain>>

\* The cleanup transactions recheck each row under the lock, so that it does
\* not matter what was listed before, by which process or in which order.

\* _collect_retired, of an update or of gc_expired: the bytes of a retired
\* version and its row ...
Collect(p) ==
    /\ p \in gc /\ lock = None
    /\ disk' = disk \ {p}
    /\ gc' = gc \ {p}
    /\ UNCHANGED <<file, path, upload, result, expired, lock, sweep, minted, put, work, uncertain>>

\* ... of a dead file (uploads lose their reference to it) ...
PurgeFile(f) ==
    /\ file[f] = "dead" /\ lock = None
    /\ disk' = disk \ {path[f]}
    /\ file' = [file EXCEPT ![f] = "none"]
    /\ result' = [u \in Uploads |-> IF result[u] = f THEN None ELSE result[u]]
    /\ UNCHANGED <<path, gc, upload, expired, lock, sweep, minted, put, work, uncertain>>

\* ... and of an expired reservation; a PUT that is at work on it may replace
\* the one path by the other between the two unlinks.
PurgeUpload(u) ==
    /\ u \in expired /\ upload[u] # "none" /\ lock = None
    /\ \/ disk' = disk \ {u, Partial(u)} /\ UNCHANGED put
       \/ /\ put[u] = "receiving" /\ Partial(u) \in disk
          /\ disk' = (disk \ {Partial(u)}) \union {u}
          /\ put' = [put EXCEPT ![u] = "finalizing"]
    /\ upload' = [upload EXCEPT ![u] = "none"]
    /\ UNCHANGED <<file, path, gc, result, expired, lock, sweep, minted, work, uncertain>>

\* The commit of one of them fails: the bytes are gone, the row is not.  (An
\* unlink that fails changes nothing.)
PurgeFails ==
    /\ lock = None
    /\ \/ \E p \in gc : disk' = disk \ {p}
       \/ \E f \in Blobs : file[f] = "dead" /\ disk' = disk \ {path[f]}
       \/ \E u \in expired : upload[u] # "none" /\ disk' = disk \ {u, Partial(u)}
    /\ UNCHANGED <<rows, expired, lock, sweep, minted, put, work, uncertain>>

\* Every path a row names, in one query.
Named == {path[f] : f \in {g \in Blobs : file[g] # "none"}} \union gc
         \union UNION {{u, Partial(u)} : u \in {x \in Uploads : upload[x] # "none"}}

\* Mutant of Orphans: age is not looked at.
OrphansOfAnyAge == Paths \ Named

\* Mutant of Orphans: only the directory of the blobs is gone through.
OrphansInBlobs == {p \in (disk \intersect Blobs) \ Named : \A w \in Workers : work[w].path # p}

\* Paths no row names and nobody has written for an hour: a transaction and a
\* sweep together take less, so they were there when the rows were read, and
\* no transaction under way has written them.
Orphans == {p \in disk \ Named : \A w \in Workers : work[w].path # p}

\* reconcile_orphans reads the rows, then goes through the directories.
Reconcile ==
    /\ sweep = {} /\ Orphans # {}
    /\ sweep' = Orphans
    /\ UNCHANGED <<rows, expired, lock, disk, minted, put, work, uncertain>>

Sweep ==
    /\ \E p \in sweep :
          /\ sweep' = sweep \ {p}
          /\ disk' = disk \ {p}
    /\ UNCHANGED <<rows, expired, lock, minted, put, work, uncertain>>

\* A worker's process dies, in a transaction perhaps, which is rolled back.
Crash(w) ==
    /\ work[w].at # "idle"
    /\ Leave(w)
    /\ lock' = IF lock = w THEN None ELSE lock
    /\ UNCHANGED <<rows, expired, disk, sweep, minted, put, uncertain>>

\* A PUT dies with its process.
PutDies(u) ==
    /\ put[u] # "none"
    /\ put' = [put EXCEPT ![u] = "none"]
    /\ UNCHANGED <<rows, expired, lock, disk, sweep, minted, work, uncertain>>

-----------------------------------------------------------------------------
(* Specification *)

Call(w) ==
    \/ EnterCreate(w) \/ RefuseCreate(w)
    \/ Write(w) \/ WriteFails(w) \/ CommitCreate(w) \/ Unstage(w)
    \/ EnterUpdate(w) \/ RefuseUpdate(w) \/ CommitUpdate(w)
    \/ CommitFails(w) \/ CommitUncertain(w) \/ Undo(w)

Receive(u) ==
    PutReplace(u) \/ PutFails(u) \/ PutReopen(u) \/ PutMark(u) \/ PutAbandon(u)

Clean ==
    \/ \E p \in Blobs : Collect(p)
    \/ \E f \in Blobs : PurgeFile(f)
    \/ \E u \in Uploads : PurgeUpload(u)
    \/ Reconcile \/ Sweep

Next ==
    \/ \E u \in Uploads :
          BeginUpload(u) \/ PutStart(u) \/ Receive(u) \/ PutDies(u) \/ Expire(u)
    \/ \E w \in Workers :
          BeginComplete(w) \/ BeginCreate(w) \/ OpenFile(w) \/ Call(w) \/ Crash(w)
    \/ \E f \in Blobs : Retire(f)
    \/ Clean
    \/ PurgeFails

Spec == Init /\ [][Next]_vars

\* A call and a transfer that have begun go on and end, unless their process
\* dies; reservations expire; the cleanup task comes back every minute, and
\* what fails once does not fail for ever.
Fairness ==
    /\ \A w \in Workers : WF_vars(Call(w))
    /\ \A u \in Uploads : WF_vars(Receive(u)) /\ WF_vars(Expire(u))
    /\ WF_vars(Clean)

FairSpec == Spec /\ Fairness

-----------------------------------------------------------------------------
(* Properties *)

TypeOK ==
    /\ file \in [Blobs -> {"none", "live", "dead"}]
    /\ path \in [Blobs -> Blobs]
    /\ gc \subseteq Blobs
    /\ upload \in [Uploads -> {"none", "pending", "receiving", "uploaded", "complete"}]
    /\ result \in [Uploads -> Blobs \union {None}]
    /\ expired \subseteq Uploads
    /\ lock \in Workers \union {None}
    /\ disk \subseteq Paths /\ sweep \subseteq Paths
    /\ minted \in 0 .. MaxBlobs
    /\ put \in [Uploads -> {"none", "receiving", "finalizing", "failed", "unsure"}]
    /\ work \in [Workers -> Calls]
    /\ uncertain \subseteq Blobs

\* registry.py: reconcile_orphans works without racing recent writes.  The bytes
\* a live row names are there, whatever fails, dies or cleans up, when the commit
\* that named them did not seem to fail.
RowsHaveBytes == \A f \in Blobs : file[f] = "live" => path[f] \in disk \union uncertain

\* routes.py: do not delete its bytes while the SQL outcome is uncertain;
\* complete can consume them.
UploadedHasBytes ==
    \A u \in Uploads : upload[u] = "uploaded" /\ u \notin expired => u \in disk

\* docs/reference/files-and-hosts.md: retries within the reservation lifetime
\* return the same file_id.
OneFilePerUpload ==
    [][\A u \in Uploads : upload[u] = "complete" /\ upload'[u] = "complete"
          => result'[u] \in {result[u], None}]_vars

\* An update replaces the bytes its caller read, and no others.
NoLostUpdate ==
    [][\A f \in Blobs : path'[f] # path[f] /\ file[f] # "none" =>
          \E w \in Workers : work[w].file = f /\ work[w].path = path'[f]
                               /\ work[w].base = path[f]]_vars

\* What is on disk on behalf of a row, and what is reserved, exceeds the quota
\* by at most the one file that an update replaces.
QuotaKept ==
    Cardinality(disk \intersect ({path[f] : f \in {g \in Blobs : file[g] # "none"}} \union gc))
      + Cardinality({u \in Uploads : Reserved(u)}) <= Quota + 1

\* What nothing alive needs goes away in the end: the bytes of dead files,
\* replaced versions and closed reservations, and what crashes and failures
\* have left behind.  (Ids are bounded, so there is a time after the last.)
Needed(p) == \/ \E f \in Blobs : file[f] = "live" /\ path[f] = p
             \/ \E u \in Uploads \ expired : upload[u] # "none" /\ p \in {u, Partial(u)}

BytesAreReclaimed == []<>(\A p \in disk : Needed(p))
=============================================================================
