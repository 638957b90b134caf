------------------------- MODULE ArtifactStoreProofs -------------------------
(***************************************************************************)
(* What holds of one owner's files for any number of workers, uploads and  *)
(* versions, whatever fails, dies or cleans up: rows have their bytes, an  *)
(* upload is registered once, no update is lost, the quota holds.          *)
(***************************************************************************)
EXTENDS ArtifactStore, FiniteSetTheorems, TLAPS

-----------------------------------------------------------------------------
(* The inductive invariant *)

Creating == {"creating", "created"}
Updating == {"updating", "updated"}
Rows == {f \in Blobs : file[f] # "none"}

\* What has not been generated is nowhere.
MintInv ==
    /\ \A f \in Rows : f <= minted /\ path[f] <= minted
    /\ \A p \in gc \union ((disk \union sweep) \intersect Blobs) : p <= minted
    /\ \A w \in Workers : work[w].path # None => work[w].path <= minted

\* What a call knows while it is in a transaction, or past it.
WorkInv ==
    \A w \in Workers :
        /\ work[w].at \in Creating \union Updating => lock = w /\ work[w].path # None
        /\ work[w].at \in Creating =>
              /\ work[w].file = work[w].path
              /\ work[w].file \notin Rows
              /\ work[w].upload # None => upload[work[w].upload] = "uploaded"
        /\ work[w].at \in {"editing"} \union Updating => work[w].file # None
        /\ work[w].at \in Updating =>
              work[w].file \in Rows /\ path[work[w].file] = work[w].base
        /\ work[w].at = "unstage" =>
              /\ work[w].upload # None
              /\ upload[work[w].upload] = "complete" \/ work[w].upload \in expired
        /\ work[w].at = "undo" => work[w].path # None

\* A path belongs to one row, to the list of retired versions, to one call or
\* to the sweep.
PathInv ==
    /\ \A f \in Rows : path[f] \notin gc \union sweep
    /\ \A f, g \in Rows : path[f] = path[g] => f = g
    /\ \A w \in Workers : work[w].path # None =>
          /\ work[w].path \notin sweep
          /\ \A v \in Workers \ {w} : work[v].path # work[w].path
          /\ work[w].at \in Creating \union Updating =>
                work[w].path \notin gc /\ \A f \in Rows : path[f] # work[w].path
          /\ work[w].at = "undo" =>
                work[w].path \in uncertain \/ \A f \in Rows : path[f] # work[w].path

\* The bytes a row is about to name are there, and those it names.
BytesInv ==
    /\ \A w \in Workers : work[w].at \in {"created", "updated"} => work[w].path \in disk
    /\ RowsHaveBytes

\* Where a reservation is, and where the PUT that receives its bytes is.
UploadInv ==
    \A u \in Uploads :
        /\ u \in sweep => u \in expired
        /\ u \notin expired =>
              /\ put[u] \in {"receiving", "failed"} => upload[u] = "receiving"
              /\ put[u] = "finalizing" => upload[u] = "receiving" /\ u \in disk
              /\ upload[u] = "none" => u \notin disk
              /\ upload[u] = "uploaded" => u \in disk

\* What counts towards the quota; a transaction has made sure that there is
\* room for what it will add.
ReservedSet == {u \in Uploads : Reserved(u)}
Taken(reserved) == Cardinality(Rows) + Cardinality(gc) + Cardinality(reserved)

QuotaInv ==
    /\ Taken(ReservedSet) <= Quota + 1
    /\ \A w \in Workers :
          /\ work[w].at \in Creating => Taken(ReservedSet \ {work[w].upload}) + 1 <= Quota
          /\ work[w].at \in Updating => Taken(ReservedSet) <= Quota

IInv == TypeOK /\ MintInv /\ WorkInv /\ PathInv /\ BytesInv /\ UploadInv /\ QuotaInv

-----------------------------------------------------------------------------
(* How the calls move *)

LEMMA AtGoto ==
    ASSUME TypeOK, NEW w \in Workers, NEW l \in Labels, Goto(w, l)
    PROVE  /\ work' \in [Workers -> Calls]
           /\ work'[w].at = l /\ work'[w].file = work[w].file
           /\ work'[w].upload = work[w].upload /\ work'[w].path = work[w].path
           /\ work'[w].base = work[w].base
           /\ \A v \in Workers \ {w} : work'[v] = work[v]
<1>1. work \in [Workers -> Calls] /\ work[w] \in Calls
  BY DEF TypeOK
<1>2. [work[w] EXCEPT !.at = l] \in Calls
  BY <1>1 DEF Calls
<1>3. work' = [work EXCEPT ![w] = [work[w] EXCEPT !.at = l]]
  BY <1>1 DEF Goto
<1> QED
  BY <1>1, <1>2, <1>3 DEF Calls

LEMMA AtLeave ==
    ASSUME TypeOK, NEW w \in Workers, Leave(w)
    PROVE  /\ work' \in [Workers -> Calls]
           /\ work'[w].at = "idle" /\ work'[w].path = None
           /\ \A v \in Workers \ {w} : work'[v] = work[v]
<1>1. work \in [Workers -> Calls] /\ Rest \in Calls
  BY DEF TypeOK, Rest, Calls, Labels
<1> QED
  BY <1>1 DEF Leave, Rest

\* The paths of a call and of a row are paths.
LEMMA PathTypes ==
    ASSUME TypeOK
    PROVE  /\ \A w \in Workers :
                 /\ work[w].at \in Labels
                 /\ work[w].file \in Blobs \union {None} /\ work[w].upload \in Uploads \union {None}
                 /\ work[w].path \in Blobs \union {None} /\ work[w].base \in Blobs \union {None}
           /\ \A f \in Blobs : path[f] \in Blobs
           /\ Blobs \subseteq Paths /\ Uploads \subseteq Paths /\ None \notin Paths
           /\ \A u \in Uploads : u \notin Blobs /\ Partial(u) \in Paths \ (Blobs \union Uploads)
           /\ None \notin Workers
  BY PathsAssumption DEF TypeOK, Calls, Paths

\* The next blob.
LEMMA NextBlob ==
    ASSUME TypeOK, minted < MaxBlobs
    PROVE  minted + 1 \in Blobs /\ minted + 1 \in 0 .. MaxBlobs /\ minted \in Nat
  BY BoundsAssumption DEF TypeOK, Blobs

\* The calls that begin, and the transactions that do.
LEMMA AtComplete ==
    ASSUME TypeOK, NEW w \in Workers, BeginComplete(w)
    PROVE  \E u \in Uploads :
              /\ u \in disk /\ upload[u] = "uploaded" /\ u \notin expired
              /\ work' \in [Workers -> Calls]
              /\ work'[w].at = "staged" /\ work'[w].upload = u
              /\ work'[w].path = work[w].path
              /\ \A v \in Workers \ {w} : work'[v] = work[v]
<1>1. work[w] \in Calls
  BY DEF TypeOK
<1>2. PICK u \in Uploads :
         /\ u \in disk /\ upload[u] = "uploaded" /\ u \notin expired
         /\ work' = [work EXCEPT ![w] = [work[w] EXCEPT !.at = "staged", !.upload = u]]
  BY <1>1 DEF BeginComplete, TypeOK
<1>3. [work[w] EXCEPT !.at = "staged", !.upload = u] \in Calls
  BY <1>1 DEF Calls, Labels
<1> QED
  BY <1>1, <1>2, <1>3 DEF TypeOK, Calls

LEMMA AtOpen ==
    ASSUME TypeOK, NEW w \in Workers, OpenFile(w)
    PROVE  \E f \in Blobs :
              /\ file[f] = "live"
              /\ work' \in [Workers -> Calls]
              /\ work'[w].at = "editing" /\ work'[w].file = f /\ work'[w].base = path[f]
              /\ work'[w].path = work[w].path
              /\ \A v \in Workers \ {w} : work'[v] = work[v]
<1>1. work[w] \in Calls /\ path \in [Blobs -> Blobs]
  BY DEF TypeOK
<1>2. PICK f \in Blobs :
         /\ file[f] = "live"
         /\ work' = [work EXCEPT ![w] =
                       [work[w] EXCEPT !.at = "editing", !.file = f, !.base = path[f]]]
  BY <1>1 DEF OpenFile, TypeOK
<1>3. [work[w] EXCEPT !.at = "editing", !.file = f, !.base = path[f]] \in Calls
  BY <1>1 DEF Calls, Labels
<1> QED
  BY <1>1, <1>2, <1>3 DEF TypeOK, Calls

LEMMA AtCreate ==
    ASSUME TypeOK, NEW w \in Workers, EnterCreate(w)
    PROVE  /\ work' \in [Workers -> Calls]
           /\ work'[w].at = "creating" /\ work'[w].upload = work[w].upload
           /\ work'[w].file = minted + 1 /\ work'[w].path = minted + 1
           /\ \A v \in Workers \ {w} : work'[v] = work[v]
<1>1. work[w] \in Calls /\ minted + 1 \in Blobs
  BY NextBlob DEF EnterCreate, TypeOK
<1>2. [work[w] EXCEPT !.at = "creating", !.file = minted + 1, !.path = minted + 1] \in Calls
  BY <1>1 DEF Calls, Labels
<1>3. work' = [work EXCEPT ![w] = [work[w] EXCEPT !.at = "creating", !.file = minted + 1,
                                                  !.path = minted + 1]]
  BY <1>1 DEF EnterCreate, TypeOK
<1> QED
  BY <1>1, <1>2, <1>3 DEF TypeOK, Calls

LEMMA AtUpdate ==
    ASSUME TypeOK, NEW w \in Workers, EnterUpdate(w)
    PROVE  /\ work' \in [Workers -> Calls]
           /\ work'[w].at = "updating" /\ work'[w].path = minted + 1
           /\ work'[w].file = work[w].file /\ work'[w].base = work[w].base
           /\ \A v \in Workers \ {w} : work'[v] = work[v]
<1>1. work[w] \in Calls /\ minted + 1 \in Blobs
  BY NextBlob DEF EnterUpdate, TypeOK
<1>2. [work[w] EXCEPT !.at = "updating", !.path = minted + 1] \in Calls
  BY <1>1 DEF Calls, Labels
<1>3. work' = [work EXCEPT ![w] = [work[w] EXCEPT !.at = "updating", !.path = minted + 1]]
  BY <1>1 DEF EnterUpdate, TypeOK
<1> QED
  BY <1>1, <1>2, <1>3 DEF TypeOK, Calls

-----------------------------------------------------------------------------
(* What a transaction knows, and what its commit does *)

LEMMA InCreate ==
    ASSUME TypeOK, WorkInv, NEW w \in Workers, work[w].at \in Creating
    PROVE  /\ lock = w /\ work[w].path \in Blobs /\ work[w].file = work[w].path
           /\ work[w].file \notin Rows
           /\ work[w].upload \in Uploads \union {None}
           /\ work[w].upload # None => upload[work[w].upload] = "uploaded"
  BY PathTypes DEF WorkInv

LEMMA InUpdate ==
    ASSUME TypeOK, WorkInv, NEW w \in Workers, work[w].at \in Updating
    PROVE  /\ lock = w /\ work[w].path \in Blobs /\ work[w].file \in Blobs
           /\ work[w].file \in Rows /\ path[work[w].file] = work[w].base
  BY PathTypes DEF WorkInv

LEMMA Inserted ==
    ASSUME TypeOK, NEW f \in Blobs, NEW u \in Uploads \union {None}, InsertFile(f, u)
    PROVE  /\ file'[f] = "live" /\ path'[f] = f /\ gc' = gc
           /\ \A g \in Blobs \ {f} : file'[g] = file[g] /\ path'[g] = path[g]
           /\ Rows' = Rows \union {f}
           /\ u \in Uploads => upload'[u] = "complete" /\ result'[u] = f
           /\ \A v \in Uploads \ {u} : upload'[v] = upload[v] /\ result'[v] = result[v]
           /\ u = None => upload' = upload /\ result' = result
  BY PathTypes DEF InsertFile, TypeOK, Rows

LEMMA Replaced ==
    ASSUME TypeOK, NEW f \in Blobs, NEW p \in Blobs, ReplaceFile(f, p)
    PROVE  /\ file' = file /\ upload' = upload /\ result' = result
           /\ path'[f] = p /\ gc' = gc \union {path[f]}
           /\ \A g \in Blobs \ {f} : path'[g] = path[g]
           /\ Rows' = Rows
  BY DEF ReplaceFile, TypeOK, Rows

-----------------------------------------------------------------------------
(* Types *)

\* A step keeps the types; a call in a transaction knows its path.
LEMMA TypeStep ==
    ASSUME TypeOK, WorkInv, [Next]_vars
    PROVE  TypeOK'
<1>0. CASE UNCHANGED vars
  BY <1>0 DEF TypeOK, Paths, vars, rows
<1>1. ASSUME NEW u \in Uploads, BeginUpload(u)
      PROVE  TypeOK'
  BY <1>1 DEF BeginUpload, TypeOK, Paths
<1>2. ASSUME NEW u \in Uploads, PutStart(u)
      PROVE  TypeOK'
  BY <1>2 DEF PutStart, TypeOK, Paths
<1>3. ASSUME NEW u \in Uploads, PutReplace(u)
      PROVE  TypeOK'
  BY <1>3 DEF PutReplace, rows, TypeOK, Paths
<1>4. ASSUME NEW u \in Uploads, PutFails(u)
      PROVE  TypeOK'
  BY <1>4 DEF PutFails, rows, TypeOK, Paths
<1>5. ASSUME NEW u \in Uploads, PutReopen(u)
      PROVE  TypeOK'
  BY <1>5 DEF PutReopen, TypeOK, Paths
<1>6. ASSUME NEW u \in Uploads, PutMark(u)
      PROVE  TypeOK'
  BY <1>6 DEF PutMark, TypeOK, Paths
<1>7. ASSUME NEW u \in Uploads, PutAbandon(u)
      PROVE  TypeOK'
  BY <1>7 DEF PutAbandon, rows, TypeOK, Paths
<1>8. ASSUME NEW u \in Uploads, PutDies(u)
      PROVE  TypeOK'
  BY <1>8 DEF PutDies, rows, TypeOK, Paths
<1>9. ASSUME NEW u \in Uploads, Expire(u)
      PROVE  TypeOK'
  BY <1>9 DEF Expire, rows, TypeOK, Paths
<1>10. ASSUME NEW u \in Uploads, PurgeUpload(u)
      PROVE  TypeOK'
  BY <1>10 DEF PurgeUpload, TypeOK, Paths
<1>11. ASSUME NEW w \in Workers, BeginComplete(w)
      PROVE  TypeOK'
  BY <1>11, PathTypes, AtComplete DEF BeginComplete, rows, TypeOK
<1>12. ASSUME NEW w \in Workers, BeginCreate(w)
      PROVE  TypeOK'
  <2>1. work' \in [Workers -> Calls]
    BY <1>12, AtGoto DEF BeginCreate, Labels
  <2> QED BY <1>12, PathTypes, <2>1 DEF BeginCreate, rows, TypeOK
<1>13. ASSUME NEW w \in Workers, EnterCreate(w)
      PROVE  TypeOK'
  BY <1>13, PathTypes, AtCreate, NextBlob DEF EnterCreate, Registers, rows, TypeOK
<1>14. ASSUME NEW w \in Workers, RefuseCreate(w)
      PROVE  TypeOK'
  <2>1. work' \in [Workers -> Calls]
    BY <1>14, AtGoto, AtLeave DEF RefuseCreate, Labels
  <2> QED BY <1>14, PathTypes, <2>1 DEF RefuseCreate, Registers, rows, TypeOK
<1>15. ASSUME NEW w \in Workers, Write(w)
      PROVE  TypeOK'
  <2>1. work' \in [Workers -> Calls]
    BY <1>15, AtGoto DEF Write, Labels
  <2>3. work[w].path \in Blobs
    BY <1>15, PathTypes DEF Write, WorkInv, Creating, Updating
  <2>2. disk' \subseteq Paths
    BY <1>15, PathTypes, <2>3 DEF Write, TypeOK
  <2> QED BY <1>15, PathTypes, <2>1, <2>3, <2>2 DEF Write, rows, TypeOK
<1>16. ASSUME NEW w \in Workers, WriteFails(w)
      PROVE  TypeOK'
  <2>1. work' \in [Workers -> Calls]
    BY <1>16, AtLeave DEF WriteFails, Labels
  <2>3. work[w].path \in Blobs
    BY <1>16, PathTypes DEF WriteFails, WorkInv, Creating, Updating
  <2>2. disk' \subseteq Paths
    BY <1>16, PathTypes, <2>3 DEF WriteFails, TypeOK
  <2> QED BY <1>16, PathTypes, <2>1, <2>3, <2>2 DEF WriteFails, rows, TypeOK
<1>17. ASSUME NEW w \in Workers, CommitCreate(w)
      PROVE  TypeOK'
  <2>1. work' \in [Workers -> Calls]
    BY <1>17, AtGoto, AtLeave DEF CommitCreate, Labels
  <2>3. work[w].path \in Blobs /\ work[w].file \in Blobs
    BY <1>17, PathTypes DEF CommitCreate, WorkInv, Creating, Updating
  <2> QED BY <1>17, PathTypes, <2>1, <2>3 DEF CommitCreate, InsertFile, TypeOK
<1>18. ASSUME NEW w \in Workers, Unstage(w)
      PROVE  TypeOK'
  <2>1. work' \in [Workers -> Calls]
    BY <1>18, AtLeave DEF Unstage, Labels
  <2>2. disk' \subseteq Paths
    BY <1>18, PathTypes DEF Unstage, TypeOK
  <2> QED BY <1>18, PathTypes, <2>1, <2>2 DEF Unstage, rows, TypeOK
<1>19. ASSUME NEW w \in Workers, OpenFile(w)
      PROVE  TypeOK'
  BY <1>19, PathTypes, AtOpen DEF OpenFile, rows, TypeOK
<1>20. ASSUME NEW w \in Workers, EnterUpdate(w)
      PROVE  TypeOK'
  BY <1>20, PathTypes, AtUpdate, NextBlob DEF EnterUpdate, Unchanged, rows, TypeOK
<1>21. ASSUME NEW w \in Workers, RefuseUpdate(w)
      PROVE  TypeOK'
  <2>1. work' \in [Workers -> Calls]
    BY <1>21, AtLeave DEF RefuseUpdate, Labels
  <2> QED BY <1>21, PathTypes, <2>1 DEF RefuseUpdate, Unchanged, rows, TypeOK
<1>22. ASSUME NEW w \in Workers, CommitUpdate(w)
      PROVE  TypeOK'
  <2>1. work' \in [Workers -> Calls]
    BY <1>22, AtLeave DEF CommitUpdate, Labels
  <2>3. work[w].path \in Blobs /\ work[w].file \in Blobs
    BY <1>22, PathTypes DEF CommitUpdate, WorkInv, Creating, Updating
  <2> QED BY <1>22, PathTypes, <2>1, <2>3 DEF CommitUpdate, ReplaceFile, TypeOK
<1>23. ASSUME NEW w \in Workers, CommitFails(w)
      PROVE  TypeOK'
  <2>1. work' \in [Workers -> Calls]
    BY <1>23, AtGoto DEF CommitFails, Labels
  <2> QED BY <1>23, PathTypes, <2>1 DEF CommitFails, rows, TypeOK
<1>24. ASSUME NEW w \in Workers, CommitUncertain(w)
      PROVE  TypeOK'
  <2>1. work' \in [Workers -> Calls]
    BY <1>24, AtGoto DEF CommitUncertain, Labels
  <2>3. work[w].path \in Blobs /\ work[w].file \in Blobs
    BY <1>24, PathTypes DEF CommitUncertain, WorkInv, Creating, Updating
  <2> QED BY <1>24, PathTypes, <2>1, <2>3 DEF CommitUncertain, InsertFile, ReplaceFile,
     TypeOK
<1>25. ASSUME NEW w \in Workers, Undo(w)
      PROVE  TypeOK'
  <2>1. work' \in [Workers -> Calls]
    BY <1>25, AtLeave DEF Undo, Labels
  <2>2. disk' \subseteq Paths
    BY <1>25, PathTypes DEF Undo, TypeOK
  <2> QED BY <1>25, PathTypes, <2>1, <2>2 DEF Undo, rows, TypeOK
<1>26. ASSUME NEW w \in Workers, Crash(w)
      PROVE  TypeOK'
  <2>1. work' \in [Workers -> Calls]
    BY <1>26, AtLeave DEF Crash, Labels
  <2> QED BY <1>26, PathTypes, <2>1 DEF Crash, rows, TypeOK
<1>27. ASSUME NEW f \in Blobs, Retire(f)
      PROVE  TypeOK'
  BY <1>27 DEF Retire, TypeOK, Paths
<1>28. ASSUME NEW f \in Blobs, PurgeFile(f)
      PROVE  TypeOK'
  BY <1>28 DEF PurgeFile, TypeOK, Paths
<1>29. ASSUME NEW p \in Blobs, Collect(p)
      PROVE  TypeOK'
  BY <1>29 DEF Collect, TypeOK, Paths
<1>30. ASSUME PurgeFails
      PROVE  TypeOK'
  BY <1>30 DEF PurgeFails, rows, TypeOK, Paths
<1>31. ASSUME Reconcile
      PROVE  TypeOK'
  BY <1>31 DEF Reconcile, Orphans, Named, rows, TypeOK, Paths
<1>32. ASSUME Sweep
      PROVE  TypeOK'
  BY <1>32 DEF Sweep, rows, TypeOK, Paths
<1> QED
  BY <1>0, <1>1, <1>2, <1>3, <1>4, <1>5, <1>6, <1>7, <1>8, <1>9, <1>10, <1>11,
     <1>12, <1>13, <1>14, <1>15, <1>16, <1>17, <1>18, <1>19, <1>20, <1>21,
     <1>22, <1>23, <1>24, <1>25, <1>26, <1>27, <1>28, <1>29, <1>30, <1>31, <1>32
  DEF Next, Call, Receive, Clean

-----------------------------------------------------------------------------
(* The inductive invariant is kept, part by part *)

\* What is generated is new.
LEMMA MintStep ==
    ASSUME TypeOK, MintInv, WorkInv, [Next]_vars
    PROVE  MintInv'
<1>0. CASE UNCHANGED vars
  BY <1>0 DEF MintInv, Rows, vars, rows
<1>1. ASSUME NEW u \in Uploads, 
             \/ BeginUpload(u) \/ PutReopen(u) \/ PutMark(u) \/ PutAbandon(u)
             \/ PutDies(u) \/ Expire(u)
      PROVE  MintInv'
  BY <1>1 DEF BeginUpload, PutReopen, PutMark, PutAbandon, PutDies, Expire, rows,
     MintInv, Rows
<1>2. ASSUME NEW u \in Uploads, PutStart(u)
      PROVE  MintInv'
  BY <1>2, PathTypes DEF PutStart, MintInv, Rows, TypeOK
<1>3. ASSUME NEW u \in Uploads, PutReplace(u)
      PROVE  MintInv'
  BY <1>3, PathTypes DEF PutReplace, rows, MintInv, Rows, TypeOK
<1>4. ASSUME NEW u \in Uploads, PutFails(u)
      PROVE  MintInv'
  BY <1>4, PathTypes DEF PutFails, rows, MintInv, Rows, TypeOK
<1>5. ASSUME NEW u \in Uploads, PurgeUpload(u)
      PROVE  MintInv'
  BY <1>5, PathTypes DEF PurgeUpload, MintInv, Rows, TypeOK
<1>6. ASSUME NEW w \in Workers, BeginComplete(w)
      PROVE  MintInv'
  <2>1. UNCHANGED <<file, path, gc, upload, result, expired, lock, disk, sweep, minted, put, uncertain>>
    BY <1>6 DEF BeginComplete, rows
  <2> QED BY <1>6, <2>1, PathTypes, AtComplete, BoundsAssumption DEF Blobs, TypeOK,
     MintInv, Rows
<1>7. ASSUME NEW w \in Workers, BeginCreate(w)
      PROVE  MintInv'
  BY <1>7, PathTypes, AtGoto DEF BeginCreate, rows, Labels, MintInv, Rows
<1>8. ASSUME NEW w \in Workers, EnterCreate(w)
      PROVE  MintInv'
  <2>1. UNCHANGED <<file, path, gc, upload, result, expired, disk, sweep, put, uncertain>>
    BY <1>8 DEF EnterCreate, rows
  <2>2. /\ lock = None /\ lock' = w /\ minted' = minted + 1 /\ minted + 1 \in Blobs
        /\ minted \in Nat /\ work[w].at = "staged"
        /\ work[w].upload # None => upload[work[w].upload] = "uploaded"
    BY <1>8, NextBlob DEF EnterCreate, Registers
  <2>3. \A n \in Blobs : n <= minted => n <= minted'
    BY <2>2, BoundsAssumption DEF Blobs
  <2>4. \A f \in Rows' : f <= minted' /\ path'[f] <= minted'
    BY <2>1, <2>3, PathTypes DEF MintInv, Rows
  <2>5. \A p \in gc' \union ((disk' \union sweep') \intersect Blobs) : p <= minted'
    BY <2>1, <2>3 DEF MintInv, TypeOK
  <2>6. \A v \in Workers : work'[v].path # None => work'[v].path <= minted'
    BY <1>8, <2>2, <2>3, PathTypes, AtCreate DEF MintInv
  <2> QED BY <2>4, <2>5, <2>6 DEF MintInv
<1>9. ASSUME NEW w \in Workers, RefuseCreate(w)
      PROVE  MintInv'
  BY <1>9, PathTypes, AtGoto, AtLeave DEF RefuseCreate, Registers, rows, Labels,
     MintInv, Rows
<1>10. ASSUME NEW w \in Workers, Write(w)
      PROVE  MintInv'
  BY <1>10, PathTypes, AtGoto DEF Write, rows, Labels, MintInv, Rows
<1>11. ASSUME NEW w \in Workers, WriteFails(w)
      PROVE  MintInv'
  BY <1>11, PathTypes, AtLeave DEF WriteFails, rows, MintInv, Rows
<1>12. ASSUME NEW w \in Workers, CommitCreate(w)
      PROVE  MintInv'
  <2>1. InsertFile(work[w].file, work[w].upload) /\ work[w].at \in Creating
    BY <1>12 DEF CommitCreate, Creating
  <2> QED BY <1>12, <2>1, InCreate, Inserted, PathTypes, AtGoto, AtLeave DEF
     CommitCreate, Labels, MintInv, Rows
<1>13. ASSUME NEW w \in Workers, Unstage(w)
      PROVE  MintInv'
  BY <1>13, PathTypes, AtLeave DEF Unstage, rows, MintInv, Rows
<1>14. ASSUME NEW w \in Workers, OpenFile(w)
      PROVE  MintInv'
  <2>1. UNCHANGED <<file, path, gc, upload, result, expired, lock, disk, sweep, minted, put, uncertain>>
    BY <1>14 DEF OpenFile, rows
  <2> QED BY <1>14, <2>1, PathTypes, AtOpen, BoundsAssumption DEF Blobs, TypeOK,
     MintInv, Rows
<1>15. ASSUME NEW w \in Workers, EnterUpdate(w)
      PROVE  MintInv'
  <2>1. UNCHANGED <<file, path, gc, upload, result, expired, disk, sweep, put, uncertain>>
    BY <1>15 DEF EnterUpdate, rows
  <2>2. /\ lock = None /\ lock' = w /\ minted' = minted + 1 /\ minted + 1 \in Blobs
        /\ minted \in Nat /\ work[w].at = "editing"
        /\ file[work[w].file] = "live" /\ path[work[w].file] = work[w].base
    BY <1>15, NextBlob DEF EnterUpdate, Unchanged
  <2>3. \A n \in Blobs : n <= minted => n <= minted'
    BY <2>2, BoundsAssumption DEF Blobs
  <2>4. \A f \in Rows' : f <= minted' /\ path'[f] <= minted'
    BY <2>1, <2>3, PathTypes DEF MintInv, Rows
  <2>5. \A p \in gc' \union ((disk' \union sweep') \intersect Blobs) : p <= minted'
    BY <2>1, <2>3 DEF MintInv, TypeOK
  <2>6. \A v \in Workers : work'[v].path # None => work'[v].path <= minted'
    BY <1>15, <2>2, <2>3, PathTypes, AtUpdate DEF MintInv
  <2> QED BY <2>4, <2>5, <2>6 DEF MintInv
<1>16. ASSUME NEW w \in Workers, RefuseUpdate(w)
      PROVE  MintInv'
  BY <1>16, PathTypes, AtLeave DEF RefuseUpdate, Unchanged, rows, MintInv, Rows
<1>17. ASSUME NEW w \in Workers, CommitUpdate(w)
      PROVE  MintInv'
  <2>1. ReplaceFile(work[w].file, work[w].path) /\ work[w].at \in Updating
    BY <1>17 DEF CommitUpdate, Updating
  <2> QED BY <1>17, <2>1, InUpdate, Replaced, PathTypes, AtLeave DEF CommitUpdate,
     Labels, MintInv, Rows
<1>18. ASSUME NEW w \in Workers, CommitFails(w)
      PROVE  MintInv'
  BY <1>18, PathTypes, AtGoto DEF CommitFails, rows, Labels, MintInv, Rows
<1>19. ASSUME NEW w \in Workers, CommitUncertain(w)
      PROVE  MintInv'
  <2>1. CASE work[w].at = "created"
    <3>1. InsertFile(work[w].file, work[w].upload) /\ work[w].at \in Creating
      BY <1>19, <2>1 DEF CommitUncertain, Creating
    <3> QED BY <1>19, <2>1, <3>1, InCreate, Inserted, PathTypes, AtGoto DEF
       CommitUncertain, Labels, MintInv, Rows
  <2>2. CASE work[w].at = "updated"
    <3>1. ReplaceFile(work[w].file, work[w].path) /\ work[w].at \in Updating
      BY <1>19, <2>2 DEF CommitUncertain, Updating
    <3> QED BY <1>19, <2>2, <3>1, InUpdate, Replaced, PathTypes, AtGoto DEF
       CommitUncertain, Labels, MintInv, Rows
  <2> QED BY <1>19, <2>1, <2>2 DEF CommitUncertain
<1>20. ASSUME NEW w \in Workers, Undo(w)
      PROVE  MintInv'
  BY <1>20, PathTypes, AtLeave DEF Undo, rows, MintInv, Rows
<1>21. ASSUME NEW w \in Workers, Crash(w)
      PROVE  MintInv'
  BY <1>21, PathTypes, AtLeave DEF Crash, rows, MintInv, Rows
<1>22. ASSUME NEW f \in Blobs, Retire(f)
      PROVE  MintInv'
  BY <1>22, PathTypes DEF Retire, MintInv, Rows, TypeOK
<1>23. ASSUME NEW f \in Blobs, PurgeFile(f)
      PROVE  MintInv'
  BY <1>23, PathTypes DEF PurgeFile, MintInv, Rows, TypeOK
<1>24. ASSUME NEW p \in Blobs, Collect(p)
      PROVE  MintInv'
  BY <1>24, PathTypes DEF Collect, MintInv, Rows
<1>25. ASSUME PurgeFails
      PROVE  MintInv'
  BY <1>25, PathTypes DEF PurgeFails, rows, MintInv, Rows
<1>26. ASSUME Reconcile
      PROVE  MintInv'
  BY <1>26, PathTypes DEF Reconcile, Orphans, Named, rows, MintInv, Rows
<1>27. ASSUME Sweep
      PROVE  MintInv'
  BY <1>27, PathTypes DEF Sweep, rows, MintInv, Rows
<1> QED
  BY <1>0, <1>1, <1>2, <1>3, <1>4, <1>5, <1>6, <1>7, <1>8, <1>9, <1>10, <1>11,
     <1>12, <1>13, <1>14, <1>15, <1>16, <1>17, <1>18, <1>19, <1>20, <1>21,
     <1>22, <1>23, <1>24, <1>25, <1>26, <1>27
  DEF Next, Call, Receive, Clean

\* A call keeps what it knows under the lock.
LEMMA WorkStep ==
    ASSUME TypeOK, MintInv, WorkInv, [Next]_vars
    PROVE  WorkInv'
<1>0. CASE UNCHANGED vars
  BY <1>0 DEF WorkInv, Rows, Creating, Updating, vars, rows
<1>1. ASSUME NEW u \in Uploads, PutReplace(u) \/ PutFails(u) \/ PutAbandon(u) \/ PutDies(u)
      PROVE  WorkInv'
  BY <1>1 DEF PutReplace, PutFails, PutAbandon, PutDies, rows, WorkInv, Rows, Creating,
     Updating
<1>2. ASSUME NEW p \in Blobs, Collect(p)
      PROVE  WorkInv'
  BY <1>2 DEF Collect, WorkInv, Rows, Creating, Updating
<1>3. ASSUME PurgeFails \/ Reconcile \/ Sweep
      PROVE  WorkInv'
  BY <1>3 DEF PurgeFails, Reconcile, Sweep, rows, WorkInv, Rows, Creating, Updating
<1>4. ASSUME NEW u \in Uploads, BeginUpload(u)
      PROVE  WorkInv'
  BY <1>4, PathTypes DEF BeginUpload, WorkInv, Rows, Creating, Updating, TypeOK
<1>5. ASSUME NEW u \in Uploads, PutStart(u)
      PROVE  WorkInv'
  BY <1>5, PathTypes DEF PutStart, WorkInv, Rows, Creating, Updating, TypeOK
<1>6. ASSUME NEW u \in Uploads, PutReopen(u)
      PROVE  WorkInv'
  BY <1>6, PathTypes DEF PutReopen, WorkInv, Rows, Creating, Updating, TypeOK
<1>7. ASSUME NEW u \in Uploads, PutMark(u)
      PROVE  WorkInv'
  BY <1>7, PathTypes DEF PutMark, WorkInv, Rows, Creating, Updating, TypeOK
<1>8. ASSUME NEW u \in Uploads, Expire(u)
      PROVE  WorkInv'
  BY <1>8, PathTypes DEF Expire, rows, WorkInv, Rows, Creating, Updating
<1>9. ASSUME NEW u \in Uploads, PurgeUpload(u)
      PROVE  WorkInv'
  BY <1>9, PathTypes DEF PurgeUpload, WorkInv, Rows, Creating, Updating, TypeOK
<1>10. ASSUME NEW w \in Workers, BeginComplete(w)
      PROVE  WorkInv'
  <2>1. UNCHANGED <<file, path, gc, upload, result, expired, lock, disk, sweep, minted, put, uncertain>>
    BY <1>10 DEF BeginComplete, rows
  <2> QED BY <1>10, <2>1, PathTypes, AtComplete DEF WorkInv, Rows, Creating, Updating
<1>11. ASSUME NEW w \in Workers, BeginCreate(w)
      PROVE  WorkInv'
  BY <1>11, PathTypes, AtGoto DEF BeginCreate, rows, Labels, WorkInv, Rows, Creating,
     Updating
<1>12. ASSUME NEW w \in Workers, EnterCreate(w)
      PROVE  WorkInv'
  <2>1. UNCHANGED <<file, path, gc, upload, result, expired, disk, sweep, put, uncertain>>
    BY <1>12 DEF EnterCreate, rows
  <2>2. /\ lock = None /\ lock' = w /\ minted' = minted + 1 /\ minted + 1 \in Blobs
        /\ minted \in Nat /\ work[w].at = "staged"
        /\ work[w].upload # None => upload[work[w].upload] = "uploaded"
    BY <1>12, NextBlob DEF EnterCreate, Registers
  <2> QED BY <1>12, <2>2, <2>1, PathTypes, AtCreate DEF MintInv, WorkInv, Rows,
     Creating, Updating
<1>13. ASSUME NEW w \in Workers, RefuseCreate(w)
      PROVE  WorkInv'
  BY <1>13, PathTypes, AtGoto, AtLeave DEF RefuseCreate, Registers, rows, Labels,
     WorkInv, Rows, Creating, Updating
<1>14. ASSUME NEW w \in Workers, Write(w)
      PROVE  WorkInv'
  BY <1>14, PathTypes, AtGoto DEF Write, rows, Labels, WorkInv, Rows, Creating, Updating
<1>15. ASSUME NEW w \in Workers, WriteFails(w)
      PROVE  WorkInv'
  BY <1>15, PathTypes, AtLeave DEF WriteFails, rows, WorkInv, Rows, Creating, Updating
<1>16. ASSUME NEW w \in Workers, CommitCreate(w)
      PROVE  WorkInv'
  <2>1. InsertFile(work[w].file, work[w].upload) /\ work[w].at \in Creating
    BY <1>16 DEF CommitCreate, Creating
  <2> QED BY <1>16, <2>1, InCreate, Inserted, PathTypes, AtGoto, AtLeave DEF
     CommitCreate, Labels, WorkInv, Rows, Creating, Updating
<1>17. ASSUME NEW w \in Workers, Unstage(w)
      PROVE  WorkInv'
  BY <1>17, PathTypes, AtLeave DEF Unstage, rows, WorkInv, Rows, Creating, Updating
<1>18. ASSUME NEW w \in Workers, OpenFile(w)
      PROVE  WorkInv'
  <2>1. UNCHANGED <<file, path, gc, upload, result, expired, lock, disk, sweep, minted, put, uncertain>>
    BY <1>18 DEF OpenFile, rows
  <2> QED BY <1>18, <2>1, PathTypes, AtOpen DEF WorkInv, Rows, Creating, Updating
<1>19. ASSUME NEW w \in Workers, EnterUpdate(w)
      PROVE  WorkInv'
  <2>1. UNCHANGED <<file, path, gc, upload, result, expired, disk, sweep, put, uncertain>>
    BY <1>19 DEF EnterUpdate, rows
  <2>2. /\ lock = None /\ lock' = w /\ minted' = minted + 1 /\ minted + 1 \in Blobs
        /\ minted \in Nat /\ work[w].at = "editing"
        /\ file[work[w].file] = "live" /\ path[work[w].file] = work[w].base
    BY <1>19, NextBlob DEF EnterUpdate, Unchanged
  <2> QED BY <1>19, <2>2, <2>1, PathTypes, AtUpdate DEF MintInv, WorkInv, Rows,
     Creating, Updating
<1>20. ASSUME NEW w \in Workers, RefuseUpdate(w)
      PROVE  WorkInv'
  BY <1>20, PathTypes, AtLeave DEF RefuseUpdate, Unchanged, rows, WorkInv, Rows,
     Creating, Updating
<1>21. ASSUME NEW w \in Workers, CommitUpdate(w)
      PROVE  WorkInv'
  <2>1. ReplaceFile(work[w].file, work[w].path) /\ work[w].at \in Updating
    BY <1>21 DEF CommitUpdate, Updating
  <2> QED BY <1>21, <2>1, InUpdate, Replaced, PathTypes, AtLeave DEF CommitUpdate,
     Labels, WorkInv, Rows, Creating, Updating
<1>22. ASSUME NEW w \in Workers, CommitFails(w)
      PROVE  WorkInv'
  BY <1>22, PathTypes, AtGoto DEF CommitFails, rows, Labels, WorkInv, Rows, Creating,
     Updating
<1>23. ASSUME NEW w \in Workers, CommitUncertain(w)
      PROVE  WorkInv'
  <2>1. CASE work[w].at = "created"
    <3>1. InsertFile(work[w].file, work[w].upload) /\ work[w].at \in Creating
      BY <1>23, <2>1 DEF CommitUncertain, Creating
    <3> QED BY <1>23, <2>1, <3>1, InCreate, Inserted, PathTypes, AtGoto DEF
       CommitUncertain, Labels, WorkInv, Rows, Creating, Updating
  <2>2. CASE work[w].at = "updated"
    <3>1. ReplaceFile(work[w].file, work[w].path) /\ work[w].at \in Updating
      BY <1>23, <2>2 DEF CommitUncertain, Updating
    <3> QED BY <1>23, <2>2, <3>1, InUpdate, Replaced, PathTypes, AtGoto DEF
       CommitUncertain, Labels, WorkInv, Rows, Creating, Updating
  <2> QED BY <1>23, <2>1, <2>2 DEF CommitUncertain
<1>24. ASSUME NEW w \in Workers, Undo(w)
      PROVE  WorkInv'
  BY <1>24, PathTypes, AtLeave DEF Undo, rows, WorkInv, Rows, Creating, Updating
<1>25. ASSUME NEW w \in Workers, Crash(w)
      PROVE  WorkInv'
  BY <1>25, PathTypes, AtLeave DEF Crash, rows, WorkInv, Rows, Creating, Updating
<1>26. ASSUME NEW f \in Blobs, Retire(f)
      PROVE  WorkInv'
  BY <1>26, PathTypes DEF Retire, WorkInv, Rows, Creating, Updating, TypeOK
<1>27. ASSUME NEW f \in Blobs, PurgeFile(f)
      PROVE  WorkInv'
  BY <1>27, PathTypes DEF PurgeFile, WorkInv, Rows, Creating, Updating, TypeOK
<1> QED
  BY <1>0, <1>1, <1>2, <1>3, <1>4, <1>5, <1>6, <1>7, <1>8, <1>9, <1>10, <1>11,
     <1>12, <1>13, <1>14, <1>15, <1>16, <1>17, <1>18, <1>19, <1>20, <1>21,
     <1>22, <1>23, <1>24, <1>25, <1>26, <1>27
  DEF Next, Call, Receive, Clean

\* No two claim one path.
LEMMA PathStep ==
    ASSUME TypeOK, MintInv, WorkInv, PathInv, [Next]_vars
    PROVE  PathInv'
<1>0. CASE UNCHANGED vars
  BY <1>0 DEF PathInv, Rows, Creating, Updating, vars, rows
<1>1. ASSUME NEW u \in Uploads, 
             \/ BeginUpload(u) \/ PutStart(u) \/ PutReplace(u) \/ PutFails(u)
             \/ PutReopen(u) \/ PutMark(u) \/ PutAbandon(u) \/ PutDies(u)
             \/ Expire(u) \/ PurgeUpload(u)
      PROVE  PathInv'
  BY <1>1 DEF BeginUpload, PutStart, PutReplace, PutFails, PutReopen, PutMark,
     PutAbandon, PutDies, Expire, PurgeUpload, rows, PathInv, Rows, Creating,
     Updating
<1>2. ASSUME PurgeFails
      PROVE  PathInv'
  BY <1>2 DEF PurgeFails, rows, PathInv, Rows, Creating, Updating
<1>3. ASSUME NEW w \in Workers, BeginComplete(w)
      PROVE  PathInv'
  <2>1. UNCHANGED <<file, path, gc, upload, result, expired, lock, disk, sweep, minted, put, uncertain>>
    BY <1>3 DEF BeginComplete, rows
  <2> QED BY <1>3, <2>1, PathTypes, AtComplete DEF PathInv, Rows, Creating, Updating
<1>4. ASSUME NEW w \in Workers, BeginCreate(w)
      PROVE  PathInv'
  BY <1>4, PathTypes, AtGoto DEF BeginCreate, rows, Labels, PathInv, Rows, Creating,
     Updating
<1>5. ASSUME NEW w \in Workers, EnterCreate(w)
      PROVE  PathInv'
  <2>1. UNCHANGED <<file, path, gc, upload, result, expired, disk, sweep, put, uncertain>>
    BY <1>5 DEF EnterCreate, rows
  <2>2. /\ lock = None /\ lock' = w /\ minted' = minted + 1 /\ minted + 1 \in Blobs
        /\ minted \in Nat /\ work[w].at = "staged"
        /\ work[w].upload # None => upload[work[w].upload] = "uploaded"
    BY <1>5, NextBlob DEF EnterCreate, Registers
  <2> QED BY <1>5, <2>2, <2>1, PathTypes, AtCreate DEF MintInv, PathInv, Rows,
     Creating, Updating
<1>6. ASSUME NEW w \in Workers, RefuseCreate(w)
      PROVE  PathInv'
  BY <1>6, PathTypes, AtGoto, AtLeave DEF RefuseCreate, Registers, rows, Labels,
     PathInv, Rows, Creating, Updating
<1>7. ASSUME NEW w \in Workers, Write(w)
      PROVE  PathInv'
  BY <1>7, PathTypes, AtGoto DEF Write, rows, Labels, PathInv, Rows, Creating, Updating
<1>8. ASSUME NEW w \in Workers, WriteFails(w)
      PROVE  PathInv'
  BY <1>8, PathTypes, AtLeave DEF WriteFails, rows, PathInv, Rows, Creating, Updating
<1>9. ASSUME NEW w \in Workers, CommitCreate(w)
      PROVE  PathInv'
  <2>1. InsertFile(work[w].file, work[w].upload) /\ work[w].at \in Creating
    BY <1>9 DEF CommitCreate, Creating
  <2> QED BY <1>9, <2>1, InCreate, Inserted, PathTypes, AtGoto, AtLeave DEF
     CommitCreate, Labels, PathInv, Rows, Creating, Updating
<1>10. ASSUME NEW w \in Workers, Unstage(w)
      PROVE  PathInv'
  BY <1>10, PathTypes, AtLeave DEF Unstage, rows, PathInv, Rows, Creating, Updating
<1>11. ASSUME NEW w \in Workers, OpenFile(w)
      PROVE  PathInv'
  <2>1. UNCHANGED <<file, path, gc, upload, result, expired, lock, disk, sweep, minted, put, uncertain>>
    BY <1>11 DEF OpenFile, rows
  <2> QED BY <1>11, <2>1, PathTypes, AtOpen DEF PathInv, Rows, Creating, Updating
<1>12. ASSUME NEW w \in Workers, EnterUpdate(w)
      PROVE  PathInv'
  <2>1. UNCHANGED <<file, path, gc, upload, result, expired, disk, sweep, put, uncertain>>
    BY <1>12 DEF EnterUpdate, rows
  <2>2. /\ lock = None /\ lock' = w /\ minted' = minted + 1 /\ minted + 1 \in Blobs
        /\ minted \in Nat /\ work[w].at = "editing"
        /\ file[work[w].file] = "live" /\ path[work[w].file] = work[w].base
    BY <1>12, NextBlob DEF EnterUpdate, Unchanged
  <2> QED BY <1>12, <2>2, <2>1, PathTypes, AtUpdate DEF MintInv, PathInv, Rows,
     Creating, Updating
<1>13. ASSUME NEW w \in Workers, RefuseUpdate(w)
      PROVE  PathInv'
  BY <1>13, PathTypes, AtLeave DEF RefuseUpdate, Unchanged, rows, PathInv, Rows,
     Creating, Updating
<1>14. ASSUME NEW w \in Workers, CommitUpdate(w)
      PROVE  PathInv'
  <2>1. ReplaceFile(work[w].file, work[w].path) /\ work[w].at \in Updating
    BY <1>14 DEF CommitUpdate, Updating
  <2> QED BY <1>14, <2>1, InUpdate, Replaced, PathTypes, AtLeave DEF CommitUpdate,
     Labels, PathInv, Rows, Creating, Updating
<1>15. ASSUME NEW w \in Workers, CommitFails(w)
      PROVE  PathInv'
  BY <1>15, PathTypes, AtGoto DEF CommitFails, rows, Labels, PathInv, Rows, Creating,
     Updating
<1>16. ASSUME NEW w \in Workers, CommitUncertain(w)
      PROVE  PathInv'
  <2>1. CASE work[w].at = "created"
    <3>1. InsertFile(work[w].file, work[w].upload) /\ work[w].at \in Creating
      BY <1>16, <2>1 DEF CommitUncertain, Creating
    <3> QED BY <1>16, <2>1, <3>1, InCreate, Inserted, PathTypes, AtGoto DEF
       CommitUncertain, Labels, PathInv, Rows, Creating, Updating
  <2>2. CASE work[w].at = "updated"
    <3>1. ReplaceFile(work[w].file, work[w].path) /\ work[w].at \in Updating
      BY <1>16, <2>2 DEF CommitUncertain, Updating
    <3> QED BY <1>16, <2>2, <3>1, InUpdate, Replaced, PathTypes, AtGoto DEF
       CommitUncertain, Labels, PathInv, Rows, Creating, Updating
  <2> QED BY <1>16, <2>1, <2>2 DEF CommitUncertain
<1>17. ASSUME NEW w \in Workers, Undo(w)
      PROVE  PathInv'
  BY <1>17, PathTypes, AtLeave DEF Undo, rows, PathInv, Rows, Creating, Updating
<1>18. ASSUME NEW w \in Workers, Crash(w)
      PROVE  PathInv'
  BY <1>18, PathTypes, AtLeave DEF Crash, rows, PathInv, Rows, Creating, Updating
<1>19. ASSUME NEW f \in Blobs, Retire(f)
      PROVE  PathInv'
  BY <1>19, PathTypes DEF Retire, PathInv, Rows, Creating, Updating, TypeOK
<1>20. ASSUME NEW f \in Blobs, PurgeFile(f)
      PROVE  PathInv'
  BY <1>20, PathTypes DEF PurgeFile, PathInv, Rows, Creating, Updating, TypeOK
<1>21. ASSUME NEW p \in Blobs, Collect(p)
      PROVE  PathInv'
  BY <1>21, PathTypes DEF Collect, PathInv, Rows, Creating, Updating
<1>22. ASSUME Reconcile
      PROVE  PathInv'
  BY <1>22, PathTypes DEF Reconcile, Orphans, Named, rows, PathInv, Rows, Creating,
     Updating
<1>23. ASSUME Sweep
      PROVE  PathInv'
  BY <1>23, PathTypes DEF Sweep, rows, PathInv, Rows, Creating, Updating
<1> QED
  BY <1>0, <1>1, <1>2, <1>3, <1>4, <1>5, <1>6, <1>7, <1>8, <1>9, <1>10, <1>11,
     <1>12, <1>13, <1>14, <1>15, <1>16, <1>17, <1>18, <1>19, <1>20, <1>21,
     <1>22, <1>23
  DEF Next, Call, Receive, Clean

\* What is named, or about to be, is not unlinked.
LEMMA BytesStep ==
    ASSUME TypeOK, WorkInv, PathInv, BytesInv, [Next]_vars
    PROVE  BytesInv'
<1>0. CASE UNCHANGED vars
  BY <1>0 DEF BytesInv, RowsHaveBytes, vars, rows
<1>1. ASSUME NEW u \in Uploads, 
             \/ BeginUpload(u) \/ PutReopen(u) \/ PutMark(u) \/ PutAbandon(u)
             \/ PutDies(u) \/ Expire(u)
      PROVE  BytesInv'
  BY <1>1 DEF BeginUpload, PutReopen, PutMark, PutAbandon, PutDies, Expire, rows,
     BytesInv, RowsHaveBytes
<1>2. ASSUME Reconcile
      PROVE  BytesInv'
  BY <1>2 DEF Reconcile, rows, BytesInv, RowsHaveBytes
<1>3. ASSUME NEW u \in Uploads, PutStart(u)
      PROVE  BytesInv'
  BY <1>3, PathTypes DEF PutStart, BytesInv, RowsHaveBytes, TypeOK
<1>4. ASSUME NEW u \in Uploads, PutReplace(u)
      PROVE  BytesInv'
  BY <1>4, PathTypes DEF PutReplace, rows, BytesInv, RowsHaveBytes, TypeOK
<1>5. ASSUME NEW u \in Uploads, PutFails(u)
      PROVE  BytesInv'
  BY <1>5, PathTypes DEF PutFails, rows, BytesInv, RowsHaveBytes, TypeOK
<1>6. ASSUME NEW u \in Uploads, PurgeUpload(u)
      PROVE  BytesInv'
  BY <1>6, PathTypes DEF PurgeUpload, BytesInv, RowsHaveBytes, TypeOK
<1>7. ASSUME NEW w \in Workers, BeginComplete(w)
      PROVE  BytesInv'
  <2>1. UNCHANGED <<file, path, gc, upload, result, expired, lock, disk, sweep, minted, put, uncertain>>
    BY <1>7 DEF BeginComplete, rows
  <2> QED BY <1>7, <2>1, PathTypes, AtComplete DEF BytesInv, RowsHaveBytes
<1>8. ASSUME NEW w \in Workers, BeginCreate(w)
      PROVE  BytesInv'
  BY <1>8, PathTypes, AtGoto DEF BeginCreate, rows, Labels, BytesInv, RowsHaveBytes
<1>9. ASSUME NEW w \in Workers, EnterCreate(w)
      PROVE  BytesInv'
  <2>1. UNCHANGED <<file, path, gc, upload, result, expired, disk, sweep, put, uncertain>>
    BY <1>9 DEF EnterCreate, rows
  <2>2. /\ lock = None /\ lock' = w /\ minted' = minted + 1 /\ minted + 1 \in Blobs
        /\ minted \in Nat /\ work[w].at = "staged"
        /\ work[w].upload # None => upload[work[w].upload] = "uploaded"
    BY <1>9, NextBlob DEF EnterCreate, Registers
  <2> QED BY <1>9, <2>2, <2>1, PathTypes, AtCreate DEF MintInv, BytesInv, RowsHaveBytes
<1>10. ASSUME NEW w \in Workers, RefuseCreate(w)
      PROVE  BytesInv'
  BY <1>10, PathTypes, AtGoto, AtLeave DEF RefuseCreate, Registers, rows, Labels,
     BytesInv, RowsHaveBytes
<1>11. ASSUME NEW w \in Workers, Write(w)
      PROVE  BytesInv'
  BY <1>11, PathTypes, AtGoto DEF Write, rows, Labels, BytesInv, RowsHaveBytes
<1>12. ASSUME NEW w \in Workers, WriteFails(w)
      PROVE  BytesInv'
  BY <1>12, PathTypes, AtLeave DEF WriteFails, rows, BytesInv, RowsHaveBytes
<1>13. ASSUME NEW w \in Workers, CommitCreate(w)
      PROVE  BytesInv'
  <2>1. InsertFile(work[w].file, work[w].upload) /\ work[w].at \in Creating
    BY <1>13 DEF CommitCreate, Creating
  <2> QED BY <1>13, <2>1, InCreate, Inserted, PathTypes, AtGoto, AtLeave DEF
     CommitCreate, Labels, BytesInv, RowsHaveBytes, Rows, PathInv, Creating,
     Updating
<1>14. ASSUME NEW w \in Workers, Unstage(w)
      PROVE  BytesInv'
  <2>0. work[w].upload \in Uploads /\ UNCHANGED <<file, path, uncertain>>
    BY <1>14, PathTypes DEF Unstage, WorkInv, rows
  <2>1. \A p \in Blobs : p \in disk => p \in disk'
    BY <1>14, <2>0, PathTypes DEF Unstage
  <2> QED BY <1>14, <2>0, <2>1, PathTypes, AtLeave DEF Unstage, BytesInv, RowsHaveBytes, TypeOK
<1>15. ASSUME NEW w \in Workers, OpenFile(w)
      PROVE  BytesInv'
  <2>1. UNCHANGED <<file, path, gc, upload, result, expired, lock, disk, sweep, minted, put, uncertain>>
    BY <1>15 DEF OpenFile, rows
  <2> QED BY <1>15, <2>1, PathTypes, AtOpen DEF BytesInv, RowsHaveBytes
<1>16. ASSUME NEW w \in Workers, EnterUpdate(w)
      PROVE  BytesInv'
  <2>1. UNCHANGED <<file, path, gc, upload, result, expired, disk, sweep, put, uncertain>>
    BY <1>16 DEF EnterUpdate, rows
  <2>2. /\ lock = None /\ lock' = w /\ minted' = minted + 1 /\ minted + 1 \in Blobs
        /\ minted \in Nat /\ work[w].at = "editing"
        /\ file[work[w].file] = "live" /\ path[work[w].file] = work[w].base
    BY <1>16, NextBlob DEF EnterUpdate, Unchanged
  <2> QED BY <1>16, <2>2, <2>1, PathTypes, AtUpdate DEF MintInv, BytesInv, RowsHaveBytes
<1>17. ASSUME NEW w \in Workers, RefuseUpdate(w)
      PROVE  BytesInv'
  BY <1>17, PathTypes, AtLeave DEF RefuseUpdate, Unchanged, rows, BytesInv,
     RowsHaveBytes
<1>18. ASSUME NEW w \in Workers, CommitUpdate(w)
      PROVE  BytesInv'
  <2>1. ReplaceFile(work[w].file, work[w].path) /\ work[w].at \in Updating
    BY <1>18 DEF CommitUpdate, Updating
  <2> QED BY <1>18, <2>1, InUpdate, Replaced, PathTypes, AtLeave DEF CommitUpdate,
     Labels, BytesInv, RowsHaveBytes, Rows, PathInv, Creating, Updating
<1>19. ASSUME NEW w \in Workers, CommitFails(w)
      PROVE  BytesInv'
  BY <1>19, PathTypes, AtGoto DEF CommitFails, rows, Labels, BytesInv, RowsHaveBytes
<1>20. ASSUME NEW w \in Workers, CommitUncertain(w)
      PROVE  BytesInv'
  <2>1. CASE work[w].at = "created"
    <3>1. InsertFile(work[w].file, work[w].upload) /\ work[w].at \in Creating
      BY <1>20, <2>1 DEF CommitUncertain, Creating
    <3> QED BY <1>20, <2>1, <3>1, InCreate, Inserted, PathTypes, AtGoto DEF
       CommitUncertain, Labels, BytesInv, RowsHaveBytes, Rows, PathInv, Creating,
       Updating
  <2>2. CASE work[w].at = "updated"
    <3>1. ReplaceFile(work[w].file, work[w].path) /\ work[w].at \in Updating
      BY <1>20, <2>2 DEF CommitUncertain, Updating
    <3> QED BY <1>20, <2>2, <3>1, InUpdate, Replaced, PathTypes, AtGoto DEF
       CommitUncertain, Labels, BytesInv, RowsHaveBytes, Rows, PathInv, Creating,
       Updating
  <2> QED BY <1>20, <2>1, <2>2 DEF CommitUncertain
<1>21. ASSUME NEW w \in Workers, Undo(w)
      PROVE  BytesInv'
  <2>1. \A v \in Workers : work'[v].at \in {"created", "updated"} => work'[v].path \in disk'
    BY <1>21, PathTypes, AtLeave DEF Undo, BytesInv, PathInv, WorkInv, Rows, Creating,
       Updating, TypeOK, rows
  <2>2. \A g \in Blobs : file'[g] = "live" => path'[g] \in disk' \union uncertain'
    BY <1>21, PathTypes, AtLeave DEF Undo, BytesInv, RowsHaveBytes, PathInv, WorkInv,
       Rows, TypeOK, rows
  <2> QED BY <2>1, <2>2 DEF BytesInv, RowsHaveBytes
<1>22. ASSUME NEW w \in Workers, Crash(w)
      PROVE  BytesInv'
  BY <1>22, PathTypes, AtLeave DEF Crash, rows, BytesInv, RowsHaveBytes
<1>23. ASSUME NEW f \in Blobs, Retire(f)
      PROVE  BytesInv'
  BY <1>23, PathTypes DEF Retire, BytesInv, RowsHaveBytes, TypeOK
<1>24. ASSUME NEW f \in Blobs, PurgeFile(f)
      PROVE  BytesInv'
  <2>1. \A v \in Workers : work'[v].at \in {"created", "updated"} => work'[v].path \in disk'
    BY <1>24, PathTypes DEF PurgeFile, BytesInv, PathInv, WorkInv, Rows, Creating,
       Updating, TypeOK, rows
  <2>2. \A g \in Blobs : file'[g] = "live" => path'[g] \in disk' \union uncertain'
    BY <1>24, PathTypes DEF PurgeFile, BytesInv, RowsHaveBytes, PathInv, WorkInv, Rows,
       TypeOK, rows
  <2> QED BY <2>1, <2>2 DEF BytesInv, RowsHaveBytes
<1>25. ASSUME NEW p \in Blobs, Collect(p)
      PROVE  BytesInv'
  <2>1. \A v \in Workers : work'[v].at \in {"created", "updated"} => work'[v].path \in disk'
    BY <1>25, PathTypes DEF Collect, BytesInv, PathInv, WorkInv, Rows, Creating,
       Updating, TypeOK, rows
  <2>2. \A g \in Blobs : file'[g] = "live" => path'[g] \in disk' \union uncertain'
    BY <1>25, PathTypes DEF Collect, BytesInv, RowsHaveBytes, PathInv, WorkInv, Rows,
       TypeOK, rows
  <2> QED BY <2>1, <2>2 DEF BytesInv, RowsHaveBytes
<1>26. ASSUME PurgeFails
      PROVE  BytesInv'
  <2>1. \A v \in Workers : work'[v].at \in {"created", "updated"} => work'[v].path \in disk'
    BY <1>26, PathTypes DEF PurgeFails, BytesInv, PathInv, WorkInv, Rows, Creating,
       Updating, TypeOK, rows
  <2>2. \A g \in Blobs : file'[g] = "live" => path'[g] \in disk' \union uncertain'
    BY <1>26, PathTypes DEF PurgeFails, BytesInv, RowsHaveBytes, PathInv, WorkInv, Rows,
       TypeOK, rows
  <2> QED BY <2>1, <2>2 DEF BytesInv, RowsHaveBytes
<1>27. ASSUME Sweep
      PROVE  BytesInv'
  <2>1. \A v \in Workers : work'[v].at \in {"created", "updated"} => work'[v].path \in disk'
    BY <1>27, PathTypes DEF Sweep, BytesInv, PathInv, WorkInv, Rows, Creating, Updating,
       TypeOK, rows
  <2>2. \A g \in Blobs : file'[g] = "live" => path'[g] \in disk' \union uncertain'
    BY <1>27, PathTypes DEF Sweep, BytesInv, RowsHaveBytes, PathInv, WorkInv, Rows,
       TypeOK, rows
  <2> QED BY <2>1, <2>2 DEF BytesInv, RowsHaveBytes
<1> QED
  BY <1>0, <1>1, <1>2, <1>3, <1>4, <1>5, <1>6, <1>7, <1>8, <1>9, <1>10, <1>11,
     <1>12, <1>13, <1>14, <1>15, <1>16, <1>17, <1>18, <1>19, <1>20, <1>21,
     <1>22, <1>23, <1>24, <1>25, <1>26, <1>27
  DEF Next, Call, Receive, Clean

\* A reservation is not handed back or taken while bytes are received for it.
LEMMA UploadStep ==
    ASSUME TypeOK, WorkInv, UploadInv, [Next]_vars
    PROVE  UploadInv'
<1>0. CASE UNCHANGED vars
  BY <1>0 DEF UploadInv, vars, rows
<1>1. ASSUME NEW w \in Workers, 
             \/ BeginComplete(w) \/ BeginCreate(w) \/ EnterCreate(w)
             \/ RefuseCreate(w) \/ OpenFile(w) \/ EnterUpdate(w)
             \/ RefuseUpdate(w) \/ CommitUpdate(w) \/ CommitFails(w)
             \/ Crash(w)
      PROVE  UploadInv'
  BY <1>1 DEF BeginComplete, BeginCreate, EnterCreate, RefuseCreate, OpenFile,
     EnterUpdate, RefuseUpdate, CommitUpdate, CommitFails, Crash, rows, ReplaceFile,
     UploadInv
<1>2. ASSUME NEW f \in Blobs, Retire(f)
      PROVE  UploadInv'
  BY <1>2 DEF Retire, UploadInv
<1>3. ASSUME NEW u \in Uploads, BeginUpload(u)
      PROVE  UploadInv'
  BY <1>3, PathTypes DEF BeginUpload, UploadInv, TypeOK
<1>4. ASSUME NEW u \in Uploads, PutStart(u)
      PROVE  UploadInv'
  BY <1>4, PathTypes DEF PutStart, UploadInv, TypeOK
<1>5. ASSUME NEW u \in Uploads, PutReplace(u)
      PROVE  UploadInv'
  BY <1>5, PathTypes DEF PutReplace, rows, UploadInv, TypeOK
<1>6. ASSUME NEW u \in Uploads, PutFails(u)
      PROVE  UploadInv'
  BY <1>6, PathTypes DEF PutFails, rows, UploadInv, TypeOK
<1>7. ASSUME NEW u \in Uploads, PutReopen(u)
      PROVE  UploadInv'
  BY <1>7, PathTypes DEF PutReopen, UploadInv, TypeOK
<1>8. ASSUME NEW u \in Uploads, PutMark(u)
      PROVE  UploadInv'
  BY <1>8, PathTypes DEF PutMark, UploadInv, TypeOK
<1>9. ASSUME NEW u \in Uploads, PutAbandon(u)
      PROVE  UploadInv'
  BY <1>9, PathTypes DEF PutAbandon, rows, UploadInv, TypeOK
<1>10. ASSUME NEW u \in Uploads, PutDies(u)
      PROVE  UploadInv'
  BY <1>10, PathTypes DEF PutDies, rows, UploadInv, TypeOK
<1>11. ASSUME NEW u \in Uploads, Expire(u)
      PROVE  UploadInv'
  BY <1>11, PathTypes DEF Expire, rows, UploadInv
<1>12. ASSUME NEW u \in Uploads, PurgeUpload(u)
      PROVE  UploadInv'
  BY <1>12, PathTypes DEF PurgeUpload, UploadInv, TypeOK
<1>13. ASSUME NEW w \in Workers, Write(w)
      PROVE  UploadInv'
  <2>1. work[w].path \in Blobs
    BY <1>13, PathTypes DEF Write, WorkInv, Creating, Updating
  <2> QED BY <1>13, <2>1, PathTypes DEF Write, UploadInv, rows
<1>14. ASSUME NEW w \in Workers, WriteFails(w)
      PROVE  UploadInv'
  BY <1>14, PathTypes, AtLeave DEF WriteFails, rows, UploadInv
<1>15. ASSUME NEW w \in Workers, CommitCreate(w)
      PROVE  UploadInv'
  <2>1. InsertFile(work[w].file, work[w].upload) /\ work[w].at \in Creating
    BY <1>15 DEF CommitCreate, Creating
  <2> QED BY <1>15, <2>1, InCreate, Inserted, PathTypes, AtGoto, AtLeave DEF
     CommitCreate, Labels, UploadInv, TypeOK
<1>16. ASSUME NEW w \in Workers, Unstage(w)
      PROVE  UploadInv'
  BY <1>16, PathTypes, AtLeave DEF Unstage, rows, UploadInv, TypeOK, WorkInv, Creating,
     Updating
<1>17. ASSUME NEW w \in Workers, CommitUncertain(w)
      PROVE  UploadInv'
  <2>1. CASE work[w].at = "created"
    <3>1. InsertFile(work[w].file, work[w].upload) /\ work[w].at \in Creating
      BY <1>17, <2>1 DEF CommitUncertain, Creating
    <3> QED BY <1>17, <2>1, <3>1, InCreate, Inserted, PathTypes, AtGoto DEF
       CommitUncertain, Labels, UploadInv, TypeOK
  <2>2. CASE work[w].at = "updated"
    <3>1. ReplaceFile(work[w].file, work[w].path) /\ work[w].at \in Updating
      BY <1>17, <2>2 DEF CommitUncertain, Updating
    <3> QED BY <1>17, <2>2, <3>1, InUpdate, Replaced, PathTypes, AtGoto DEF
       CommitUncertain, Labels, UploadInv, TypeOK
  <2> QED BY <1>17, <2>1, <2>2 DEF CommitUncertain
<1>18. ASSUME NEW w \in Workers, Undo(w)
      PROVE  UploadInv'
  BY <1>18, PathTypes, AtLeave DEF Undo, rows, UploadInv
<1>19. ASSUME NEW f \in Blobs, PurgeFile(f)
      PROVE  UploadInv'
  BY <1>19, PathTypes DEF PurgeFile, UploadInv, TypeOK
<1>20. ASSUME NEW p \in Blobs, Collect(p)
      PROVE  UploadInv'
  BY <1>20, PathTypes DEF Collect, UploadInv
<1>21. ASSUME PurgeFails
      PROVE  UploadInv'
  BY <1>21, PathTypes DEF PurgeFails, rows, UploadInv, TypeOK
<1>22. ASSUME Reconcile
      PROVE  UploadInv'
  BY <1>22, PathTypes DEF Reconcile, Orphans, Named, rows, UploadInv
<1>23. ASSUME Sweep
      PROVE  UploadInv'
  BY <1>23, PathTypes DEF Sweep, rows, UploadInv
<1> QED
  BY <1>0, <1>1, <1>2, <1>3, <1>4, <1>5, <1>6, <1>7, <1>8, <1>9, <1>10, <1>11,
     <1>12, <1>13, <1>14, <1>15, <1>16, <1>17, <1>18, <1>19, <1>20, <1>21,
     <1>22, <1>23
  DEF Next, Call, Receive, Clean

-----------------------------------------------------------------------------
(* The quota *)

LEMMA Counted ==
    ASSUME TypeOK
    PROVE  /\ IsFiniteSet(Rows) /\ IsFiniteSet(gc) /\ IsFiniteSet(ReservedSet)
           /\ Cardinality(Rows) \in Nat /\ Cardinality(gc) \in Nat
           /\ \A e : /\ IsFiniteSet(ReservedSet \ {e})
                     /\ Cardinality(ReservedSet \ {e}) \in Nat
           /\ Cardinality(ReservedSet) \in Nat
<1>1. IsFiniteSet(Blobs)
  BY BoundsAssumption, FS_Interval DEF Blobs
<1>2. Rows \in SUBSET Blobs /\ gc \in SUBSET Blobs /\ ReservedSet \in SUBSET Uploads
  BY DEF TypeOK, Rows, ReservedSet
<1>3. IsFiniteSet(Rows) /\ IsFiniteSet(gc) /\ IsFiniteSet(ReservedSet)
  BY <1>1, <1>2, UploadsAssumption, FS_Subset
<1>4. \A e : IsFiniteSet(ReservedSet \ {e})
  BY <1>3, FS_RemoveElement
<1> QED
  BY <1>3, <1>4, FS_CardinalityType

\* What the transactions compute is what the invariant counts.
LEMMA UsedIsTaken ==
    ASSUME TypeOK, NEW e
    PROVE  Used(e) = Taken(ReservedSet \ {e}) /\ Used(None) = Taken(ReservedSet)
<1>1. {f \in Blobs : file[f] # "none"} = Rows
  BY DEF Rows
<1>2. \A d : {u \in Uploads \ {d} : Reserved(u)} = ReservedSet \ {d}
  BY DEF ReservedSet
<1>3. ReservedSet \ {None} = ReservedSet
  BY PathsAssumption DEF ReservedSet, Paths
<1>4. /\ Used(e) = Cardinality({f \in Blobs : file[f] # "none"}) + Cardinality(gc)
                    + Cardinality({u \in Uploads \ {e} : Reserved(u)})
      /\ Used(None) = Cardinality({f \in Blobs : file[f] # "none"}) + Cardinality(gc)
                    + Cardinality({u \in Uploads \ {None} : Reserved(u)})
  BY DEF Used
<1>5. Used(e) = Taken(ReservedSet \ {e})
  BY <1>1, <1>2, <1>4 DEF Taken
<1>6. Used(None) = Taken(ReservedSet)
  BY <1>1, <1>2, <1>3, <1>4 DEF Taken
<1> QED
  BY <1>5, <1>6

LEMMA AddOne ==
    ASSUME NEW S, NEW T, NEW x, IsFiniteSet(S), T = S \union {x}
    PROVE  Cardinality(T) <= Cardinality(S) + 1 /\ Cardinality(T) \in Nat
<1>1. IsFiniteSet(S \union {x})
      /\ Cardinality(S \union {x}) = IF x \in S THEN Cardinality(S) ELSE Cardinality(S) + 1
  BY FS_AddElement
<1>2. Cardinality(S) \in Nat
  BY FS_CardinalityType
<1> DEFINE n == Cardinality(S \union {x})
           m == Cardinality(S)
<1>3. m \in Nat /\ n = IF x \in S THEN m ELSE m + 1
  BY <1>1, <1>2
<1>4. Cardinality(T) = n /\ Cardinality(S) = m
  OBVIOUS
<1> HIDE DEF n, m
<1>5. n <= m + 1 /\ n \in Nat
  BY <1>3
<1> QED
  BY <1>4, <1>5

\* The three counts together.
LEMMA Sum ==
    ASSUME NEW a \in Nat, NEW b \in Nat, NEW c \in Nat,
           NEW x \in Nat, NEW y \in Nat, NEW z \in Nat, a <= x, b <= y, c <= z
    PROVE  a + b + c <= x + y + z /\ a + b + c \in Nat /\ x + y + z \in Nat
  OBVIOUS

\* A step that adds nothing and enters no transaction.
LEMMA Shrinks ==
    ASSUME TypeOK, QuotaInv, Rows' \subseteq Rows, gc' \subseteq gc,
           ReservedSet' \subseteq ReservedSet,
           \A v \in Workers :
              /\ work'[v].at \in Creating =>
                    work[v].at \in Creating /\ work'[v].upload = work[v].upload
              /\ work'[v].at \in Updating => work[v].at \in Updating
    PROVE  QuotaInv'
<1> DEFINE R == Rows
           S == ReservedSet
           Sum3(r, g, s) == Cardinality(r) + Cardinality(g) + Cardinality(s)
<1>1. ASSUME NEW s, NEW t, IsFiniteSet(t), s \subseteq t
      PROVE  /\ Sum3(R', gc', s) <= Sum3(R, gc, t)
             /\ Sum3(R', gc', s) \in Nat /\ Sum3(R, gc, t) \in Nat
  <2>1. /\ Cardinality(R') <= Cardinality(R) /\ Cardinality(gc') <= Cardinality(gc)
        /\ Cardinality(R') \in Nat /\ Cardinality(gc') \in Nat
        /\ Cardinality(R) \in Nat /\ Cardinality(gc) \in Nat
    BY Counted, FS_Subset, FS_CardinalityType
  <2>2. Cardinality(s) <= Cardinality(t) /\ Cardinality(s) \in Nat /\ Cardinality(t) \in Nat
    BY <1>1, FS_Subset, FS_CardinalityType
  <2> HIDE DEF R, S
  <2> QED BY <2>1, <2>2, Sum
<1>2. Taken(S)' = Sum3(R', gc', S') /\ Taken(S) = Sum3(R, gc, S)
  BY DEF Taken
<1>3. \A e : /\ Taken(S \ {e}) = Sum3(R, gc, S \ {e})
             /\ IsFiniteSet(S \ {e}) /\ S' \ {e} \subseteq S \ {e}
  BY Counted DEF Taken
<1>4. IsFiniteSet(S) /\ S' \subseteq S
  BY Counted
<1> HIDE DEF Sum3
<1>5. Taken(S)' <= Taken(S) /\ Taken(S)' \in Nat /\ Taken(S) \in Nat
  BY <1>1, <1>2, <1>4
<1>6. \A e : /\ Sum3(R', gc', S' \ {e}) <= Taken(S \ {e})
             /\ Sum3(R', gc', S' \ {e}) \in Nat /\ Taken(S \ {e}) \in Nat
  <2> TAKE e
  <2>1. IsFiniteSet(S \ {e}) /\ S' \ {e} \subseteq S \ {e} /\ Taken(S \ {e}) = Sum3(R, gc, S \ {e})
    BY <1>3
  <2> HIDE DEF R, S
  <2>2. /\ Sum3(R', gc', S' \ {e}) <= Sum3(R, gc, S \ {e})
        /\ Sum3(R', gc', S' \ {e}) \in Nat /\ Sum3(R, gc, S \ {e}) \in Nat
    BY <1>1, <2>1
  <2> QED BY <2>1, <2>2
<1>7. Taken(S)' <= Quota + 1
  BY <1>5, BoundsAssumption DEF QuotaInv
<1>8. ASSUME NEW v \in Workers, work'[v].at \in Creating
      PROVE  Sum3(R', gc', S' \ {work'[v].upload}) + 1 <= Quota
  <2>1. Taken(S \ {work[v].upload}) + 1 <= Quota /\ work'[v].upload = work[v].upload
    BY <1>8 DEF QuotaInv
  <2>2. /\ Sum3(R', gc', S' \ {work[v].upload}) <= Taken(S \ {work[v].upload})
        /\ Sum3(R', gc', S' \ {work[v].upload}) \in Nat
        /\ Taken(S \ {work[v].upload}) \in Nat
    BY <1>6
  <2> DEFINE n == Sum3(R', gc', S' \ {work[v].upload})
             m == Taken(S \ {work[v].upload})
  <2>3. Sum3(R', gc', S' \ {work'[v].upload}) = n
    BY <2>1
  <2>4. n <= m /\ n \in Nat /\ m \in Nat /\ m + 1 <= Quota
    BY <2>1, <2>2
  <2> HIDE DEF n, m
  <2>5. n + 1 <= Quota
    BY <2>4, BoundsAssumption
  <2> QED BY <2>3, <2>5
<1>9. ASSUME NEW v \in Workers, work'[v].at \in Updating
      PROVE  Taken(S)' <= Quota
  <2>1. Taken(S) <= Quota
    BY <1>9 DEF QuotaInv
  <2> HIDE DEF S
  <2> QED BY <1>5, <2>1, BoundsAssumption
<1> QED
  BY <1>7, <1>8, <1>9 DEF QuotaInv, Taken, Sum3

\* A transaction begins: it has counted.
LEMMA Enters ==
    ASSUME TypeOK, QuotaInv, NEW w \in Workers,
           Rows' = Rows, gc' = gc, ReservedSet' = ReservedSet,
           \A v \in Workers \ {w} : work'[v] = work[v],
           work'[w].at \in Creating =>
              Taken(ReservedSet \ {work'[w].upload}) + 1 <= Quota,
           work'[w].at \in Updating => Taken(ReservedSet) <= Quota
    PROVE  QuotaInv'
  BY DEF QuotaInv, Taken

\* Only the holder of the lock is in a transaction.
LEMMA NobodyElse ==
    ASSUME TypeOK, WorkInv, NEW w \in Workers \union {None}, lock = w
    PROVE  \A v \in Workers \ {w} : work[v].at \notin Creating \union Updating
  BY DEF WorkInv

\* A transaction is committed, or a reservation made: nobody is in one then.
LEMMA Grows ==
    ASSUME TypeOK, TypeOK', Taken(ReservedSet)' <= Quota + 1,
           \A v \in Workers : work'[v].at \notin Creating \union Updating
    PROVE  QuotaInv'
  BY DEF QuotaInv


\* Only a commit and a new reservation add to what is taken.
LEMMA QuotaStep ==
    ASSUME TypeOK, WorkInv, QuotaInv, [Next]_vars
    PROVE  QuotaInv'
<1>0. CASE UNCHANGED vars
  BY <1>0 DEF QuotaInv, Taken, ReservedSet, Reserved, Rows, vars, rows
<1>1. ASSUME NEW u \in Uploads, 
             \/ PutReplace(u) \/ PutFails(u) \/ PutAbandon(u) \/ PutDies(u)
             \/ Expire(u)
      PROVE  QuotaInv'
  BY <1>1 DEF PutReplace, PutFails, PutAbandon, PutDies, Expire, rows, QuotaInv, Taken,
     ReservedSet, Reserved, Rows
<1>2. ASSUME PurgeFails \/ Reconcile \/ Sweep
      PROVE  QuotaInv'
  BY <1>2 DEF PurgeFails, Reconcile, Sweep, rows, QuotaInv, Taken, ReservedSet,
     Reserved, Rows
<1>3. ASSUME NEW u \in Uploads, BeginUpload(u)
      PROVE  QuotaInv'
  <2>1. Taken(ReservedSet) + 1 <= Quota /\ lock = None
    BY <1>3, UsedIsTaken DEF BeginUpload
  <2>2. Rows' = Rows /\ gc' = gc /\ ReservedSet' = ReservedSet \union {u} /\ work' = work
    BY <1>3 DEF BeginUpload, Rows, ReservedSet, Reserved, TypeOK
  <2>3. Cardinality(ReservedSet') <= Cardinality(ReservedSet) + 1
        /\ Cardinality(ReservedSet') \in Nat
    BY <2>2, Counted, AddOne
  <2>4. Taken(ReservedSet)' <= Quota + 1
    <3> DEFINE r == Cardinality(Rows)
               g == Cardinality(gc)
               s == Cardinality(ReservedSet)
               n == Cardinality(ReservedSet')
    <3>1. r + g + s + 1 <= Quota /\ n <= s + 1 /\ {r, g, s, n} \subseteq Nat
      BY <2>1, <2>3, Counted DEF Taken
    <3>2. Taken(ReservedSet)' = r + g + n
      BY <2>2 DEF Taken
    <3> HIDE DEF r, g, s, n
    <3> QED BY <3>1, <3>2, BoundsAssumption
  <2>5. \A v \in Workers : work'[v].at \notin Creating \union Updating
    BY <2>1, <2>2, NobodyElse, PathTypes
  <2> QED BY <2>4, <2>5, <1>3, TypeStep, Grows
<1>4. ASSUME NEW u \in Uploads, PutStart(u)
      PROVE  QuotaInv'
  <2>1. Rows' \subseteq Rows /\ gc' \subseteq gc /\ ReservedSet' \subseteq ReservedSet
    BY <1>4 DEF PutStart, Reserved, Rows, ReservedSet, TypeOK
  <2>2. \A v \in Workers :
          /\ work'[v].at \in Creating =>
                work[v].at \in Creating /\ work'[v].upload = work[v].upload
          /\ work'[v].at \in Updating => work[v].at \in Updating
    BY <1>4 DEF PutStart, Creating, Updating
  <2> QED BY <2>1, <2>2, Shrinks
<1>5. ASSUME NEW u \in Uploads, PutReopen(u)
      PROVE  QuotaInv'
  <2>1. Rows' \subseteq Rows /\ gc' \subseteq gc /\ ReservedSet' \subseteq ReservedSet
    BY <1>5 DEF PutReopen, Reserved, Rows, ReservedSet, TypeOK
  <2>2. \A v \in Workers :
          /\ work'[v].at \in Creating =>
                work[v].at \in Creating /\ work'[v].upload = work[v].upload
          /\ work'[v].at \in Updating => work[v].at \in Updating
    BY <1>5 DEF PutReopen, Creating, Updating
  <2> QED BY <2>1, <2>2, Shrinks
<1>6. ASSUME NEW u \in Uploads, PutMark(u)
      PROVE  QuotaInv'
  <2>1. Rows' \subseteq Rows /\ gc' \subseteq gc /\ ReservedSet' \subseteq ReservedSet
    BY <1>6 DEF PutMark, Reserved, Rows, ReservedSet, TypeOK
  <2>2. \A v \in Workers :
          /\ work'[v].at \in Creating =>
                work[v].at \in Creating /\ work'[v].upload = work[v].upload
          /\ work'[v].at \in Updating => work[v].at \in Updating
    BY <1>6 DEF PutMark, Creating, Updating
  <2> QED BY <2>1, <2>2, Shrinks
<1>7. ASSUME NEW u \in Uploads, PurgeUpload(u)
      PROVE  QuotaInv'
  <2>1. Rows' \subseteq Rows /\ gc' \subseteq gc /\ ReservedSet' \subseteq ReservedSet
    BY <1>7 DEF PurgeUpload, Reserved, Rows, ReservedSet, TypeOK
  <2>2. \A v \in Workers :
          /\ work'[v].at \in Creating =>
                work[v].at \in Creating /\ work'[v].upload = work[v].upload
          /\ work'[v].at \in Updating => work[v].at \in Updating
    BY <1>7 DEF PurgeUpload, Creating, Updating
  <2> QED BY <2>1, <2>2, Shrinks
<1>8. ASSUME NEW w \in Workers, BeginComplete(w)
      PROVE  QuotaInv'
  <2>1. Rows' \subseteq Rows /\ gc' \subseteq gc /\ ReservedSet' \subseteq ReservedSet
    BY <1>8 DEF BeginComplete, rows, Reserved, Rows, ReservedSet, TypeOK
  <2>2. \A v \in Workers :
          /\ work'[v].at \in Creating =>
                work[v].at \in Creating /\ work'[v].upload = work[v].upload
          /\ work'[v].at \in Updating => work[v].at \in Updating
    BY <1>8, AtComplete DEF Creating, Updating
  <2> QED BY <2>1, <2>2, Shrinks
<1>9. ASSUME NEW w \in Workers, BeginCreate(w)
      PROVE  QuotaInv'
  <2>1. Rows' \subseteq Rows /\ gc' \subseteq gc /\ ReservedSet' \subseteq ReservedSet
    BY <1>9 DEF BeginCreate, rows, Reserved, Rows, ReservedSet, TypeOK
  <2>2. \A v \in Workers :
          /\ work'[v].at \in Creating =>
                work[v].at \in Creating /\ work'[v].upload = work[v].upload
          /\ work'[v].at \in Updating => work[v].at \in Updating
    BY <1>9, AtGoto DEF BeginCreate, Labels, Creating, Updating
  <2> QED BY <2>1, <2>2, Shrinks
<1>10. ASSUME NEW w \in Workers, EnterCreate(w)
      PROVE  QuotaInv'
  <2>1. /\ Taken(ReservedSet \ {work[w].upload}) + 1 <= Quota
        /\ UNCHANGED <<file, path, gc, upload>>
    BY <1>10, UsedIsTaken DEF EnterCreate, rows
  <2>2. Rows' = Rows /\ gc' = gc /\ ReservedSet' = ReservedSet
    BY <2>1 DEF Rows, ReservedSet, Reserved
  <2> QED BY <1>10, <2>1, <2>2, AtCreate, Enters DEF Creating, Updating
<1>11. ASSUME NEW w \in Workers, RefuseCreate(w)
      PROVE  QuotaInv'
  <2>1. Rows' \subseteq Rows /\ gc' \subseteq gc /\ ReservedSet' \subseteq ReservedSet
    BY <1>11 DEF RefuseCreate, Registers, rows, Reserved, Rows, ReservedSet, TypeOK
  <2>2. \A v \in Workers :
          /\ work'[v].at \in Creating =>
                work[v].at \in Creating /\ work'[v].upload = work[v].upload
          /\ work'[v].at \in Updating => work[v].at \in Updating
    BY <1>11, AtGoto, AtLeave DEF RefuseCreate, Registers, Labels, Creating, Updating
  <2> QED BY <2>1, <2>2, Shrinks
<1>12. ASSUME NEW w \in Workers, Write(w)
      PROVE  QuotaInv'
  <2>1. Rows' \subseteq Rows /\ gc' \subseteq gc /\ ReservedSet' \subseteq ReservedSet
    BY <1>12 DEF Write, rows, Reserved, Rows, ReservedSet, TypeOK
  <2>2. \A v \in Workers :
          /\ work'[v].at \in Creating =>
                work[v].at \in Creating /\ work'[v].upload = work[v].upload
          /\ work'[v].at \in Updating => work[v].at \in Updating
    BY <1>12, AtGoto DEF Write, Labels, Creating, Updating
  <2> QED BY <2>1, <2>2, Shrinks
<1>13. ASSUME NEW w \in Workers, WriteFails(w)
      PROVE  QuotaInv'
  <2>1. Rows' \subseteq Rows /\ gc' \subseteq gc /\ ReservedSet' \subseteq ReservedSet
    BY <1>13 DEF WriteFails, rows, Reserved, Rows, ReservedSet, TypeOK
  <2>2. \A v \in Workers :
          /\ work'[v].at \in Creating =>
                work[v].at \in Creating /\ work'[v].upload = work[v].upload
          /\ work'[v].at \in Updating => work[v].at \in Updating
    BY <1>13, AtLeave DEF WriteFails, Creating, Updating
  <2> QED BY <2>1, <2>2, Shrinks
<1>14. ASSUME NEW w \in Workers, CommitCreate(w)
      PROVE  QuotaInv'
  <2>1. /\ InsertFile(work[w].file, work[w].upload) /\ work[w].at \in Creating /\ lock = w
        /\ work'[w].at \in {"idle", "unstage", "undo"}
        /\ \A v \in Workers \ {w} : work'[v] = work[v]
    BY <1>14, InCreate, AtGoto, AtLeave DEF CommitCreate, Creating, Labels
  <2>2. /\ Rows' = Rows \union {work[w].file} /\ gc' = gc
        /\ ReservedSet' = ReservedSet \ {work[w].upload}
    BY <2>1, InCreate, Inserted, PathsAssumption DEF ReservedSet, Reserved, Paths
  <2>3. Cardinality(Rows') <= Cardinality(Rows) + 1 /\ Cardinality(Rows') \in Nat
    BY <2>2, Counted, AddOne
  <2>4. Taken(ReservedSet)' <= Quota + 1
    <3> DEFINE r == Cardinality(Rows)
               g == Cardinality(gc)
               s == Cardinality(ReservedSet \ {work[w].upload})
               n == Cardinality(Rows')
    <3>1. r + g + s + 1 <= Quota /\ n <= r + 1 /\ {r, g, s, n} \subseteq Nat
      BY <2>1, <2>3, Counted DEF QuotaInv, Taken
    <3>2. Taken(ReservedSet)' = n + g + s
      BY <2>2 DEF Taken
    <3> HIDE DEF r, g, s, n
    <3> QED BY <3>1, <3>2, BoundsAssumption
  <2>5. \A v \in Workers : work'[v].at \notin Creating \union Updating
    BY <2>1, NobodyElse DEF Creating, Updating
  <2> QED BY <2>4, <2>5, <1>14, TypeStep, Grows
<1>15. ASSUME NEW w \in Workers, Unstage(w)
      PROVE  QuotaInv'
  <2>1. Rows' \subseteq Rows /\ gc' \subseteq gc /\ ReservedSet' \subseteq ReservedSet
    BY <1>15 DEF Unstage, rows, Reserved, Rows, ReservedSet, TypeOK
  <2>2. \A v \in Workers :
          /\ work'[v].at \in Creating =>
                work[v].at \in Creating /\ work'[v].upload = work[v].upload
          /\ work'[v].at \in Updating => work[v].at \in Updating
    BY <1>15, AtLeave DEF Unstage, Creating, Updating
  <2> QED BY <2>1, <2>2, Shrinks
<1>16. ASSUME NEW w \in Workers, OpenFile(w)
      PROVE  QuotaInv'
  <2>1. Rows' \subseteq Rows /\ gc' \subseteq gc /\ ReservedSet' \subseteq ReservedSet
    BY <1>16 DEF OpenFile, rows, Reserved, Rows, ReservedSet, TypeOK
  <2>2. \A v \in Workers :
          /\ work'[v].at \in Creating =>
                work[v].at \in Creating /\ work'[v].upload = work[v].upload
          /\ work'[v].at \in Updating => work[v].at \in Updating
    BY <1>16, AtOpen DEF Creating, Updating
  <2> QED BY <2>1, <2>2, Shrinks
<1>17. ASSUME NEW w \in Workers, EnterUpdate(w)
      PROVE  QuotaInv'
  <2>1. Taken(ReservedSet) <= Quota /\ UNCHANGED <<file, path, gc, upload>>
    <3>1. Used(None) - 1 + 1 <= Quota /\ UNCHANGED <<file, path, gc, upload>>
      BY <1>17 DEF EnterUpdate, rows
    <3>2. Used(None) = Taken(ReservedSet)
      BY UsedIsTaken
    <3>3. Taken(ReservedSet) \in Int
      BY Counted DEF Taken
    <3> QED BY <3>1, <3>2, <3>3
  <2>2. Rows' = Rows /\ gc' = gc /\ ReservedSet' = ReservedSet
    BY <2>1 DEF Rows, ReservedSet, Reserved
  <2> QED BY <1>17, <2>1, <2>2, AtUpdate, Enters DEF Creating, Updating
<1>18. ASSUME NEW w \in Workers, RefuseUpdate(w)
      PROVE  QuotaInv'
  <2>1. Rows' \subseteq Rows /\ gc' \subseteq gc /\ ReservedSet' \subseteq ReservedSet
    BY <1>18 DEF RefuseUpdate, Unchanged, rows, Reserved, Rows, ReservedSet, TypeOK
  <2>2. \A v \in Workers :
          /\ work'[v].at \in Creating =>
                work[v].at \in Creating /\ work'[v].upload = work[v].upload
          /\ work'[v].at \in Updating => work[v].at \in Updating
    BY <1>18, AtLeave DEF RefuseUpdate, Unchanged, Creating, Updating
  <2> QED BY <2>1, <2>2, Shrinks
<1>19. ASSUME NEW w \in Workers, CommitUpdate(w)
      PROVE  QuotaInv'
  <2>1. /\ ReplaceFile(work[w].file, work[w].path) /\ work[w].at \in Updating /\ lock = w
        /\ work'[w].at \in {"idle", "undo"}
        /\ \A v \in Workers \ {w} : work'[v] = work[v]
    BY <1>19, InUpdate, AtLeave DEF CommitUpdate, Updating, Labels
  <2>2. /\ Rows' = Rows /\ gc' = gc \union {path[work[w].file]}
        /\ ReservedSet' = ReservedSet
    BY <2>1, InUpdate, Replaced DEF ReservedSet, Reserved
  <2>3. Cardinality(gc') <= Cardinality(gc) + 1 /\ Cardinality(gc') \in Nat
    BY <2>2, Counted, AddOne
  <2>4. Taken(ReservedSet)' <= Quota + 1
    <3> DEFINE r == Cardinality(Rows)
               g == Cardinality(gc)
               s == Cardinality(ReservedSet)
               n == Cardinality(gc')
    <3>1. r + g + s <= Quota /\ n <= g + 1 /\ {r, g, s, n} \subseteq Nat
      BY <2>1, <2>3, Counted DEF QuotaInv, Taken
    <3>2. Taken(ReservedSet)' = r + n + s
      BY <2>2 DEF Taken
    <3> HIDE DEF r, g, s, n
    <3> QED BY <3>1, <3>2, BoundsAssumption
  <2>5. \A v \in Workers : work'[v].at \notin Creating \union Updating
    BY <2>1, NobodyElse DEF Creating, Updating
  <2> QED BY <2>4, <2>5, <1>19, TypeStep, Grows
<1>20. ASSUME NEW w \in Workers, CommitFails(w)
      PROVE  QuotaInv'
  <2>1. Rows' \subseteq Rows /\ gc' \subseteq gc /\ ReservedSet' \subseteq ReservedSet
    BY <1>20 DEF CommitFails, rows, Reserved, Rows, ReservedSet, TypeOK
  <2>2. \A v \in Workers :
          /\ work'[v].at \in Creating =>
                work[v].at \in Creating /\ work'[v].upload = work[v].upload
          /\ work'[v].at \in Updating => work[v].at \in Updating
    BY <1>20, AtGoto DEF CommitFails, Labels, Creating, Updating
  <2> QED BY <2>1, <2>2, Shrinks
<1>21. ASSUME NEW w \in Workers, CommitUncertain(w)
      PROVE  QuotaInv'
  <2>1. CASE work[w].at = "created"
    <3>1. /\ InsertFile(work[w].file, work[w].upload) /\ work[w].at \in Creating /\ lock = w
          /\ work'[w].at \in {"idle", "unstage", "undo"}
          /\ \A v \in Workers \ {w} : work'[v] = work[v]
      BY <1>21, <2>1, InCreate, AtGoto DEF CommitUncertain, Creating, Labels
    <3>2. /\ Rows' = Rows \union {work[w].file} /\ gc' = gc
          /\ ReservedSet' = ReservedSet \ {work[w].upload}
      BY <3>1, InCreate, Inserted, PathsAssumption DEF ReservedSet, Reserved, Paths
    <3>3. Cardinality(Rows') <= Cardinality(Rows) + 1 /\ Cardinality(Rows') \in Nat
      BY <3>2, Counted, AddOne
    <3>4. Taken(ReservedSet)' <= Quota + 1
      <4> DEFINE r == Cardinality(Rows)
                 g == Cardinality(gc)
                 s == Cardinality(ReservedSet \ {work[w].upload})
                 n == Cardinality(Rows')
      <4>1. r + g + s + 1 <= Quota /\ n <= r + 1 /\ {r, g, s, n} \subseteq Nat
        BY <3>1, <3>3, Counted DEF QuotaInv, Taken
      <4>2. Taken(ReservedSet)' = n + g + s
        BY <3>2 DEF Taken
      <4> HIDE DEF r, g, s, n
      <4> QED BY <4>1, <4>2, BoundsAssumption
    <3>5. \A v \in Workers : work'[v].at \notin Creating \union Updating
      BY <3>1, NobodyElse DEF Creating, Updating
    <3> QED BY <3>4, <3>5, <1>21, TypeStep, Grows
  <2>2. CASE work[w].at = "updated"
    <3>1. /\ ReplaceFile(work[w].file, work[w].path) /\ work[w].at \in Updating /\ lock = w
          /\ work'[w].at \in {"idle", "undo"}
          /\ \A v \in Workers \ {w} : work'[v] = work[v]
      BY <1>21, <2>2, InUpdate, AtGoto DEF CommitUncertain, Updating, Labels
    <3>2. /\ Rows' = Rows /\ gc' = gc \union {path[work[w].file]}
          /\ ReservedSet' = ReservedSet
      BY <3>1, InUpdate, Replaced DEF ReservedSet, Reserved
    <3>3. Cardinality(gc') <= Cardinality(gc) + 1 /\ Cardinality(gc') \in Nat
      BY <3>2, Counted, AddOne
    <3>4. Taken(ReservedSet)' <= Quota + 1
      <4> DEFINE r == Cardinality(Rows)
                 g == Cardinality(gc)
                 s == Cardinality(ReservedSet)
                 n == Cardinality(gc')
      <4>1. r + g + s <= Quota /\ n <= g + 1 /\ {r, g, s, n} \subseteq Nat
        BY <3>1, <3>3, Counted DEF QuotaInv, Taken
      <4>2. Taken(ReservedSet)' = r + n + s
        BY <3>2 DEF Taken
      <4> HIDE DEF r, g, s, n
      <4> QED BY <4>1, <4>2, BoundsAssumption
    <3>5. \A v \in Workers : work'[v].at \notin Creating \union Updating
      BY <3>1, NobodyElse DEF Creating, Updating
    <3> QED BY <3>4, <3>5, <1>21, TypeStep, Grows
  <2> QED BY <1>21, <2>1, <2>2 DEF CommitUncertain
<1>22. ASSUME NEW w \in Workers, Undo(w)
      PROVE  QuotaInv'
  <2>1. Rows' \subseteq Rows /\ gc' \subseteq gc /\ ReservedSet' \subseteq ReservedSet
    BY <1>22 DEF Undo, rows, Reserved, Rows, ReservedSet, TypeOK
  <2>2. \A v \in Workers :
          /\ work'[v].at \in Creating =>
                work[v].at \in Creating /\ work'[v].upload = work[v].upload
          /\ work'[v].at \in Updating => work[v].at \in Updating
    BY <1>22, AtLeave DEF Undo, Creating, Updating
  <2> QED BY <2>1, <2>2, Shrinks
<1>23. ASSUME NEW w \in Workers, Crash(w)
      PROVE  QuotaInv'
  <2>1. Rows' \subseteq Rows /\ gc' \subseteq gc /\ ReservedSet' \subseteq ReservedSet
    BY <1>23 DEF Crash, rows, Reserved, Rows, ReservedSet, TypeOK
  <2>2. \A v \in Workers :
          /\ work'[v].at \in Creating =>
                work[v].at \in Creating /\ work'[v].upload = work[v].upload
          /\ work'[v].at \in Updating => work[v].at \in Updating
    BY <1>23, AtLeave DEF Crash, Creating, Updating
  <2> QED BY <2>1, <2>2, Shrinks
<1>24. ASSUME NEW f \in Blobs, Retire(f)
      PROVE  QuotaInv'
  <2>1. Rows' \subseteq Rows /\ gc' \subseteq gc /\ ReservedSet' \subseteq ReservedSet
    BY <1>24 DEF Retire, Reserved, Rows, ReservedSet, TypeOK
  <2>2. \A v \in Workers :
          /\ work'[v].at \in Creating =>
                work[v].at \in Creating /\ work'[v].upload = work[v].upload
          /\ work'[v].at \in Updating => work[v].at \in Updating
    BY <1>24 DEF Retire, Creating, Updating
  <2> QED BY <2>1, <2>2, Shrinks
<1>25. ASSUME NEW f \in Blobs, PurgeFile(f)
      PROVE  QuotaInv'
  <2>1. Rows' \subseteq Rows /\ gc' \subseteq gc /\ ReservedSet' \subseteq ReservedSet
    BY <1>25 DEF PurgeFile, Reserved, Rows, ReservedSet, TypeOK
  <2>2. \A v \in Workers :
          /\ work'[v].at \in Creating =>
                work[v].at \in Creating /\ work'[v].upload = work[v].upload
          /\ work'[v].at \in Updating => work[v].at \in Updating
    BY <1>25 DEF PurgeFile, Creating, Updating
  <2> QED BY <2>1, <2>2, Shrinks
<1>26. ASSUME NEW p \in Blobs, Collect(p)
      PROVE  QuotaInv'
  <2>1. Rows' \subseteq Rows /\ gc' \subseteq gc /\ ReservedSet' \subseteq ReservedSet
    BY <1>26 DEF Collect, Reserved, Rows, ReservedSet, TypeOK
  <2>2. \A v \in Workers :
          /\ work'[v].at \in Creating =>
                work[v].at \in Creating /\ work'[v].upload = work[v].upload
          /\ work'[v].at \in Updating => work[v].at \in Updating
    BY <1>26 DEF Collect, Creating, Updating
  <2> QED BY <2>1, <2>2, Shrinks
<1> QED
  BY <1>0, <1>1, <1>2, <1>3, <1>4, <1>5, <1>6, <1>7, <1>8, <1>9, <1>10, <1>11,
     <1>12, <1>13, <1>14, <1>15, <1>16, <1>17, <1>18, <1>19, <1>20, <1>21,
     <1>22, <1>23, <1>24, <1>25, <1>26
  DEF Next, Call, Receive, Clean
-----------------------------------------------------------------------------
(* The theorems *)

LEMMA InitHolds == Init => IInv
<1> SUFFICES ASSUME Init
             PROVE  IInv
  OBVIOUS
<1>1. TypeOK
  BY BoundsAssumption DEF Init, TypeOK, Calls, Labels, Rest
<1>2. Rows = {} /\ gc = {} /\ ReservedSet = {}
  BY DEF Init, Rows, ReservedSet, Reserved
<1>3. \A w \in Workers : work[w].at = "idle" /\ work[w].path = None
  BY DEF Init, Rest
<1>4. MintInv /\ WorkInv /\ PathInv /\ BytesInv /\ UploadInv
  BY <1>2, <1>3, PathsAssumption
  DEF Init, MintInv, WorkInv, PathInv, BytesInv, RowsHaveBytes, UploadInv,
      Creating, Updating, Rows
<1>5. QuotaInv
  BY <1>2, <1>3, FS_EmptySet, BoundsAssumption DEF QuotaInv, Taken, Creating, Updating
<1> QED
  BY <1>1, <1>4, <1>5 DEF IInv

\* The inductive invariant holds.
THEOREM Invariance == Spec => []IInv
<1>1. IInv /\ [Next]_vars => IInv'
  BY TypeStep, MintStep, WorkStep, PathStep, BytesStep, UploadStep, QuotaStep DEF IInv
<1> QED
  BY InitHolds, <1>1, PTL DEF Spec

\* Every variable keeps its type.
THEOREM TypeCorrect == Spec => []TypeOK
<1>1. IInv => TypeOK
  BY DEF IInv
<1> QED
  BY <1>1, Invariance, PTL

\* The bytes of a live file are there, unless the commit that named them seemed
\* to fail.
THEOREM BytesAreThere == Spec => []RowsHaveBytes
<1>1. IInv => RowsHaveBytes
  BY DEF IInv, BytesInv
<1> QED
  BY <1>1, Invariance, PTL

\* The bytes of a reservation marked as uploaded are there until it expires.
THEOREM UploadsAreThere == Spec => []UploadedHasBytes
<1>1. IInv => UploadedHasBytes
  BY DEF IInv, UploadInv, UploadedHasBytes
<1> QED
  BY <1>1, Invariance, PTL

\* What is on disk for a row and what is reserved stay within the quota, save
\* for one replaced version.
THEOREM QuotaIsKept == Spec => []QuotaKept
<1>1. IInv => QuotaKept
  <2> SUFFICES ASSUME IInv
               PROVE  QuotaKept
    OBVIOUS
  <2>1. TypeOK /\ Taken(ReservedSet) <= Quota + 1
    BY DEF IInv, QuotaInv
  <2> DEFINE P == {path[f] : f \in Rows}
             D == disk \intersect (P \union gc)
  <2>2. IsFiniteSet(P) /\ Cardinality(P) <= Cardinality(Rows)
    <3> DEFINE F == [f \in Rows |-> path[f]]
    <3>1. F \in Surjection(Rows, P)
      BY DEF Surjection
    <3> QED BY <2>1, <3>1, Counted, FS_Surjection
  <2>3. /\ IsFiniteSet(P \union gc)
        /\ Cardinality(P \union gc) <= Cardinality(P) + Cardinality(gc)
        /\ Cardinality(P) \in Nat
    <3> HIDE DEF P
    <3>1. IsFiniteSet(P) /\ IsFiniteSet(gc)
      BY <2>1, <2>2, Counted
    <3>2. IsFiniteSet(P \intersect gc) /\ Cardinality(P \intersect gc) \in Nat
      BY <3>1, FS_Intersection, FS_CardinalityType
    <3>3. /\ IsFiniteSet(P \union gc)
          /\ Cardinality(P \union gc) =
                Cardinality(P) + Cardinality(gc) - Cardinality(P \intersect gc)
      BY <3>1, FS_Union
    <3>4. Cardinality(P) \in Nat /\ Cardinality(gc) \in Nat
      BY <3>1, FS_CardinalityType
    <3> QED BY <3>2, <3>3, <3>4
  <2>4. Cardinality(D) <= Cardinality(P \union gc) /\ Cardinality(D) \in Nat
    <3>1. D \in SUBSET (P \union gc)
      OBVIOUS
    <3> HIDE DEF D, P
    <3> QED BY <2>3, <3>1, FS_Subset, FS_CardinalityType
  <2>5. Cardinality(P \union gc) \in Nat
    BY <2>3, FS_CardinalityType
  <2>6. QuotaKept <=> Cardinality(D) + Cardinality(ReservedSet) <= Quota + 1
    BY DEF QuotaKept, ReservedSet, Rows
  <2>7. Cardinality(D) + Cardinality(ReservedSet) <= Quota + 1
    <3>1. /\ Cardinality(Rows) \in Nat /\ Cardinality(gc) \in Nat
          /\ Cardinality(ReservedSet) \in Nat
      BY <2>1, Counted
    <3>2. Cardinality(Rows) + Cardinality(gc) + Cardinality(ReservedSet) <= Quota + 1
      BY <2>1 DEF Taken
    <3> HIDE DEF D, P
    <3> DEFINE d == Cardinality(D)
               p == Cardinality(P)
               b == Cardinality(P \union gc)
               r == Cardinality(Rows)
               g == Cardinality(gc)
               s == Cardinality(ReservedSet)
    <3>3. /\ r \in Nat /\ g \in Nat /\ s \in Nat /\ d \in Nat /\ p \in Nat /\ b \in Nat
          /\ r + g + s <= Quota + 1 /\ d <= b /\ b <= p + g /\ p <= r
      BY <2>2, <2>3, <2>4, <2>5, <3>1, <3>2
    <3> HIDE DEF d, p, b, r, g, s
    <3>4. d + s <= Quota + 1
      BY <3>3, BoundsAssumption
    <3> QED BY <3>4 DEF d, s
  <2> QED BY <2>6, <2>7
<1> QED
  BY <1>1, Invariance, PTL

\* What a step may do to paths and to the results of uploads.
LEMMA RowSteps ==
    ASSUME TypeOK, WorkInv, [Next]_vars
    PROVE  \/ UNCHANGED <<path, result>>
           \/ \E w \in Workers : /\ work[w].at \in Creating
                                 /\ InsertFile(work[w].file, work[w].upload)
           \/ \E w \in Workers : /\ work[w].at \in Updating
                                 /\ ReplaceFile(work[w].file, work[w].path)
           \/ /\ UNCHANGED path
              /\ \E f \in Blobs :
                    result' = [u \in Uploads |-> IF result[u] = f THEN None ELSE result[u]]
<1>0. CASE UNCHANGED vars
  BY <1>0 DEF vars, rows
<1>1. ASSUME NEW u \in Uploads,
             \/ BeginUpload(u) \/ PutStart(u) \/ PutReplace(u) \/ PutFails(u)
             \/ PutReopen(u) \/ PutMark(u) \/ PutAbandon(u) \/ PutDies(u)
             \/ Expire(u) \/ PurgeUpload(u)
      PROVE  UNCHANGED <<path, result>>
  BY <1>1 DEF BeginUpload, PutStart, PutReplace, PutFails, PutReopen, PutMark,
     PutAbandon, PutDies, Expire, PurgeUpload, rows
<1>2. ASSUME NEW w \in Workers,
             \/ BeginComplete(w) \/ BeginCreate(w) \/ EnterCreate(w)
             \/ RefuseCreate(w) \/ Write(w) \/ WriteFails(w) \/ Unstage(w)
             \/ OpenFile(w) \/ EnterUpdate(w) \/ RefuseUpdate(w)
             \/ CommitFails(w) \/ Undo(w) \/ Crash(w)
      PROVE  UNCHANGED <<path, result>>
  BY <1>2 DEF BeginComplete, BeginCreate, EnterCreate, RefuseCreate, Write,
     WriteFails, Unstage, OpenFile, EnterUpdate, RefuseUpdate, CommitFails, Undo,
     Crash, rows
<1>3. ASSUME NEW f \in Blobs,
             Retire(f)
      PROVE  UNCHANGED <<path, result>>
  BY <1>3 DEF Retire, rows
<1>4. ASSUME NEW p \in Blobs,
             Collect(p)
      PROVE  UNCHANGED <<path, result>>
  BY <1>4 DEF Collect, rows
<1>5. ASSUME \/ PurgeFails \/ Reconcile \/ Sweep
      PROVE  UNCHANGED <<path, result>>
  BY <1>5 DEF PurgeFails, Reconcile, Sweep, rows
<1>6. ASSUME NEW w \in Workers, CommitCreate(w) \/ CommitUncertain(w) \/ CommitUpdate(w)
      PROVE  \/ work[w].at \in Creating /\ InsertFile(work[w].file, work[w].upload)
             \/ work[w].at \in Updating /\ ReplaceFile(work[w].file, work[w].path)
  BY <1>6 DEF CommitCreate, CommitUncertain, CommitUpdate, Creating, Updating
<1>7. ASSUME NEW f \in Blobs, PurgeFile(f)
      PROVE  /\ UNCHANGED path
             /\ result' = [u \in Uploads |-> IF result[u] = f THEN None ELSE result[u]]
  BY <1>7 DEF PurgeFile
<1> QED
  BY <1>0, <1>1, <1>2, <1>3, <1>4, <1>5, <1>6, <1>7 DEF Next, Call, Receive, Clean

\* An upload that stays complete keeps its file, until that is purged.
THEOREM UploadsRegisterOnce == Spec => OneFilePerUpload
<1>1. IInv /\ [Next]_vars =>
        \A u \in Uploads : upload[u] = "complete" /\ upload'[u] = "complete"
            => result'[u] \in {result[u], None}
  <2> SUFFICES ASSUME IInv, [Next]_vars, NEW u \in Uploads, upload[u] = "complete"
               PROVE  result'[u] \in {result[u], None}
    OBVIOUS
  <2>1. TypeOK /\ WorkInv
    BY DEF IInv
  <2>2. ASSUME NEW w \in Workers, work[w].at \in Creating,
               InsertFile(work[w].file, work[w].upload)
        PROVE  result'[u] \in {result[u], None}
    <3>1. work[w].upload # u
      BY <2>1, <2>2, InCreate, PathsAssumption DEF Paths
    <3> QED BY <2>1, <2>2, <3>1, InCreate, Inserted
  <2>3. ASSUME NEW w \in Workers, ReplaceFile(work[w].file, work[w].path)
        PROVE  result'[u] \in {result[u], None}
    BY <2>3 DEF ReplaceFile
  <2> QED BY <2>1, <2>2, <2>3, RowSteps
<1> QED
  BY <1>1, Invariance, PTL DEF Spec, OneFilePerUpload

\* An update replaces the version its caller has read.
THEOREM NoUpdateIsLost == Spec => NoLostUpdate
<1>1. IInv /\ [Next]_vars =>
        \A f \in Blobs : path'[f] # path[f] /\ file[f] # "none" =>
          \E w \in Workers : work[w].file = f /\ work[w].path = path'[f]
                               /\ work[w].base = path[f]
  <2> SUFFICES ASSUME IInv, [Next]_vars, NEW f \in Blobs,
                      path'[f] # path[f], file[f] # "none"
               PROVE  \E w \in Workers : work[w].file = f /\ work[w].path = path'[f]
                                           /\ work[w].base = path[f]
    OBVIOUS
  <2>1. TypeOK /\ WorkInv
    BY DEF IInv
  <2>2. ASSUME NEW w \in Workers, work[w].at \in Creating,
               InsertFile(work[w].file, work[w].upload)
        PROVE  FALSE
    BY <2>1, <2>2, InCreate, Inserted DEF Rows
  <2>3. ASSUME NEW w \in Workers, work[w].at \in Updating,
               ReplaceFile(work[w].file, work[w].path)
        PROVE  work[w].file = f /\ work[w].path = path'[f] /\ work[w].base = path[f]
    BY <2>1, <2>3, InUpdate, Replaced
  <2> QED BY <2>1, <2>2, <2>3, RowSteps
<1> QED
  BY <1>1, Invariance, PTL DEF Spec, NoLostUpdate

=============================================================================
