---------------------------- MODULE StorageProofs ----------------------------
(***************************************************************************)
(* TLAPS proofs about artifact storage: StorageInvariant is inductive,     *)
(* hence the safety properties of uploads, credentials and cleanup hold    *)
(* for any students, boards, passwords, uploads at a time and bounds.      *)
(***************************************************************************)
EXTENDS StorageInvariant, FiniteSetTheorems, WellFoundedInduction, TLAPS

-----------------------------------------------------------------------------
(* Numbers: the greatest of a bounded set, and counting artifact ids.      *)

\* A set of natural numbers that is not empty has a least element.
LEMMA LeastElement ==
  ASSUME NEW S \in SUBSET Nat, S # {}
  PROVE  \E n \in S : \A m \in S : n <= m
<1> DEFINE R == {ss \in Nat \X Nat : ss[1] < ss[2]}
<1>1. IsWellFoundedOn(R, Nat)
  BY NatLessThanWellFounded DEF OpToRel
<1> HIDE DEF R
<1>2. PICK n \in S : \A m \in S : ~(<<m, n>> \in R)
  BY <1>1, WFMin
<1>3. ASSUME NEW m \in S PROVE n <= m
  <2>1. n \in Nat /\ m \in Nat
    OBVIOUS
  <2>2. m < n => <<m, n>> \in R
    BY <2>1 DEF R
  <2> QED BY <1>2, <2>1, <2>2
<1> QED BY <1>3

\* A bounded one has a greatest element: the least of its bounds.
LEMMA GreatestElement ==
  ASSUME NEW S \in SUBSET Nat, S # {}, NEW top \in Nat, \A m \in S : m <= top
  PROVE  \E n \in S : \A m \in S : m <= n
<1> DEFINE Bounds == {n \in Nat : \A m \in S : m <= n}
<1>1. PICK n \in Bounds : \A k \in Bounds : n <= k
  <2>1. Bounds \in SUBSET Nat /\ top \in Bounds
    OBVIOUS
  <2> HIDE DEF Bounds
  <2> QED BY <2>1, LeastElement
<1>2. n \in S
  <2> SUFFICES ASSUME n \notin S PROVE FALSE
    OBVIOUS
  <2>1. PICK m \in S : TRUE
    OBVIOUS
  <2>2. m \in Nat /\ m <= n /\ m # n
    BY <1>1
  <2>3. n - 1 \in Nat
    BY <1>1, <2>2
  <2>4. \A k \in S : k <= n - 1
    BY <1>1
  <2> QED BY <1>1, <2>3, <2>4
<1> QED BY <1>1, <1>2

LEMMA IdSets ==
  ASSUME NEW A \in SUBSET Ids
  PROVE  /\ IsFiniteSet(A) /\ Cardinality(A) \in Nat /\ Cardinality(A) <= MaxUploads
         /\ \A B \in SUBSET A : Cardinality(B) <= Cardinality(A)
<1>1. MaxUploads \in Nat
  BY StorageBounds
<1>2. IsFiniteSet(Ids) /\ Cardinality(Ids) = MaxUploads
  BY <1>1, FS_Interval DEF Ids
<1>3. IsFiniteSet(A) /\ Cardinality(A) <= MaxUploads
  BY <1>2, FS_Subset
<1>4. Cardinality(A) \in Nat
  BY <1>3, FS_CardinalityType
<1>5. \A B \in SUBSET A : Cardinality(B) <= Cardinality(A)
  BY <1>3, FS_Subset
<1> QED BY <1>3, <1>4, <1>5

LEMMA LeavesOneOut ==
  ASSUME NEW A \in SUBSET Ids, NEW i \in Ids, i \notin A
  PROVE  Cardinality(A) < MaxUploads
<1>1. IsFiniteSet(A) /\ Cardinality(A) \in Nat
  BY IdSets
<1>2. Cardinality(A \cup {i}) = Cardinality(A) + 1
  BY <1>1, FS_AddElement
<1>3. Cardinality(A \cup {i}) <= MaxUploads
  BY IdSets
<1> QED BY <1>1, <1>2, <1>3, StorageBounds

-----------------------------------------------------------------------------
(* What the queries of the tables return.                                  *)

\* max(created_at) over the READY artifacts of a student.
LEMMA NewestIsReady ==
  ASSUME TypeOK, NEW s \in Students
  PROVE  NewestReady(s) \in ReadyOf(s) \cup {0}
<1> SUFFICES ASSUME ReadyOf(s) # {} PROVE NewestReady(s) \in ReadyOf(s)
  BY DEF NewestReady
<1> DEFINE C == {rows[a].created : a \in ReadyOf(s)}
<1>1. ReadyOf(s) \subseteq Ids
  BY DEF ReadyOf, RowsOf
<1>2. \A a \in Ids : rows[a].created \in Nat /\ rows[a].created <= MaxUploads
  BY StorageBounds DEF TypeOK, Row
<1>3. C \in SUBSET Nat /\ C # {} /\ \A n \in C : n <= MaxUploads
  BY <1>1, <1>2
<1>4. PICK n \in C : \A m \in C : m <= n
  <2> HIDE DEF C
  <2> QED BY <1>3, GreatestElement, StorageBounds
<1>5. PICK a \in ReadyOf(s) : n = rows[a].created
  BY <1>4
<1>6. \A c \in ReadyOf(s) : rows[c].created <= rows[a].created
  BY <1>4, <1>5
<1> QED BY <1>5, <1>6 DEF NewestReady

\* max(version) over some rows.
LEMMA HighestIsBound ==
  ASSUME TypeOK, NEW A \in SUBSET Ids
  PROVE  /\ HighestOf(A) \in {0} \cup {rows[a].version : a \in A}
         /\ HighestOf(A) \in Nat
         /\ \A a \in A : rows[a].version <= HighestOf(A)
<1> DEFINE V == {0} \cup {rows[a].version : a \in A}
<1>1. \A a \in Ids : rows[a].version \in Nat /\ rows[a].version <= MaxUploads
  BY StorageBounds DEF TypeOK, Row
<1>2. V \in SUBSET Nat /\ V # {} /\ \A n \in V : n <= MaxUploads
  BY <1>1, StorageBounds
<1>3. PICK n \in V : \A m \in V : m <= n
  <2> HIDE DEF V
  <2> QED BY <1>2, GreatestElement, StorageBounds
<1>4. \A a \in A : rows[a].version <= n
  BY <1>3
<1>5. HighestOf(A) \in V /\ \A a \in A : rows[a].version <= HighestOf(A)
  BY <1>3, <1>4 DEF HighestOf
<1> QED BY <1>2, <1>5

\* _next_version: a new version, and no greater than the id that is drawn with it.
LEMMA NextVersionFacts ==
  ASSUME TypeOK, NEW s \in Students
  PROVE  /\ NextVersion(s) \in Nat /\ ~VersionTaken(s)
         /\ \A d \in Nat : (/\ d # 0
                            /\ \A a \in RowsOf(s) : rows[a].version < d) => NextVersion(s) <= d
<1> DEFINE h == HighestOf(RowsOf(s))
<1>1. RowsOf(s) \in SUBSET Ids
  BY DEF RowsOf
<1>2. /\ h \in {0} \cup {rows[a].version : a \in RowsOf(s)} /\ h \in Nat
      /\ \A a \in RowsOf(s) : rows[a].version <= h
  BY <1>1, HighestIsBound
<1>3. \A a \in RowsOf(s) : rows[a].version \in Nat
  BY <1>1, StorageBounds DEF TypeOK, Row
<1>4. NextVersion(s) = h + 1
  BY DEF NextVersion
<1> HIDE DEF h
<1>5. ~VersionTaken(s)
  BY <1>2, <1>3, <1>4 DEF VersionTaken
<1>6. ASSUME NEW d \in Nat, d # 0, \A a \in RowsOf(s) : rows[a].version < d
      PROVE  h + 1 <= d
  <2>1. CASE h = 0
    BY <1>6, <2>1
  <2>2. CASE \E a \in RowsOf(s) : h = rows[a].version
    BY <1>2, <1>6, <2>2
  <2> QED BY <1>2, <2>1, <2>2
<1> QED BY <1>2, <1>4, <1>5, <1>6

LEMMA EmptyRecords == NoUpload \in Upload /\ NoCleanup \in Cleanup /\ NoRow \in Row
  BY StorageBounds DEF NoUpload, Upload, NoCleanup, Cleanup, NoRow, Row

\* What the loop being free says of every task.
LEMMA LoopFree ==
  ASSUME StorageInvariant, EventLoopFree
  PROVE  /\ cleanup.pc \in {"idle", "lock"}
         /\ \A u \in Uploaders : upload[u].pc \in {"idle", "save"} /\ upload[u].id = 0
  BY DEF StorageInvariant, EventLoopFree, UploadFacts

\* Any artifact that may be deployed is whole, unless one is just being removed.
LEMMA ReadyHasFiles ==
  ASSUME FilesMatchRows, NEW a \in Ids, rows[a].status = "READY",
         cleanup.pc # "removed" \/ cleanup.target # a
  PROVE  a \in files \/ a \in damaged
  BY DEF FilesMatchRows

LEMMA NoNewOrphans ==
  ASSUME StorageInvariant, Orphans' \subseteq Orphans, crashes' = crashes
  PROVE  Cardinality(Orphans') <= crashes'
<1> USE DEF StorageInvariant
<1>1. Orphans \in SUBSET Ids
  BY DEF Orphans, TypeOK
<1>2. Cardinality(Orphans') <= Cardinality(Orphans)
  BY <1>1, IdSets
<1>3. Cardinality(Orphans') \in Nat /\ Cardinality(Orphans) \in Nat /\ crashes \in Nat
  BY <1>1, IdSets, StorageBounds DEF TypeOK
<1> QED BY <1>2, <1>3 DEF FilesMatchRows

-----------------------------------------------------------------------------
(* Steps by what they change. An upload or another process that touches    *)
(* credentials and its own place only:                                     *)

LEMMA UploadStep ==
  ASSUME StorageInvariant, NEW u \in Uploaders, NEW r \in Upload,
         upload' = [upload EXCEPT ![u] = r],
         upload[u].id = 0, r.id = 0, r.pc # "publish",
         r.pc # "idle" => r.student \in Students,
         r.pc = "claim" => r.password \in Passwords,
         r.pc = "claim" => EventLoopFree,
         credential' \in [Students -> Passwords \cup {None}],
         UNCHANGED <<store, users, cleanup, bounds>>
  PROVE  StorageInvariant'
<1> USE DEF StorageInvariant, store, users, bounds
<1>1. /\ upload' \in [Uploaders -> Upload] /\ upload'[u] = r
      /\ \A v \in Uploaders \ {u} : upload'[v] = upload[v]
  BY DEF TypeOK
<1>2. TypeOK'
  BY <1>1 DEF TypeOK
<1>3. RowsAreDrawn'
  BY DEF RowsAreDrawn
<1>4. \A v \in Uploaders : UploadFacts(v)'
  BY <1>1 DEF UploadFacts
<1>5. OneTaskRuns'
  <2>1. CASE r.pc = "claim"
    BY <1>1, <2>1 DEF OneTaskRuns, EventLoopFree
  <2>2. CASE r.pc # "claim"
    <3>1. r.pc \in {"idle", "save"}
      BY <2>2 DEF Upload
    <3> QED BY <1>1, <3>1 DEF OneTaskRuns
  <2> QED BY <2>1, <2>2
<1>6. CleanupFacts'
  BY DEF CleanupFacts, InUse
<1>7. FilesMatchRows'
  <2>1. \A a \in Ids : (\A v \in Uploaders : upload'[v].id # a)
                         <=> (\A v \in Uploaders : upload[v].id # a)
    BY <1>1 DEF Ids
  <2>2. Orphans' = Orphans
    <3>1. files \subseteq Ids
      BY DEF TypeOK
    <3> QED BY <2>1, <3>1 DEF Orphans
  <2> QED BY <2>2 DEF FilesMatchRows
<1>8. UsedArtifactIsReady'
  BY DEF UsedArtifactIsReady
<1> QED BY <1>2, <1>3, <1>4, <1>5, <1>6, <1>7, <1>8

\* Students and the lease manager begin or end to use whole artifacts.
LEMMA UseStep ==
  ASSUME StorageInvariant, EventLoopFree,
         bound' \in [Students -> SUBSET Ids], held' \in [Students -> Ids \cup {0}],
         shown' \in [Boards -> Ids \cup {0}], locked' \in SUBSET Students,
         \A s \in Students : \A a \in (bound'[s] \cup {held'[s]}) \ {0} :
           rows[a].status = "READY" /\ (a \in files \/ a \in damaged),
         UNCHANGED <<credential, store, upload, cleanup, bounds>>
  PROVE  StorageInvariant'
<1> USE DEF StorageInvariant, store, bounds
<1>1. cleanup.pc # "removed"
  BY DEF EventLoopFree
<1>2. TypeOK'
  BY DEF TypeOK
<1>3. RowsAreDrawn' /\ OneTaskRuns' /\ \A u \in Uploaders : UploadFacts(u)'
  BY DEF RowsAreDrawn, OneTaskRuns, UploadFacts
<1>4. CleanupFacts'
  BY <1>1 DEF CleanupFacts
<1>5. FilesMatchRows' /\ UsedArtifactIsReady'
  BY DEF FilesMatchRows, Orphans, UsedArtifactIsReady
<1> QED BY <1>2, <1>3, <1>4, <1>5

\* A cleanup goes on without touching anything else.
LEMMA CleanupStep ==
  ASSUME StorageInvariant, cleanup' \in Cleanup,
         cleanup'.pc \notin {"idle", "lock"} => EventLoopFree \/ cleanup.pc \notin {"idle", "lock"},
         cleanup'.pc # "removed", cleanup.pc # "removed",
         \A a \in cleanup'.todo : rows[a].status # "NONE",
         cleanup'.pc \in {"lock", "check"} =>
           cleanup'.target \in Ids /\ rows[cleanup'.target].status # "NONE",
         UNCHANGED <<credential, store, upload, users, bounds>>
  PROVE  StorageInvariant'
<1> USE DEF StorageInvariant, store, users, bounds
<1>1. TypeOK'
  BY DEF TypeOK
<1>2. RowsAreDrawn' /\ \A u \in Uploaders : UploadFacts(u)'
  BY DEF RowsAreDrawn, UploadFacts
<1>3. OneTaskRuns'
  BY DEF OneTaskRuns, EventLoopFree, TypeOK, Cleanup
<1>4. CleanupFacts'
  BY DEF CleanupFacts
<1>5. FilesMatchRows' /\ UsedArtifactIsReady'
  BY DEF FilesMatchRows, Orphans, UsedArtifactIsReady
<1> QED BY <1>1, <1>2, <1>3, <1>4, <1>5

-----------------------------------------------------------------------------
(* Uploads and credentials.                                                *)

LEMMA SavingFacts ==
  ASSUME NEW s \in Students
  PROVE  /\ Saving(s) \in Upload /\ Saving(s).pc = "save" /\ Saving(s).student = s
         /\ Saving(s).id = 0
  BY DEF Saving, Upload

LEMMA PostUploadStep ==
  ASSUME StorageInvariant, NEW u \in Uploaders, PostUpload(u)
  PROVE  StorageInvariant'
<1>1. PICK s \in Students, p \in Passwords :
        /\ credential[s] \in {None, p}
        /\ upload' = [upload EXCEPT ![u] =
                        IF credential[s] = None
                        THEN [pc |-> "claim", student |-> s, password |-> p, id |-> 0]
                        ELSE Saving(s)]
  BY DEF PostUpload
<1> DEFINE claim == [pc |-> "claim", student |-> s, password |-> p, id |-> 0]
<1>2. EventLoopFree /\ upload[u].id = 0
  BY LoopFree DEF PostUpload
<1>3. claim \in Upload
  BY DEF Upload
<1>4. credential' \in [Students -> Passwords \cup {None}]
  BY DEF PostUpload, StorageInvariant, TypeOK
<1>5. UNCHANGED <<store, users, cleanup, bounds>>
  BY DEF PostUpload
<1>6. CASE credential[s] = None
  <2>1. upload' = [upload EXCEPT ![u] = claim]
    BY <1>1, <1>6
  <2>2. claim.pc = "claim" /\ claim.student = s /\ claim.password = p /\ claim.id = 0
    OBVIOUS
  <2> HIDE DEF claim
  <2> QED BY <1>2, <1>3, <1>4, <1>5, <2>1, <2>2, UploadStep
<1>7. CASE credential[s] # None
  <2>1. upload' = [upload EXCEPT ![u] = Saving(s)]
    BY <1>1, <1>7
  <2> QED BY <1>2, <1>4, <1>5, <2>1, SavingFacts, UploadStep
<1> QED BY <1>6, <1>7

LEMMA ClaimStep ==
  ASSUME StorageInvariant, NEW u \in Uploaders, Claim(u)
  PROVE  StorageInvariant'
<1> DEFINE s == upload[u].student
<1>1. /\ upload[u].pc = "claim" /\ upload[u].id = 0 /\ s \in Students
      /\ upload[u].password \in Passwords
  BY DEF Claim, StorageInvariant, UploadFacts
<1>2. NoUpload \in Upload /\ NoUpload.pc = "idle" /\ NoUpload.id = 0
  BY EmptyRecords DEF NoUpload
<1>3. credential' \in [Students -> Passwords \cup {None}]
  BY <1>1 DEF Claim, StorageInvariant, TypeOK
<1>4. UNCHANGED <<store, users, cleanup, bounds>>
  BY DEF Claim
<1>5. \/ upload' = [upload EXCEPT ![u] = Saving(s)]
      \/ upload' = [upload EXCEPT ![u] = NoUpload]
  BY DEF Claim
<1> HIDE DEF s
<1>6. CASE upload' = [upload EXCEPT ![u] = Saving(s)]
  <2>1. /\ Saving(s) \in Upload /\ Saving(s).pc = "save" /\ Saving(s).student = s
        /\ Saving(s).id = 0
    BY <1>1, SavingFacts
  <2> QED BY <1>1, <1>3, <1>4, <1>6, <2>1, UploadStep
<1>7. CASE upload' = [upload EXCEPT ![u] = NoUpload]
  BY <1>1, <1>2, <1>3, <1>4, <1>7, UploadStep
<1> QED BY <1>5, <1>6, <1>7

LEMMA SaveFailsStep ==
  ASSUME StorageInvariant, NEW u \in Uploaders, SaveFails(u)
  PROVE  StorageInvariant'
<1>1. upload[u].id = 0 /\ upload' = [upload EXCEPT ![u] = NoUpload]
  BY LoopFree DEF SaveFails
<1>2. NoUpload \in Upload /\ NoUpload.pc = "idle" /\ NoUpload.id = 0
  BY EmptyRecords DEF NoUpload
<1>3. credential' \in [Students -> Passwords \cup {None}]
  BY DEF SaveFails, StorageInvariant, TypeOK
<1>4. UNCHANGED <<store, users, cleanup, bounds>>
  BY DEF SaveFails
<1> QED BY <1>1, <1>2, <1>3, <1>4, UploadStep

\* Registrations of another process and changes of password.
LEMMA CredentialStep ==
  ASSUME StorageInvariant, credential' \in [Students -> Passwords \cup {None}],
         UNCHANGED <<store, upload, users, cleanup, bounds>>
  PROVE  StorageInvariant'
<1> USE DEF StorageInvariant, store, users, bounds
<1>1. TypeOK'
  BY DEF TypeOK
<1>2. RowsAreDrawn' /\ OneTaskRuns' /\ CleanupFacts' /\ \A u \in Uploaders : UploadFacts(u)'
  BY DEF RowsAreDrawn, OneTaskRuns, CleanupFacts, UploadFacts, InUse
<1>3. FilesMatchRows' /\ UsedArtifactIsReady'
  BY DEF FilesMatchRows, Orphans, UsedArtifactIsReady
<1> QED BY <1>1, <1>2, <1>3

LEMMA MoveToFinalStep ==
  ASSUME StorageInvariant, NEW u \in Uploaders, MoveToFinal(u)
  PROVE  StorageInvariant'
<1> USE DEF StorageInvariant, MoveToFinal, users, bounds
<1> DEFINE d == drawn + 1
           r == [upload[u] EXCEPT !.pc = "publish", !.id = d]
<1>1. drawn \in Nat /\ d \in Ids /\ d \in 0 .. MaxUploads /\ d # 0 /\ rows[d].status = "NONE"
  BY StorageBounds DEF TypeOK, Ids, RowsAreDrawn
<1>2. upload[u] \in Upload /\ upload[u].student \in Students
  BY DEF TypeOK, UploadFacts
<1>3. r \in Upload /\ r.pc = "publish" /\ r.id = d /\ r.student = upload[u].student
  BY <1>1, <1>2 DEF Upload
<1>4. /\ drawn' = d /\ files' = files \cup {d} /\ upload' = [upload EXCEPT ![u] = r]
      /\ UNCHANGED <<credential, rows, damaged, bound, held, shown, locked, cleanup, faults, crashes>>
  OBVIOUS
<1>5. /\ cleanup.pc \in {"idle", "lock"}
      /\ \A v \in Uploaders : upload[v].pc \in {"idle", "save"} /\ upload[v].id = 0
  BY LoopFree
<1> HIDE DEF r, MoveToFinal
<1>6. /\ upload' \in [Uploaders -> Upload] /\ upload'[u] = r
      /\ \A v \in Uploaders \ {u} : upload'[v] = upload[v]
  BY <1>3, <1>4 DEF TypeOK
<1>7. TypeOK'
  BY <1>1, <1>4, <1>6 DEF TypeOK
<1>8. RowsAreDrawn'
  BY <1>1, <1>4 DEF RowsAreDrawn, Ids
<1>9. \A v \in Uploaders : UploadFacts(v)'
  BY <1>1, <1>2, <1>3, <1>4, <1>5, <1>6 DEF UploadFacts
<1>10. OneTaskRuns'
  BY <1>4, <1>5, <1>6 DEF OneTaskRuns
<1>11. CleanupFacts'
  BY <1>4, <1>5 DEF CleanupFacts, InUse
<1>12. FilesMatchRows'
  <2>1. Orphans' \subseteq Orphans
    <3>1. \A a \in files : a \in Ids /\ a # 0
      BY DEF TypeOK, Ids
    <3>2. upload'[u].id = d
      BY <1>3, <1>6
    <3> QED BY <1>4, <1>5, <3>1, <3>2 DEF Orphans
  <2>2. Cardinality(Orphans') <= crashes'
    BY <1>4, <2>1, NoNewOrphans
  <2>3. \A a \in Ids : rows[a].status # "NONE" => (a \in files' <=> a \in files)
    BY <1>1, <1>4
  <2> QED BY <1>4, <2>2, <2>3 DEF FilesMatchRows
<1>13. UsedArtifactIsReady'
  BY <1>4 DEF UsedArtifactIsReady
<1> QED BY <1>7, <1>8, <1>9, <1>10, <1>11, <1>12, <1>13

\* What commits and roll-backs start from.
LEMMA PublishFacts ==
  ASSUME StorageInvariant, NEW u \in Uploaders, upload[u].pc = "publish"
  PROVE  /\ upload[u].id = drawn /\ upload[u].id \in Ids /\ upload[u].id \in files
         /\ rows[upload[u].id].status = "NONE" /\ upload[u].student \in Students
         /\ cleanup.pc \in {"idle", "lock"}
         /\ \A v \in Uploaders \ {u} : upload[v].pc \in {"idle", "save"} /\ upload[v].id = 0
<1>1. /\ upload[u].id = drawn /\ upload[u].id \in files
      /\ rows[upload[u].id].status = "NONE" /\ upload[u].student \in Students
  BY DEF StorageInvariant, UploadFacts
<1>2. /\ cleanup.pc \in {"idle", "lock"}
      /\ \A v \in Uploaders \ {u} : upload[v].pc \in {"idle", "save"}
  BY DEF StorageInvariant, OneTaskRuns
<1>3. \A v \in Uploaders \ {u} : upload[v].id = 0
  BY <1>2 DEF StorageInvariant, UploadFacts
<1> QED BY <1>1, <1>2, <1>3 DEF StorageInvariant, TypeOK

LEMMA InsertRowStep ==
  ASSUME StorageInvariant, NEW u \in Uploaders, InsertRow(u)
  PROVE  StorageInvariant'
<1> DEFINE s == upload[u].student
           i == upload[u].id
           used == {a \in Ids : rows[a].status # "NONE"}
           r == [student |-> s, version |-> NextVersion(s), status |-> "READY",
                 created |-> 1 + Cardinality(used)]
<1>1. upload[u].pc = "publish"
  BY DEF InsertRow
<1>2. /\ i = drawn /\ i \in Ids /\ i \in files /\ rows[i].status = "NONE"
      /\ s \in Students /\ cleanup.pc \in {"idle", "lock"}
      /\ \A v \in Uploaders \ {u} : upload[v].pc \in {"idle", "save"} /\ upload[v].id = 0
  BY <1>1, PublishFacts
<1>3. /\ rows' = [rows EXCEPT ![i] = r] /\ upload' = [upload EXCEPT ![u] = NoUpload]
      /\ UNCHANGED <<credential, drawn, files, damaged, bound, held, shown, locked, cleanup,
                     faults, crashes>>
  BY DEF InsertRow, users, bounds
<1> USE DEF StorageInvariant
<1>4. 1 + Cardinality(used) \in 0 .. MaxUploads
  <2>1. used \in SUBSET Ids /\ i \notin used
    BY <1>2
  <2> HIDE DEF used, i
  <2>2. Cardinality(used) < MaxUploads /\ Cardinality(used) \in Nat
    BY <1>2, <2>1, LeavesOneOut, IdSets
  <2> QED BY <2>2, StorageBounds
<1>5. NextVersion(s) \in 0 .. MaxUploads /\ NextVersion(s) <= i
  <2>1. \A a \in RowsOf(s) : rows[a].version < i
    <3> TAKE a \in RowsOf(s)
    <3>1. a \in Ids /\ a # i /\ a <= drawn /\ rows[a].version <= a
      BY <1>2 DEF RowsOf, RowsAreDrawn
    <3>2. rows[a].version \in Nat /\ a \in Nat /\ i \in Nat
      BY <1>2, <3>1, StorageBounds DEF TypeOK, Row, Ids
    <3> QED BY <1>2, <3>1, <3>2
  <2>2. i \in Nat /\ i # 0 /\ i <= MaxUploads
    BY <1>2, StorageBounds DEF Ids
  <2>3. NextVersion(s) \in Nat /\ NextVersion(s) <= i
    BY <1>2, <2>1, <2>2, NextVersionFacts
  <2> QED BY <2>2, <2>3, StorageBounds
<1>6. /\ r \in Row /\ r.status = "READY" /\ r.student = s /\ r.version <= i
  BY <1>2, <1>4, <1>5 DEF Row
<1> HIDE DEF r
<1>7. /\ rows' \in [Ids -> Row] /\ rows'[i] = r /\ \A a \in Ids \ {i} : rows'[a] = rows[a]
  BY <1>2, <1>3, <1>6 DEF TypeOK
<1>8. /\ upload' \in [Uploaders -> Upload] /\ upload'[u] = NoUpload
      /\ NoUpload.pc = "idle" /\ NoUpload.id = 0
      /\ \A v \in Uploaders \ {u} : upload'[v] = upload[v]
  BY <1>3, EmptyRecords DEF TypeOK, NoUpload
<1>9. TypeOK'
  BY <1>3, <1>7, <1>8 DEF TypeOK
<1>10. RowsAreDrawn'
  BY <1>2, <1>3, <1>6, <1>7 DEF RowsAreDrawn, Ids
<1>11. \A v \in Uploaders : UploadFacts(v)'
  BY <1>2, <1>3, <1>8 DEF UploadFacts
<1>12. OneTaskRuns'
  BY <1>2, <1>3, <1>8 DEF OneTaskRuns
<1>13. CleanupFacts'
  <2>1. \A a \in Ids : rows[a].status # "NONE" => rows'[a] = rows[a]
    BY <1>2, <1>7
  <2>2. cleanup.todo \subseteq Ids
    BY DEF TypeOK, Cleanup
  <2> QED BY <1>2, <1>3, <2>1, <2>2 DEF CleanupFacts
<1>14. FilesMatchRows'
  <2>1. Orphans' \subseteq Orphans
    <3>1. \A a \in files : a \in Ids /\ a # 0
      BY DEF TypeOK, Ids
    <3>2. \A a \in files : rows'[a].status = "NONE" => a # i /\ rows[a].status = "NONE"
      BY <1>6, <1>7, <3>1
    <3> QED BY <1>2, <1>3, <3>1, <3>2 DEF Orphans
  <2>2. Cardinality(Orphans') <= crashes'
    BY <1>3, <2>1, NoNewOrphans
  <2> QED BY <1>2, <1>3, <1>6, <1>7, <2>2 DEF FilesMatchRows
<1>15. UsedArtifactIsReady'
  <2>1. \A t \in Students : bound[t] \cup {held[t]} \subseteq Ids \cup {0}
    BY DEF TypeOK
  <2> QED BY <1>2, <1>3, <1>7, <2>1 DEF UsedArtifactIsReady
<1> QED BY <1>9, <1>10, <1>11, <1>12, <1>13, <1>14, <1>15

LEMMA InsertFailsStep ==
  ASSUME StorageInvariant, NEW u \in Uploaders, InsertFails(u)
  PROVE  StorageInvariant'
<1> DEFINE i == upload[u].id
<1>1. upload[u].pc = "publish"
  BY DEF InsertFails
<1>2. /\ i = drawn /\ i \in Ids /\ i \in files /\ rows[i].status = "NONE"
      /\ cleanup.pc \in {"idle", "lock"}
      /\ \A v \in Uploaders \ {u} : upload[v].pc \in {"idle", "save"} /\ upload[v].id = 0
  BY <1>1, PublishFacts
<1>3. /\ files' = files \ {i} /\ upload' = [upload EXCEPT ![u] = NoUpload]
      /\ UNCHANGED <<credential, rows, drawn, damaged, bound, held, shown, locked, cleanup, crashes>>
  BY DEF InsertFails, DropFinal, users, bounds, Fault
<1> USE DEF StorageInvariant
<1>4. faults' \in 0 .. MaxFaults
  BY StorageBounds DEF InsertFails, Fault, TypeOK, bounds
<1> HIDE DEF i
<1>5. /\ upload' \in [Uploaders -> Upload] /\ upload'[u] = NoUpload
      /\ NoUpload.pc = "idle" /\ NoUpload.id = 0
      /\ \A v \in Uploaders \ {u} : upload'[v] = upload[v]
  BY <1>3, EmptyRecords DEF TypeOK, NoUpload
<1>6. TypeOK' /\ RowsAreDrawn'
  BY <1>3, <1>4, <1>5 DEF TypeOK, RowsAreDrawn
<1>7. (\A v \in Uploaders : UploadFacts(v)') /\ OneTaskRuns'
  BY <1>2, <1>3, <1>5 DEF UploadFacts, OneTaskRuns
<1>8. CleanupFacts'
  BY <1>2, <1>3 DEF CleanupFacts
<1>9. FilesMatchRows'
  <2>1. Orphans' \subseteq Orphans
    <3>1. \A a \in files : a \in Ids /\ a # 0
      BY DEF TypeOK, Ids
    <3> QED BY <1>2, <1>3, <3>1 DEF Orphans, i
  <2>2. Cardinality(Orphans') <= crashes'
    BY <1>3, <2>1, NoNewOrphans
  <2> QED BY <1>2, <1>3, <2>2 DEF FilesMatchRows
<1>10. UsedArtifactIsReady'
  BY <1>2, <1>3 DEF UsedArtifactIsReady
<1> QED BY <1>6, <1>7, <1>8, <1>9, <1>10

-----------------------------------------------------------------------------
(* Uses of artifacts.                                                      *)

LEMMA SubmitStep ==
  ASSUME StorageInvariant, NEW s \in Students, Submit(s)
  PROVE  StorageInvariant'
<1> USE DEF StorageInvariant
<1>1. /\ EventLoopFree /\ locked' \in SUBSET Students
      /\ UNCHANGED <<credential, store, upload, cleanup, bounds>>
  BY DEF Submit, TypeOK
<1> DEFINE n == NewestReady(s)
<1>2. n # 0 /\ bound' = [bound EXCEPT ![s] = bound[s] \cup {n}] /\ UNCHANGED <<held, shown>>
  BY DEF Submit, Use!Bind
<1>3. n \in Ids /\ rows[n].status = "READY"
  BY <1>2, NewestIsReady DEF ReadyOf, RowsOf
<1> HIDE DEF n
<1>4. n \in files \/ n \in damaged
  BY <1>1, <1>3, LoopFree, ReadyHasFiles
<1>5. /\ bound' \in [Students -> SUBSET Ids] /\ bound'[s] = bound[s] \cup {n}
      /\ \A t \in Students \ {s} : bound'[t] = bound[t]
  BY <1>2, <1>3 DEF TypeOK
<1>6. \A t \in Students : \A a \in (bound'[t] \cup {held'[t]}) \ {0} :
        rows[a].status = "READY" /\ (a \in files \/ a \in damaged)
  BY <1>2, <1>3, <1>4, <1>5 DEF UsedArtifactIsReady
<1>7. held' \in [Students -> Ids \cup {0}] /\ shown' \in [Boards -> Ids \cup {0}]
  BY <1>2 DEF TypeOK
<1> QED BY <1>1, <1>5, <1>6, <1>7, UseStep

\* Locks are taken and given back, reports arrive, uses end.
LEMMA LetGoFacts ==
  ASSUME StorageInvariant, NEW R, NEW S, NEW B, Use!LetGo(R, S, B)
  PROVE  /\ bound' \in [Students -> SUBSET Ids] /\ held' \in [Students -> Ids \cup {0}]
         /\ shown' \in [Boards -> Ids \cup {0}]
         /\ \A s \in Students : \A a \in (bound'[s] \cup {held'[s]}) \ {0} :
              rows[a].status = "READY" /\ (a \in files \/ a \in damaged)
<1> USE DEF StorageInvariant
<1>1. /\ bound' = [s \in Students |-> {a \in bound[s] : <<s, a>> \notin R}]
      /\ held' = [s \in Students |-> IF s \in S THEN 0 ELSE held[s]]
      /\ shown' = [b \in Boards |-> IF b \in B THEN 0 ELSE shown[b]]
  BY DEF Use!LetGo
<1>2. bound' \in [Students -> SUBSET Ids] /\ \A s \in Students : bound'[s] \subseteq bound[s]
  BY <1>1 DEF TypeOK
<1>3. held' \in [Students -> Ids \cup {0}] /\ \A s \in Students : held'[s] \in {0, held[s]}
  BY <1>1 DEF TypeOK
<1>4. shown' \in [Boards -> Ids \cup {0}]
  BY <1>1 DEF TypeOK
<1> QED BY <1>2, <1>3, <1>4 DEF UsedArtifactIsReady

LEMMA EndUseStep ==
  ASSUME StorageInvariant, EndUse
  PROVE  StorageInvariant'
<1>1. /\ EventLoopFree /\ locked' \in SUBSET Students
      /\ UNCHANGED <<credential, store, upload, cleanup, bounds>>
  BY DEF EndUse, StorageInvariant, TypeOK
<1>2. PICK R, S, B : Use!LetGo(R, S, B)
  BY DEF EndUse
<1> QED BY <1>1, <1>2, LetGoFacts, UseStep

LEMMA DeployStep ==
  ASSUME StorageInvariant, NEW s \in Students, NEW b \in Boards, Deploy(s, b)
  PROVE  StorageInvariant'
<1>1. /\ EventLoopFree /\ locked' \in SUBSET Students
      /\ UNCHANGED <<credential, store, upload, cleanup, bounds>>
  BY DEF Deploy, StorageInvariant, TypeOK
<1>2. PICK a \in bound[s] \cap files : Use!DeployUse(s, b, a) \/ Use!LetGo({}, {s}, {})
  BY DEF Deploy
<1>3. CASE Use!LetGo({}, {s}, {})
  BY <1>1, <1>3, LetGoFacts, UseStep
<1>4. CASE Use!DeployUse(s, b, a)
  <2> USE DEF StorageInvariant
  <2>1. /\ held' = [held EXCEPT ![s] = a] /\ shown' = [shown EXCEPT ![b] = a] /\ bound' = bound
    BY <1>4 DEF Use!DeployUse
  <2>2. a \in Ids
    BY DEF TypeOK
  <2>3. /\ bound' \in [Students -> SUBSET Ids] /\ held' \in [Students -> Ids \cup {0}]
        /\ shown' \in [Boards -> Ids \cup {0}]
        /\ held'[s] = a /\ \A t \in Students \ {s} : held'[t] = held[t]
    BY <2>1, <2>2 DEF TypeOK
  <2>4. rows[a].status = "READY" /\ (a \in files \/ a \in damaged)
    BY <2>2 DEF UsedArtifactIsReady, Ids
  <2>5. \A t \in Students : \A c \in (bound'[t] \cup {held'[t]}) \ {0} :
          rows[c].status = "READY" /\ (c \in files \/ c \in damaged)
    BY <2>1, <2>3, <2>4 DEF UsedArtifactIsReady
  <2> QED BY <1>1, <2>3, <2>5, UseStep
<1> QED BY <1>2, <1>3, <1>4

LEMMA ReportStep ==
  ASSUME StorageInvariant, NEW b \in Boards, Report(b)
  PROVE  StorageInvariant'
<1> USE DEF StorageInvariant
<1>1. /\ EventLoopFree /\ locked' \in SUBSET Students
      /\ UNCHANGED <<credential, store, upload, cleanup, bounds>>
  BY DEF Report, TypeOK
<1>2. PICK a \in Ids : Use!ReportUse(b, a)
  BY DEF Report
<1>3. shown' \in [Boards -> Ids \cup {0}] /\ UNCHANGED <<bound, held>>
  BY <1>2 DEF Use!ReportUse, TypeOK
<1>4. bound' \in [Students -> SUBSET Ids] /\ held' \in [Students -> Ids \cup {0}]
  BY <1>3 DEF TypeOK
<1>5. \A s \in Students : \A c \in (bound'[s] \cup {held'[s]}) \ {0} :
        rows[c].status = "READY" /\ (c \in files \/ c \in damaged)
  BY <1>3 DEF UsedArtifactIsReady
<1> QED BY <1>1, <1>3, <1>4, <1>5, UseStep

LEMMA LockStep ==
  ASSUME StorageInvariant, NEW s \in Students, TakeLock(s) \/ ReturnLock(s)
  PROVE  StorageInvariant'
<1> USE DEF StorageInvariant
<1>1. /\ EventLoopFree /\ locked' \in SUBSET Students
      /\ UNCHANGED <<credential, store, upload, bound, held, shown, cleanup, bounds>>
  BY DEF TakeLock, ReturnLock, TypeOK
<1>2. /\ bound' \in [Students -> SUBSET Ids] /\ held' \in [Students -> Ids \cup {0}]
      /\ shown' \in [Boards -> Ids \cup {0}]
  BY <1>1 DEF TypeOK
<1>3. \A t \in Students : \A a \in (bound'[t] \cup {held'[t]}) \ {0} :
        rows[a].status = "READY" /\ (a \in files \/ a \in damaged)
  BY <1>1 DEF UsedArtifactIsReady
<1> QED BY <1>1, <1>2, <1>3, UseStep

-----------------------------------------------------------------------------
(* Cleanup and deletion.                                                   *)

LEMMA StartStep ==
  ASSUME StorageInvariant, StartCleanup \/ StartDelete
  PROVE  StorageInvariant'
<1>1. PICK by \in {"cleanup", "delete"}, todo \in SUBSET Ids :
        /\ \A a \in todo : rows[a].status # "NONE"
        /\ cleanup' = [NoCleanup EXCEPT !.pc = "next", !.by = by, !.todo = todo]
  <2>1. CASE StartCleanup
    <3>1. Candidates \in SUBSET Ids /\ \A a \in Candidates : rows[a].status # "NONE"
      BY DEF Candidates
    <3> QED BY <2>1, <3>1 DEF StartCleanup
  <2>2. CASE StartDelete
    <3>1. PICK a \in Ids :
            /\ rows[a].status # "NONE"
            /\ cleanup' = [NoCleanup EXCEPT !.pc = "next", !.by = "delete", !.todo = {a}]
      BY <2>2 DEF StartDelete
    <3> QED BY <3>1
  <2> QED BY <2>1, <2>2
<1>2. /\ EventLoopFree /\ cleanup.pc = "idle"
      /\ UNCHANGED <<credential, store, upload, users, bounds>>
  BY DEF StartCleanup, StartDelete
<1>3. cleanup' \in Cleanup /\ cleanup'.pc = "next" /\ cleanup'.todo = todo
  BY <1>1 DEF NoCleanup, Cleanup
<1> QED BY <1>1, <1>2, <1>3, CleanupStep

LEMMA TakeNextStep ==
  ASSUME StorageInvariant, TakeNext
  PROVE  StorageInvariant'
<1>1. cleanup.pc = "next" /\ UNCHANGED <<credential, store, upload, users, bounds>>
  BY DEF TakeNext
<1>2. cleanup \in Cleanup /\ \A a \in cleanup.todo : a \in Ids /\ rows[a].status # "NONE"
  BY DEF StorageInvariant, TypeOK, CleanupFacts, Cleanup
<1>3. CASE cleanup' = NoCleanup
  <2>1. cleanup' \in Cleanup /\ cleanup'.pc = "idle" /\ cleanup'.todo = {}
    BY <1>3, EmptyRecords DEF NoCleanup
  <2> QED BY <1>1, <2>1, CleanupStep
<1>4. CASE cleanup' # NoCleanup
  <2>1. PICK a \in cleanup.todo :
          cleanup' = [cleanup EXCEPT !.target = a, !.todo = Without(a),
                        !.pc = IF rows[a].student \in locked THEN "lock" ELSE "check"]
    BY <1>4 DEF TakeNext
  <2>2. /\ cleanup' \in Cleanup /\ cleanup'.target = a /\ cleanup'.todo \subseteq cleanup.todo
        /\ cleanup'.pc \in {"lock", "check"}
    BY <1>2, <2>1 DEF Without, Cleanup
  <2> QED BY <1>1, <1>2, <2>2, CleanupStep
<1> QED BY <1>3, <1>4

LEMMA LockOrSkipStep ==
  ASSUME StorageInvariant, LockStudent \/ Skip
  PROVE  StorageInvariant'
<1>1. /\ \/ cleanup.pc = "lock" /\ EventLoopFree /\ cleanup' = [cleanup EXCEPT !.pc = "check"]
         \/ cleanup.pc = "check" /\ cleanup' = [cleanup EXCEPT !.pc = "next"]
      /\ UNCHANGED <<credential, store, upload, users, bounds>>
  BY DEF LockStudent, Skip
<1>2. /\ cleanup \in Cleanup /\ cleanup.target \in Ids /\ rows[cleanup.target].status # "NONE"
      /\ \A a \in cleanup.todo : rows[a].status # "NONE"
  BY <1>1 DEF StorageInvariant, TypeOK, CleanupFacts
<1>3. /\ cleanup' \in Cleanup /\ cleanup'.pc \in {"check", "next"}
      /\ cleanup'.target = cleanup.target /\ cleanup'.todo = cleanup.todo
  BY <1>1, <1>2 DEF Cleanup
<1> QED BY <1>1, <1>2, <1>3, CleanupStep

\* What is removed is a READY artifact that nobody uses and nobody is uploading.
LEMMA RemovalFacts ==
  ASSUME StorageInvariant, cleanup.pc \in {"check", "removed"},
         cleanup.pc = "check" => MayRemove(cleanup.target)
  PROVE  /\ cleanup \in Cleanup /\ cleanup.target \in Ids
         /\ rows[cleanup.target].status = "READY" /\ cleanup.target \notin InUse
         /\ \A s \in Students : cleanup.target \notin bound[s] \cup {held[s]}
         /\ \A u \in Uploaders : upload[u].pc \in {"idle", "save"} /\ upload[u].id = 0
         /\ \A a \in cleanup.todo : a \in Ids /\ rows[a].status # "NONE"
<1> USE DEF StorageInvariant
<1>1. /\ cleanup \in Cleanup /\ cleanup.target \in Ids
      /\ rows[cleanup.target].status = "READY" /\ cleanup.target \notin InUse
  BY DEF TypeOK, CleanupFacts, MayRemove, Protected
<1>2. \A s \in Students : cleanup.target \notin bound[s] \cup {held[s]}
  <2> DEFINE requested == UNION {bound[t] : t \in Students}
             leased == {held[t] : t \in Students}
  <2>1. InUse = (requested \cup leased \cup {shown[b] : b \in Boards}) \ {0}
    BY DEF InUse
  <2>2. ASSUME NEW s \in Students PROVE bound[s] \subseteq requested /\ held[s] \in leased
    OBVIOUS
  <2> HIDE DEF requested, leased
  <2>3. cleanup.target \notin requested \cup leased
    BY <1>1, <2>1 DEF Ids
  <2> QED BY <2>2, <2>3
<1>3. \A u \in Uploaders : upload[u].pc \in {"idle", "save"}
  BY DEF OneTaskRuns, TypeOK, Upload
<1>4. \A u \in Uploaders : upload[u].id = 0
  BY <1>3 DEF UploadFacts
<1>5. \A a \in cleanup.todo : a \in Ids /\ rows[a].status # "NONE"
  BY <1>1 DEF CleanupFacts, Cleanup
<1> QED BY <1>1, <1>2, <1>3, <1>4, <1>5

\* A removal that goes on or fails, anywhere before ARCHIVED.
LEMMA RemovalStep ==
  ASSUME StorageInvariant, cleanup.pc \in {"check", "removed"},
         cleanup.pc = "check" => MayRemove(cleanup.target),
         files' \in {files, files \ {cleanup.target}},
         damaged' \in {damaged, damaged \cup {cleanup.target}},
         cleanup' \in Cleanup, cleanup'.pc \in {"idle", "next", "removed"},
         cleanup'.target \in {0, cleanup.target}, cleanup'.todo \subseteq cleanup.todo,
         IF cleanup'.pc = "removed"
         THEN cleanup'.target = cleanup.target /\ cleanup.target \notin files'
         ELSE cleanup.target \in damaged',
         faults' \in 0 .. MaxFaults,
         UNCHANGED <<credential, rows, drawn, upload, users, crashes>>
  PROVE  StorageInvariant'
<1> USE DEF StorageInvariant, users
<1> DEFINE a == cleanup.target
<1>1. /\ a \in Ids /\ rows[a].status = "READY" /\ a \notin InUse
      /\ \A u \in Uploaders : upload[u].pc \in {"idle", "save"} /\ upload[u].id = 0
      /\ \A s \in Students : a \notin bound[s] \cup {held[s]}
      /\ \A c \in cleanup.todo : rows[c].status # "NONE"
  BY RemovalFacts
<1>2. /\ files' \subseteq files /\ files \ {a} \subseteq files'
      /\ damaged \subseteq damaged' /\ damaged' \subseteq Ids
  BY <1>1 DEF TypeOK
<1> HIDE DEF a
<1>3. TypeOK' /\ RowsAreDrawn'
  BY <1>2 DEF TypeOK, RowsAreDrawn
<1>4. (\A u \in Uploaders : UploadFacts(u)') /\ OneTaskRuns'
  BY <1>1 DEF UploadFacts, OneTaskRuns
<1>5. CleanupFacts'
  BY <1>1 DEF CleanupFacts, InUse, a
<1>6. FilesMatchRows'
  <2>1. Orphans' \subseteq Orphans
    BY <1>2 DEF Orphans
  <2>2. Cardinality(Orphans') <= crashes'
    BY <2>1, NoNewOrphans
  <2>3. \A c \in Ids : rows[c].status = "READY" =>
          c \in files' \/ c \in damaged' \/ (cleanup'.pc = "removed" /\ cleanup'.target = c)
    <3> TAKE c \in Ids
    <3>1. CASE c = a
      BY <3>1 DEF a
    <3>2. CASE c # a
      BY <1>2, <3>2 DEF FilesMatchRows, a
    <3> QED BY <3>1, <3>2
  <2> QED BY <1>2, <2>2, <2>3 DEF FilesMatchRows
<1>7. UsedArtifactIsReady'
  BY <1>1, <1>2 DEF UsedArtifactIsReady
<1> QED BY <1>3, <1>4, <1>5, <1>6, <1>7

LEMMA RemoveStep ==
  ASSUME StorageInvariant, RemoveDirectory \/ RemoveFails \/ ArchiveFails
  PROVE  StorageInvariant'
<1> USE DEF StorageInvariant
<1>1. cleanup \in Cleanup /\ faults' \in 0 .. MaxFaults /\ crashes' = crashes
  BY StorageBounds DEF TypeOK, RemoveDirectory, RemoveFails, ArchiveFails, Fault, bounds
<1>2. CASE RemoveDirectory
  <2>1. /\ cleanup' \in Cleanup /\ cleanup'.pc = "removed"
        /\ cleanup'.target = cleanup.target /\ cleanup'.todo = cleanup.todo
    BY <1>1, <1>2 DEF RemoveDirectory, Cleanup
  <2>2. /\ cleanup.pc = "check" /\ MayRemove(cleanup.target)
        /\ files' = files \ {cleanup.target} /\ damaged' = damaged
        /\ UNCHANGED <<credential, rows, drawn, upload, users>>
    BY <1>2 DEF RemoveDirectory
  <2> QED BY <1>1, <2>1, <2>2, RemovalStep
<1>3. CASE RemoveFails
  <2>1. /\ cleanup' \in Cleanup /\ cleanup'.pc = "next"
        /\ cleanup'.target = cleanup.target /\ cleanup'.todo = cleanup.todo
    BY <1>1, <1>3 DEF RemoveFails, Cleanup
  <2>2. /\ cleanup.pc = "check" /\ MayRemove(cleanup.target)
        /\ files' \in {files, files \ {cleanup.target}}
        /\ damaged' = damaged \cup {cleanup.target}
        /\ UNCHANGED <<credential, rows, drawn, upload, users>>
    BY <1>3 DEF RemoveFails
  <2> QED BY <1>1, <2>1, <2>2, RemovalStep
<1>4. CASE ArchiveFails
  <2>1. /\ cleanup' \in Cleanup /\ cleanup'.pc = "idle"
        /\ cleanup'.target = 0 /\ cleanup'.todo = {}
    BY <1>4, EmptyRecords DEF ArchiveFails, NoCleanup
  <2>2. /\ cleanup.pc = "removed" /\ files' = files
        /\ damaged' = damaged \cup {cleanup.target}
        /\ UNCHANGED <<credential, rows, drawn, upload, users>>
    BY <1>4 DEF ArchiveFails
  <2> QED BY <1>1, <2>1, <2>2, RemovalStep
<1> QED BY <1>2, <1>3, <1>4

LEMMA ArchiveStep ==
  ASSUME StorageInvariant, Archive
  PROVE  StorageInvariant'
<1> USE DEF StorageInvariant
<1> DEFINE a == cleanup.target
           r == [rows[a] EXCEPT !.status = "ARCHIVED"]
<1>1. /\ cleanup \in Cleanup /\ a \in Ids /\ rows[a].status = "READY" /\ a \notin InUse
      /\ \A u \in Uploaders : upload[u].pc \in {"idle", "save"} /\ upload[u].id = 0
      /\ \A s \in Students : a \notin bound[s] \cup {held[s]}
      /\ \A c \in cleanup.todo : c \in Ids /\ rows[c].status # "NONE"
  BY RemovalFacts DEF Archive
<1>2. a \notin files
  BY DEF Archive, CleanupFacts
<1>3. /\ rows' = [rows EXCEPT ![a] = r] /\ cleanup' = [cleanup EXCEPT !.pc = "next"]
      /\ UNCHANGED <<credential, drawn, files, damaged, upload, bound, held, shown, locked,
                     faults, crashes>>
  BY DEF Archive, users, bounds
<1>4. /\ r \in Row /\ r.status = "ARCHIVED"
      /\ r.student = rows[a].student /\ r.version = rows[a].version
  BY <1>1 DEF TypeOK, Row
<1>5. /\ cleanup' \in Cleanup /\ cleanup'.pc = "next" /\ cleanup'.todo = cleanup.todo
  BY <1>1, <1>3 DEF Cleanup
<1> HIDE DEF a, r
<1>6. /\ rows' \in [Ids -> Row] /\ rows'[a] = r /\ \A c \in Ids \ {a} : rows'[c] = rows[c]
  BY <1>1, <1>3, <1>4 DEF TypeOK
<1>7. TypeOK' /\ RowsAreDrawn'
  BY <1>1, <1>3, <1>4, <1>5, <1>6 DEF TypeOK, RowsAreDrawn
<1>8. (\A u \in Uploaders : UploadFacts(u)') /\ OneTaskRuns'
  BY <1>1, <1>3, <1>5 DEF UploadFacts, OneTaskRuns
<1>9. CleanupFacts'
  BY <1>1, <1>4, <1>5, <1>6 DEF CleanupFacts
<1>10. FilesMatchRows'
  <2>1. Orphans' \subseteq Orphans
    <3>1. files \subseteq Ids
      BY DEF TypeOK
    <3> QED BY <1>1, <1>2, <1>3, <1>6, <3>1 DEF Orphans
  <2>2. Cardinality(Orphans') <= crashes'
    BY <1>3, <2>1, NoNewOrphans
  <2>3. \A c \in Ids : rows'[c].status = "READY" => c \in files' \/ c \in damaged'
    BY <1>3, <1>4, <1>6 DEF FilesMatchRows, a
  <2>4. \A c \in Ids : rows'[c].status = "ARCHIVED" => c \notin files'
    BY <1>2, <1>3, <1>6 DEF FilesMatchRows
  <2> QED BY <2>2, <2>3, <2>4 DEF FilesMatchRows
<1>11. UsedArtifactIsReady'
  <2>1. \A t \in Students : bound[t] \cup {held[t]} \subseteq Ids \cup {0}
    BY DEF TypeOK
  <2> QED BY <1>1, <1>3, <1>6, <2>1 DEF UsedArtifactIsReady
<1> QED BY <1>7, <1>8, <1>9, <1>10, <1>11

-----------------------------------------------------------------------------
(* Crashes, and all steps together.                                        *)

\* A directory without a row is left by the one upload that was between two waits.
LEMMA CrashStep ==
  ASSUME StorageInvariant, Crash
  PROVE  StorageInvariant'
<1> USE DEF StorageInvariant
<1>1. /\ upload' = [u \in Uploaders |-> NoUpload] /\ cleanup' = NoCleanup /\ locked' = {}
      /\ crashes' = crashes + 1 /\ faults + crashes < MaxFaults
      /\ damaged' = IF cleanup.pc = "removed" THEN damaged \cup {cleanup.target} ELSE damaged
      /\ UNCHANGED <<credential, rows, drawn, files, bound, held, shown, faults>>
  BY DEF Crash
<1>2. /\ upload' \in [Uploaders -> Upload] /\ cleanup' \in Cleanup
      /\ cleanup'.pc = "idle" /\ cleanup'.todo = {}
      /\ \A u \in Uploaders : upload'[u].pc = "idle" /\ upload'[u].id = 0
  BY <1>1, EmptyRecords DEF NoUpload, NoCleanup
<1>3. damaged \subseteq damaged' /\ damaged' \subseteq Ids
  BY <1>1 DEF TypeOK, CleanupFacts
<1>4. crashes' \in 0 .. MaxFaults
  BY <1>1, StorageBounds DEF TypeOK
<1>5. TypeOK' /\ RowsAreDrawn'
  BY <1>1, <1>2, <1>3, <1>4 DEF TypeOK, RowsAreDrawn
<1>6. (\A u \in Uploaders : UploadFacts(u)') /\ OneTaskRuns' /\ CleanupFacts'
  BY <1>2 DEF UploadFacts, OneTaskRuns, CleanupFacts
<1>7. Cardinality(Orphans') <= crashes'
  <2>1. Orphans \in SUBSET Ids /\ IsFiniteSet(Orphans)
    <3>1. Orphans \in SUBSET Ids
      BY DEF Orphans, TypeOK
    <3> QED BY <3>1, IdSets
  <2>2. PICK i \in Ids \cup {0} : Orphans' \subseteq Orphans \cup {i}
    <3>1. CASE \E u \in Uploaders : upload[u].pc = "publish"
      <4>1. PICK u \in Uploaders : upload[u].pc = "publish"
        BY <3>1
      <4>2. /\ upload[u].id \in Ids
            /\ \A v \in Uploaders \ {u} : upload[v].id = 0
        BY <4>1, PublishFacts
      <4>3. \A a \in files : a \in Ids /\ a # 0
        BY DEF TypeOK, Ids
      <4>4. Orphans' \subseteq Orphans \cup {upload[u].id}
        BY <1>1, <4>2, <4>3 DEF Orphans
      <4> QED BY <4>2, <4>4
    <3>2. CASE \A u \in Uploaders : upload[u].pc # "publish"
      <4>1. \A u \in Uploaders : upload[u].id = 0
        BY <3>2 DEF UploadFacts
      <4>2. \A a \in files : a # 0
        BY DEF TypeOK, Ids
      <4>3. Orphans' \subseteq Orphans \cup {0}
        BY <1>1, <4>1, <4>2 DEF Orphans
      <4> QED BY <4>3
    <3> QED BY <3>1, <3>2
  <2>3. /\ IsFiniteSet(Orphans \cup {i})
        /\ Cardinality(Orphans \cup {i}) \in {Cardinality(Orphans), Cardinality(Orphans) + 1}
    BY <2>1, FS_AddElement
  <2>4. Cardinality(Orphans') <= Cardinality(Orphans \cup {i}) /\ IsFiniteSet(Orphans')
    BY <2>2, <2>3, FS_Subset
  <2>5. /\ Cardinality(Orphans') \in Nat /\ Cardinality(Orphans) \in Nat
        /\ Cardinality(Orphans \cup {i}) \in Nat
    BY <2>1, <2>3, <2>4, FS_CardinalityType
  <2>6. Cardinality(Orphans) <= crashes /\ crashes \in Nat
    BY StorageBounds DEF FilesMatchRows, TypeOK
  <2> QED BY <1>1, <2>3, <2>4, <2>5, <2>6
<1>8. FilesMatchRows'
  BY <1>1, <1>3, <1>7 DEF FilesMatchRows
<1>9. UsedArtifactIsReady'
  BY <1>1, <1>3 DEF UsedArtifactIsReady
<1> QED BY <1>5, <1>6, <1>8, <1>9

LEMMA InvariantInit == Init => StorageInvariant
<1> SUFFICES ASSUME Init PROVE StorageInvariant
  OBVIOUS
<1> USE DEF Init
<1>1. TypeOK
  BY EmptyRecords, StorageBounds DEF TypeOK
<1>2. RowsAreDrawn /\ OneTaskRuns /\ UsedArtifactIsReady
  BY DEF RowsAreDrawn, OneTaskRuns, UsedArtifactIsReady, NoRow, NoUpload
<1>3. (\A u \in Uploaders : UploadFacts(u)) /\ CleanupFacts
  BY DEF UploadFacts, CleanupFacts, NoUpload, NoCleanup
<1>4. FilesMatchRows
  <2>1. Orphans = {}
    BY DEF Orphans
  <2>2. Cardinality(Orphans) = 0
    BY <2>1, FS_EmptySet
  <2> QED BY <2>2 DEF FilesMatchRows, NoRow
<1> QED BY <1>1, <1>2, <1>3, <1>4 DEF StorageInvariant

LEMMA InvariantNext == StorageInvariant /\ [Next]_vars => StorageInvariant'
<1> SUFFICES ASSUME StorageInvariant, [Next]_vars PROVE StorageInvariant'
  OBVIOUS
<1>1. ASSUME NEW u \in Uploaders,
             PostUpload(u) \/ SaveFails(u) \/ MoveToFinal(u) \/ UploadTask(u)
      PROVE  StorageInvariant'
  BY <1>1, PostUploadStep, SaveFailsStep, MoveToFinalStep, ClaimStep, InsertRowStep,
     InsertFailsStep DEF UploadTask
<1>2. ASSUME NEW s \in Students, OtherCentralClaims(s) \/ ChangePassword(s)
      PROVE  StorageInvariant'
  <2>1. /\ credential' \in [Students -> Passwords \cup {None}]
        /\ UNCHANGED <<store, upload, users, cleanup, bounds>>
    BY <1>2 DEF OtherCentralClaims, ChangePassword, StorageInvariant, TypeOK
  <2> QED BY <2>1, CredentialStep
<1>3. ASSUME NEW s \in Students, Submit(s) \/ TakeLock(s) \/ ReturnLock(s)
      PROVE  StorageInvariant'
  BY <1>3, SubmitStep, LockStep
<1>4. ASSUME NEW s \in Students, NEW b \in Boards, Deploy(s, b) PROVE StorageInvariant'
  BY <1>4, DeployStep
<1>5. ASSUME NEW b \in Boards, Report(b) PROVE StorageInvariant'
  BY <1>5, ReportStep
<1>6. CASE StartCleanup \/ StartDelete
  BY <1>6, StartStep
<1>7. CASE CleanupTask
  BY <1>7, TakeNextStep, LockOrSkipStep, RemoveStep, ArchiveStep DEF CleanupTask
<1>8. CASE EndUse \/ Crash
  BY <1>8, EndUseStep, CrashStep
<1>9. CASE UNCHANGED vars
  <2>1. /\ credential' = credential /\ UNCHANGED <<store, upload, users, cleanup, bounds>>
    BY <1>9 DEF vars
  <2> QED BY <2>1, CredentialStep DEF StorageInvariant, TypeOK
<1> QED BY <1>1, <1>2, <1>3, <1>4, <1>5, <1>6, <1>7, <1>8, <1>9 DEF Next

-----------------------------------------------------------------------------
(* The theorems.                                                           *)

(* What uploads and cleanups have made of tables and directories holds in  *)
(* every reachable state, crashes and failing writes included.             *)
THEOREM StorageInvariantHolds == Spec => []StorageInvariant
  BY InvariantInit, InvariantNext, PTL DEF Spec

(* Types; in particular versions and ids never run past the ids drawn.     *)
THEOREM StorageTypeCorrect == Spec => []TypeOK
<1>1. StorageInvariant => TypeOK
  BY DEF StorageInvariant
<1> QED BY <1>1, StorageInvariantHolds, PTL

(* Rows and directories agree (artifact_store.py, artifact_cleanup.py): at *)
(* most one directory without a row for each crash, and no READY artifact  *)
(* without files but those whose removal was cut short.                    *)
THEOREM FilesAndRowsAgree == Spec => []FilesMatchRows
<1>1. StorageInvariant => FilesMatchRows
  BY DEF StorageInvariant
<1> QED BY <1>1, StorageInvariantHolds, PTL

(* Whatever requests and leases name is READY and has its files unless a   *)
(* removal failed: cleanup, deletion, submissions and deployments meet in  *)
(* any order (artifact_cleanup.py:265-300).                                *)
THEOREM UsedArtifactsAreReady == Spec => []UsedArtifactIsReady
<1>1. StorageInvariant => UsedArtifactIsReady
  BY DEF StorageInvariant
<1> QED BY <1>1, StorageInvariantHolds, PTL

(* _next_version never draws a version that the table would refuse.        *)
THEOREM VersionsAreFree == Spec => []DrawnVersionIsFree
<1>1. StorageInvariant => DrawnVersionIsFree
  <2> SUFFICES ASSUME StorageInvariant, NEW u \in Uploaders, upload[u].pc = "publish"
               PROVE  ~VersionTaken(upload[u].student)
    BY DEF DrawnVersionIsFree
  <2>1. upload[u].student \in Students /\ TypeOK
    BY PublishFacts DEF StorageInvariant
  <2> QED BY <2>1, NextVersionFacts
<1> QED BY <1>1, StorageInvariantHolds, PTL

\* Where a first upload that has found no credential goes next.
LEMMA ClaimOutcome ==
  ASSUME StorageInvariant, [Next]_vars, NEW u \in Uploaders,
         upload[u].pc = "claim", upload'[u].pc # "claim"
  PROVE  Claim(u) \/ Crash
<1> USE DEF StorageInvariant, TypeOK
<1>1. ~EventLoopFree /\ upload[u].pc \notin {"idle", "save", "publish"}
  BY DEF EventLoopFree
<1>2. UNCHANGED upload => FALSE
  OBVIOUS
<1>3. ASSUME NEW v \in Uploaders,
             PostUpload(v) \/ SaveFails(v) \/ MoveToFinal(v) \/ UploadTask(v)
      PROVE  v = u /\ Claim(u)
  <2>1. ~PostUpload(v) /\ ~SaveFails(v) /\ ~MoveToFinal(v)
    BY <1>1 DEF PostUpload, SaveFails, MoveToFinal
  <2>2. v = u
    BY <1>3, <2>1 DEF UploadTask, Claim, InsertRow, InsertFails
  <2> QED BY <1>1, <1>3, <2>1, <2>2 DEF UploadTask, InsertRow, InsertFails
<1>4. ASSUME NEW s \in Students,
             \/ OtherCentralClaims(s) \/ ChangePassword(s)
             \/ Submit(s) \/ TakeLock(s) \/ ReturnLock(s)
             \/ \E b \in Boards : Deploy(s, b)
      PROVE  FALSE
  BY <1>2, <1>4 DEF OtherCentralClaims, ChangePassword, Submit, TakeLock, ReturnLock, Deploy
<1>5. ~StartCleanup /\ ~StartDelete /\ ~EndUse /\ \A b \in Boards : ~Report(b)
  BY <1>2 DEF StartCleanup, StartDelete, EndUse, Report
<1>6. ~CleanupTask
  BY <1>2 DEF CleanupTask, TakeNext, LockStudent, Skip, RemoveDirectory, RemoveFails,
              Archive, ArchiveFails
<1>7. ~UNCHANGED vars
  BY <1>2 DEF vars
<1> QED BY <1>3, <1>4, <1>5, <1>6, <1>7 DEF Next

(* A student id has one owner, whoever else registers it at the same time  *)
(* (student_auth.py): the loser of the race needs the winner's password.   *)
THEOREM OneOwner == Spec => OneOwnerPerId
<1> DEFINE Kept(u) ==
      LET s == upload[u].student IN
      (upload[u].pc = "claim" /\ upload'[u].pc # "claim") =>
        /\ upload'[u].pc = "save" => credential'[s] = upload[u].password
        /\ credential[s] # None => credential'[s] = credential[s]
<1>1. ASSUME StorageInvariant, [Next]_vars, NEW u \in Uploaders PROVE Kept(u)
  <2> DEFINE s == upload[u].student
  <2> SUFFICES ASSUME upload[u].pc = "claim", upload'[u].pc # "claim"
               PROVE  /\ upload'[u].pc = "save" => credential'[s] = upload[u].password
                      /\ credential[s] # None => credential'[s] = credential[s]
    OBVIOUS
  <2>1. Claim(u) \/ Crash
    BY <1>1, ClaimOutcome
  <2>2. s \in Students /\ upload \in [Uploaders -> Upload]
        /\ credential \in [Students -> Passwords \cup {None}]
    BY <1>1 DEF StorageInvariant, TypeOK, UploadFacts
  <2>3. CASE Claim(u)
    BY <2>2, <2>3 DEF Claim, MaySave, NoUpload, Saving
  <2>4. CASE Crash
    BY <2>2, <2>4 DEF Crash, NoUpload
  <2> QED BY <2>1, <2>3, <2>4
<1>2. StorageInvariant /\ [Next]_vars => [\A u \in Uploaders : Kept(u)]_vars
  BY <1>1
<1> QED BY <1>2, StorageInvariantHolds, PTL DEF Spec, OneOwnerPerId

(* Files are removed only while nobody uses the artifact, and cleanup      *)
(* never takes a student's newest one, whatever has happened since the     *)
(* preview (artifact_cleanup.py).                                          *)
THEOREM OnlyUnusedAreRemoved == Spec => RemovesOnlyUnused
<1> DEFINE Unused ==
      \A a \in files \ files' : rows[a].status = "READY" =>
        /\ a \notin InUse
        /\ cleanup.by = "cleanup" => a # NewestReady(rows[a].student)
<1>1. ASSUME StorageInvariant, [Next]_vars PROVE Unused
  <2> USE DEF store, users
  <2>1. files \subseteq files' => Unused
    OBVIOUS
  <2>2. ASSUME NEW u \in Uploaders,
               PostUpload(u) \/ SaveFails(u) \/ MoveToFinal(u) \/ Claim(u) \/ InsertRow(u)
        PROVE  files \subseteq files'
    BY <2>2 DEF PostUpload, SaveFails, MoveToFinal, Claim, InsertRow
  <2>3. ASSUME NEW u \in Uploaders, InsertFails(u)
        PROVE  \A a \in files \ files' : rows[a].status = "NONE"
    BY <1>1, <2>3, PublishFacts DEF InsertFails, DropFinal
  <2>4. ASSUME NEW s \in Students,
               \/ OtherCentralClaims(s) \/ ChangePassword(s)
               \/ Submit(s) \/ TakeLock(s) \/ ReturnLock(s)
               \/ \E b \in Boards : Deploy(s, b)
        PROVE  files \subseteq files'
    BY <2>4 DEF OtherCentralClaims, ChangePassword, Submit, TakeLock, ReturnLock, Deploy
  <2>5. StartCleanup \/ StartDelete \/ EndUse \/ Crash \/ (\E b \in Boards : Report(b))
          => files \subseteq files'
    BY DEF StartCleanup, StartDelete, EndUse, Crash, Report
  <2>6. TakeNext \/ LockStudent \/ Skip \/ Archive \/ ArchiveFails => files \subseteq files'
    BY DEF TakeNext, LockStudent, Skip, Archive, ArchiveFails
  <2>7. ASSUME RemoveDirectory \/ RemoveFails PROVE Unused
    <3>1. /\ files \ files' \subseteq {cleanup.target} /\ MayRemove(cleanup.target)
          /\ cleanup.pc = "check"
      BY <2>7 DEF RemoveDirectory, RemoveFails
    <3>2. cleanup.target \notin InUse /\ rows[cleanup.target].student \in Students
      BY <1>1, <3>1, RemovalFacts DEF StorageInvariant, RowsAreDrawn
    <3>3. cleanup.by = "cleanup" =>
            cleanup.target # NewestReady(rows[cleanup.target].student)
      BY <3>1, <3>2 DEF MayRemove, Protected
    <3> QED BY <3>1, <3>2, <3>3
  <2>8. UNCHANGED vars => files \subseteq files'
    BY DEF vars
  <2> HIDE DEF Unused
  <2>9. ASSUME NEW u \in Uploaders, InsertFails(u) PROVE Unused
    BY <2>3, <2>9 DEF Unused
  <2> QED BY <1>1, <2>1, <2>2, <2>4, <2>5, <2>6, <2>7, <2>8, <2>9
          DEF Next, UploadTask, CleanupTask
<1>2. StorageInvariant /\ [Next]_vars => [Unused]_vars
  BY <1>1
<1> QED BY <1>2, StorageInvariantHolds, PTL DEF Spec, RemovesOnlyUnused
=============================================================================
