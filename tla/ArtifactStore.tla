---------------------------- MODULE ArtifactStore ----------------------------
(***************************************************************************)
(* artifact_store.py: an upload is read into a staging directory while     *)
(* other tasks run; then its version is drawn, the directory moved and the *)
(* row inserted without a wait in between. The staging directory is gone   *)
(* at the end of the handler, whatever its end is, except after a crash.   *)
(***************************************************************************)
EXTENDS StorageState

\* The body does not pass validation, or its sender goes away: nothing is kept.
SaveFails(u) ==
  /\ EventLoopFree /\ upload[u].pc = "save"
  /\ upload' = [upload EXCEPT ![u] = NoUpload]
  /\ UNCHANGED <<credential, store, users, cleanup, bounds>>

\* os.replace(staging, final), in the directory of a new id.
MoveToFinal(u) ==
  /\ EventLoopFree /\ upload[u].pc = "save" /\ drawn < MaxUploads
  /\ drawn' = drawn + 1 /\ files' = files \cup {drawn + 1}
  /\ upload' = [upload EXCEPT ![u] = [@ EXCEPT !.pc = "publish", !.id = drawn + 1]]
  /\ UNCHANGED <<credential, rows, damaged, users, cleanup, bounds>>

HighestOf(A) == CHOOSE n \in {0} \cup {rows[a].version : a \in A} :
                  \A a \in A : rows[a].version <= n

\* Mistaken form of NextVersion: archived versions are not counted.
NextReadyVersion(s) == HighestOf(ReadyOf(s)) + 1
\* Mistaken form of NextVersion: the count starts after v1.
NextAfterFirst(s) == HighestOf(RowsOf(s)) + 2
\* _next_version looks at all rows of the student.
NextVersion(s) == HighestOf(RowsOf(s)) + 1

\* The constraint uq_artifacts_student_version.
VersionTaken(s) == \E a \in RowsOf(s) : rows[a].version = NextVersion(s)

InsertRow(u) ==
  LET s == upload[u].student IN
  /\ upload[u].pc = "publish" /\ ~VersionTaken(s)
  /\ rows' = [rows EXCEPT ![upload[u].id] =
                [student |-> s, version |-> NextVersion(s), status |-> "READY",
                 created |-> 1 + Cardinality({a \in Ids : rows[a].status # "NONE"})]]
  /\ upload' = [upload EXCEPT ![u] = NoUpload]
  /\ UNCHANGED <<credential, drawn, files, damaged, users, cleanup, bounds>>

\* Mistaken form of DropFinal: only the staging directory is cleared.
KeepFinal(u) == UNCHANGED files
DropFinal(u) == files' = files \ {upload[u].id}

\* The row cannot be committed: the directory is removed again.
InsertFails(u) ==
  /\ upload[u].pc = "publish"
  /\ \/ VersionTaken(upload[u].student) /\ UNCHANGED bounds
     \/ Fault
  /\ DropFinal(u)
  /\ upload' = [upload EXCEPT ![u] = NoUpload]
  /\ UNCHANGED <<credential, rows, drawn, damaged, users, cleanup>>
=============================================================================
