-------------------------- MODULE StorageInvariant --------------------------
(***************************************************************************)
(* The inductive invariant behind the safety properties of storage: what   *)
(* an upload and a cleanup have made of tables and directories by the time *)
(* they are where they are, and that one of them at most is between two    *)
(* waits, so that what it has read still holds.                            *)
(***************************************************************************)
EXTENDS StorageProperties

\* Rows belong to students; a version is never greater than the number of ids drawn by then.
RowsAreDrawn ==
  \A a \in Ids : rows[a].status # "NONE" =>
    a <= drawn /\ rows[a].student \in Students /\ rows[a].version <= a

\* An upload's directory is moved when its id is drawn; it has no row before the commit.
UploadFacts(u) ==
  /\ upload[u].pc # "idle" => upload[u].student \in Students
  /\ upload[u].pc = "claim" => upload[u].password \in Passwords
  /\ upload[u].pc = "publish" => /\ upload[u].id = drawn /\ upload[u].id \in files
                                 /\ rows[upload[u].id].status = "NONE"
  /\ upload[u].pc # "publish" => upload[u].id = 0

\* Only one task is between two waits.
OneTaskRuns ==
  \A u \in Uploaders : upload[u].pc \in {"claim", "publish"} =>
    /\ cleanup.pc \in {"idle", "lock"}
    /\ \A v \in Uploaders \ {u} : upload[v].pc \in {"idle", "save"}

CleanupFacts ==
  /\ \A a \in cleanup.todo : rows[a].status # "NONE"
  /\ cleanup.pc \in {"lock", "check", "removed"} =>
       cleanup.target \in Ids /\ rows[cleanup.target].status # "NONE"
  /\ cleanup.pc = "removed" => /\ rows[cleanup.target].status = "READY"
                               /\ cleanup.target \notin InUse \cup files

(* The conjunction that every step preserves: FilesMatchRows and           *)
(* UsedArtifactIsReady with what the steps of artifact_store.py and        *)
(* artifact_cleanup.py have done between two waits.                        *)
StorageInvariant ==
  /\ TypeOK /\ RowsAreDrawn
  /\ \A u \in Uploaders : UploadFacts(u)
  /\ OneTaskRuns /\ CleanupFacts
  /\ FilesMatchRows /\ UsedArtifactIsReady
=============================================================================
