-------------------------- MODULE StorageProperties --------------------------
(***************************************************************************)
(* What must be true of stored artifacts: whose they are, that rows and    *)
(* files agree, and that nothing in use is removed.                        *)
(***************************************************************************)
EXTENDS ArtifactStorage

(* An id has one owner: of two first uploads that race for it, across two  *)
(* Central processes if need be, only the winner's password counts; the    *)
(* loser goes on only with that password and never replaces it.            *)
OneOwnerPerId ==
  [][\A u \in Uploaders :
       LET s == upload[u].student IN
       (upload[u].pc = "claim" /\ upload'[u].pc # "claim") =>
         /\ upload'[u].pc = "save" => credential'[s] = upload[u].password
         /\ credential[s] # None => credential'[s] = credential[s]]_vars

(* An upload never fails over its version: the one that _next_version      *)
(* draws is free, whatever has been archived and whoever uploads.          *)
DrawnVersionIsFree ==
  \A u \in Uploaders : upload[u].pc = "publish" => ~VersionTaken(upload[u].student)

\* Directories that no row and no upload knows of.
Orphans == {a \in files : rows[a].status = "NONE" /\ \A u \in Uploaders : upload[u].id # a}

(* Rows and directories agree: a READY artifact has its files unless a     *)
(* removal was cut short, an ARCHIVED one has none, and a directory        *)
(* without a row is left only by a crash between the two.                  *)
FilesMatchRows ==
  /\ \A a \in Ids : rows[a].status = "READY" =>
       a \in files \/ a \in damaged \/ (cleanup.pc = "removed" /\ cleanup.target = a)
  /\ \A a \in Ids : rows[a].status = "ARCHIVED" => a \notin files
  /\ Cardinality(Orphans) <= crashes

(* The artifact of an unfinished request, or of a lease, can be deployed:  *)
(* it is READY and has its files, unless a removal of that very artifact   *)
(* was cut short. A submission, a deployment and the two ways of removal   *)
(* meet only through the student's lock and the order of its checks.       *)
UsedArtifactIsReady ==
  \A s \in Students : \A a \in (bound[s] \cup {held[s]}) \ {0} :
    rows[a].status = "READY" /\ (a \in files \/ a \in damaged)

(* Files are removed only while no request, lease or board row names the   *)
(* artifact, though it may have come into use since the preview; execute   *)
(* never removes the newest READY artifact of a student.                   *)
RemovesOnlyUnused ==
  [][\A a \in files \ files' : rows[a].status = "READY" =>
       /\ a \notin InUse
       /\ cleanup.by = "cleanup" => a # NewestReady(rows[a].student)]_vars

(* Cleanup and deletion end, though students keep submitting and their     *)
(* locks keep being taken, and though a removal may fail.                  *)
CleanupEnds == cleanup.pc # "idle" ~> cleanup.pc = "idle"
=============================================================================
