--------------------------- MODULE ArtifactCleanup ---------------------------
(***************************************************************************)
(* artifact_cleanup.py: an administrator removes old artifacts (execute)   *)
(* or a single one (delete_artifact), one administrator at a time. Each    *)
(* artifact is looked at again under its student's lock, for which the     *)
(* task may have to wait; check, removal of the files and ARCHIVED follow  *)
(* one another without a wait, but a crash may fall between them.          *)
(***************************************************************************)
EXTENDS StorageState

\* _in_use_ids, over requests, leases and boards.
InUse == ((UNION {bound[s] : s \in Students}) \cup {held[s] : s \in Students}
            \cup {shown[b] : b \in Boards}) \ {0}

\* _cleanup_protected_ids: the newest READY artifact of each student stays, too.
Protected == InUse \cup {NewestReady(s) : s \in Students}

\* preview: what execute starts from.
Candidates == {a \in Ids : rows[a].status = "READY"} \ Protected

StartCleanup ==
  /\ EventLoopFree /\ cleanup.pc = "idle"
  /\ cleanup' = [NoCleanup EXCEPT !.pc = "next", !.by = "cleanup", !.todo = Candidates]
  /\ UNCHANGED <<credential, store, upload, users, bounds>>

StartDelete ==
  /\ EventLoopFree /\ cleanup.pc = "idle"
  /\ \E a \in Ids :
       /\ rows[a].status # "NONE"
       /\ cleanup' = [NoCleanup EXCEPT !.pc = "next", !.by = "delete", !.todo = {a}]
  /\ UNCHANGED <<credential, store, upload, users, bounds>>

\* Mistaken form of Without: the list is never shortened.
WithAll(a) == cleanup.todo
Without(a) == cleanup.todo \ {a}

\* The next artifact, oldest first for each student, waiting for a lock that is taken.
TakeNext ==
  /\ cleanup.pc = "next"
  /\ \/ cleanup.todo = {} /\ cleanup' = NoCleanup
     \/ \E a \in cleanup.todo :
          /\ \A c \in cleanup.todo :
               rows[c].student = rows[a].student => rows[a].created <= rows[c].created
          /\ cleanup' = [cleanup EXCEPT !.target = a, !.todo = Without(a),
                           !.pc = IF rows[a].student \in locked THEN "lock" ELSE "check"]
  /\ UNCHANGED <<credential, store, upload, users, bounds>>

LockStudent ==
  /\ EventLoopFree /\ cleanup.pc = "lock"
  /\ rows[cleanup.target].student \notin locked
  /\ cleanup' = [cleanup EXCEPT !.pc = "check"]
  /\ UNCHANGED <<credential, store, upload, users, bounds>>

\* Mistaken form of MayRemove: execute goes by what it has previewed.
MayRemovePreviewed(a) ==
  /\ rows[a].status = "READY"
  /\ cleanup.by = "delete" => a \notin InUse

\* Mistaken form of MayRemove: a deletion does not ask who uses the artifact.
MayRemoveUnasked(a) ==
  /\ rows[a].status = "READY"
  /\ cleanup.by = "cleanup" => a \notin Protected

\* The check under the student's lock; an administrator may delete the newest one.
MayRemove(a) ==
  /\ rows[a].status = "READY"
  /\ a \notin (IF cleanup.by = "cleanup" THEN Protected ELSE InUse)

Skip ==
  /\ cleanup.pc = "check" /\ ~MayRemove(cleanup.target)
  /\ cleanup' = [cleanup EXCEPT !.pc = "next"]
  /\ UNCHANGED <<credential, store, upload, users, bounds>>

RemoveDirectory ==
  /\ cleanup.pc = "check" /\ MayRemove(cleanup.target)
  /\ files' = files \ {cleanup.target}
  /\ cleanup' = [cleanup EXCEPT !.pc = "removed"]
  /\ UNCHANGED <<credential, rows, drawn, damaged, upload, users, bounds>>

\* rmtree raises, perhaps halfway: the artifact stays READY.
RemoveFails ==
  /\ cleanup.pc = "check" /\ MayRemove(cleanup.target) /\ Fault
  /\ files' \in {files, files \ {cleanup.target}}
  /\ damaged' = damaged \cup {cleanup.target}
  /\ cleanup' = [cleanup EXCEPT !.pc = "next"]
  /\ UNCHANGED <<credential, rows, drawn, upload, users>>

Archive ==
  /\ cleanup.pc = "removed"
  /\ rows' = [rows EXCEPT ![cleanup.target] = [@ EXCEPT !.status = "ARCHIVED"]]
  /\ cleanup' = [cleanup EXCEPT !.pc = "next"]
  /\ UNCHANGED <<credential, drawn, files, damaged, upload, users, bounds>>

\* The commit raises out of the whole cleanup: READY, without files.
ArchiveFails ==
  /\ cleanup.pc = "removed" /\ Fault
  /\ damaged' = damaged \cup {cleanup.target}
  /\ cleanup' = NoCleanup
  /\ UNCHANGED <<credential, rows, drawn, files, upload, users>>
=============================================================================
