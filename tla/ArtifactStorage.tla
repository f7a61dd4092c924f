--------------------------- MODULE ArtifactStorage ---------------------------
(***************************************************************************)
(* Artifacts from upload to removal: students uploading, submitting and    *)
(* changing passwords, administrators cleaning up, the lease manager and   *)
(* the monitor using artifacts, and Central crashing.                      *)
(***************************************************************************)
EXTENDS StudentAuth, ArtifactStore, ArtifactCleanup

Use == INSTANCE ArtifactUse WITH newest <- [s \in Students |-> NewestReady(s)]

\* submit_predict: the handler may go on to a deployment and keep the student's lock.
Submit(s) ==
  /\ EventLoopFree /\ s \notin locked
  /\ Use!Bind(s)
  /\ locked' \in {locked, locked \cup {s}}
  /\ UNCHANGED <<credential, store, upload, cleanup, bounds>>

\* The allocator, the reaper or an administrator takes the lock for a while.
TakeLock(s) ==
  /\ EventLoopFree /\ s \notin locked
  /\ locked' = locked \cup {s}
  /\ UNCHANGED <<credential, store, upload, bound, held, shown, cleanup, bounds>>
ReturnLock(s) ==
  /\ EventLoopFree /\ s \in locked
  /\ locked' = locked \ {s}
  /\ UNCHANGED <<credential, store, upload, bound, held, shown, cleanup, bounds>>

\* Under the lock, a bound artifact is read from its files and sent to a board, whose
\* answer arrives or is lost.
Deploy(s, b) ==
  /\ EventLoopFree /\ s \in locked
  /\ \E a \in bound[s] \cap files :
       Use!DeployUse(s, b, a) \/ Use!LetGo({}, {s}, {})
  /\ UNCHANGED <<credential, store, upload, locked, cleanup, bounds>>

\* The monitor finds a lease on b that no row knows of, with an artifact that may be long
\* out of use: b keeps what it was given across any restart of Central.
Report(b) ==
  /\ EventLoopFree
  /\ \E a \in Ids : rows[a].status # "NONE" /\ Use!ReportUse(b, a)
  /\ UNCHANGED <<credential, store, upload, locked, cleanup, bounds>>

\* A request ends; a lease or a board is given up.
EndUse ==
  /\ EventLoopFree
  /\ \/ \E s \in Students : \E a \in bound[s] : Use!LetGo({<<s, a>>}, {}, {})
     \/ \E s \in Students : Use!LetGo({}, {s}, {})
     \/ \E b \in Boards : Use!LetGo({}, {}, {b})
  /\ UNCHANGED <<credential, store, upload, locked, cleanup, bounds>>

\* Central dies and is started again. Tables and directories stay.
Crash ==
  /\ faults + crashes < MaxFaults /\ crashes' = crashes + 1
  /\ upload' = [u \in Uploaders |-> NoUpload] /\ cleanup' = NoCleanup /\ locked' = {}
  /\ damaged' = IF cleanup.pc = "removed" THEN damaged \cup {cleanup.target} ELSE damaged
  /\ UNCHANGED <<credential, rows, drawn, files, bound, held, shown, faults>>

-----------------------------------------------------------------------------
UploadTask(u) == Claim(u) \/ InsertRow(u) \/ InsertFails(u)
CleanupTask == TakeNext \/ LockStudent \/ Skip \/ RemoveDirectory \/ RemoveFails
               \/ Archive \/ ArchiveFails

Next ==
  \/ \E u \in Uploaders : PostUpload(u) \/ SaveFails(u) \/ MoveToFinal(u) \/ UploadTask(u)
  \/ \E s \in Students : \/ OtherCentralClaims(s) \/ ChangePassword(s)
                         \/ Submit(s) \/ TakeLock(s) \/ ReturnLock(s)
                         \/ \E b \in Boards : Deploy(s, b)
  \/ \E b \in Boards : Report(b)
  \/ StartCleanup \/ StartDelete \/ CleanupTask \/ EndUse \/ Crash

Spec == Init /\ [][Next]_vars

(* The task that has the event loop goes on, the lease manager's calls end *)
(* and give the student's lock back, and a cleanup that waits for the lock *)
(* gets it, since asyncio hands locks on in order. Nothing is assumed of   *)
(* students, administrators, boards and errors.                            *)
Fairness ==
  /\ \A u \in Uploaders : WF_vars(UploadTask(u))
  /\ \A s \in Students : SF_vars(ReturnLock(s))
  /\ SF_vars(CleanupTask)

FairSpec == Spec /\ Fairness
=============================================================================
