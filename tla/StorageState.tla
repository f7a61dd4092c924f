---------------------------- MODULE StorageState ----------------------------
(***************************************************************************)
(* What uploads, credentials and artifact cleanup share in the Central     *)
(* Server: the tables of credentials and artifacts, the directories under  *)
(* the artifact root, and who uses which artifact. The tasks of Central    *)
(* interleave where they wait; a crash may fall between any two steps.     *)
(***************************************************************************)
EXTENDS Naturals, FiniteSets

CONSTANTS
  Students,     \* student ids
  Boards,       \* boards
  Passwords,    \* acceptable passwords
  Uploaders,    \* upload requests handled at a time
  None,         \* NULL
  MaxUploads,   \* bound: artifact ids drawn
  MaxFaults     \* bound: file or database errors and crashes of Central

ASSUME NoneIsNothing == None \notin Students \cup Passwords
ASSUME StorageBounds == MaxUploads \in Nat /\ MaxFaults \in Nat

VARIABLES
  credential,   \* student_credentials: by student, the password or None
  rows,         \* the table of artifacts, by id
  drawn,        \* how many artifact ids have been drawn
  files,        \* the artifact directories that are there and complete
  damaged,      \* history: artifacts whose removal failed or was cut short
  upload,       \* by uploader, where its handler stands
  bound, held, shown,   \* see ArtifactUse
  locked,       \* the students whose lock a task of the lease manager holds
  cleanup,      \* the cleanup or deletion that holds cleanup_lock
  faults,       \* how many files or transactions have failed
  crashes       \* how often Central has crashed

store    == <<rows, drawn, files, damaged>>
users    == <<bound, held, shown, locked>>
bounds   == <<faults, crashes>>
vars     == <<credential, store, upload, users, cleanup, bounds>>

Ids == 1 .. MaxUploads

Row == [student: Students \cup {None}, version: 0 .. MaxUploads, created: 0 .. MaxUploads,
        status: {"NONE", "READY", "ARCHIVED"}]
NoRow == [student |-> None, version |-> 0, created |-> 0, status |-> "NONE"]

Upload == [pc: {"idle", "claim", "save", "publish"}, student: Students \cup {None},
           password: Passwords \cup {None}, id: Ids \cup {0}]
NoUpload == [pc |-> "idle", student |-> None, password |-> None, id |-> 0]

Cleanup == [pc: {"idle", "next", "lock", "check", "removed"},
            by: {"nobody", "cleanup", "delete"}, todo: SUBSET Ids, target: Ids \cup {0}]
NoCleanup == [pc |-> "idle", by |-> "nobody", todo |-> {}, target |-> 0]

TypeOK ==
  /\ credential \in [Students -> Passwords \cup {None}]
  /\ rows \in [Ids -> Row] /\ drawn \in 0 .. MaxUploads
  /\ files \in SUBSET Ids /\ damaged \in SUBSET Ids
  /\ upload \in [Uploaders -> Upload]
  /\ bound \in [Students -> SUBSET Ids] /\ held \in [Students -> Ids \cup {0}]
  /\ shown \in [Boards -> Ids \cup {0}]
  /\ locked \in SUBSET Students /\ cleanup \in Cleanup
  /\ faults \in 0 .. MaxFaults /\ crashes \in 0 .. MaxFaults

Init ==
  /\ credential = [s \in Students |-> None]
  /\ rows = [a \in Ids |-> NoRow] /\ drawn = 0 /\ files = {} /\ damaged = {}
  /\ upload = [u \in Uploaders |-> NoUpload]
  /\ bound = [s \in Students |-> {}] /\ held = [s \in Students |-> 0]
  /\ shown = [b \in Boards |-> 0] /\ locked = {}
  /\ cleanup = NoCleanup /\ faults = 0 /\ crashes = 0

-----------------------------------------------------------------------------
\* A task that has not reached an await that really waits keeps the event loop.
EventLoopFree ==
  /\ \A u \in Uploaders : upload[u].pc \in {"idle", "save"}
  /\ cleanup.pc \in {"idle", "lock"}

Fault == faults + crashes < MaxFaults /\ faults' = faults + 1 /\ UNCHANGED crashes

RowsOf(s)  == {a \in Ids : rows[a].status # "NONE" /\ rows[a].student = s}
ReadyOf(s) == {a \in RowsOf(s) : rows[a].status = "READY"}

\* The READY artifact of s created last, or 0: what a new request is bound to.
NewestReady(s) ==
  IF ReadyOf(s) = {} THEN 0
  ELSE CHOOSE a \in ReadyOf(s) : \A c \in ReadyOf(s) : rows[c].created <= rows[a].created
=============================================================================
