----------------------------- MODULE StudentAuth -----------------------------
(***************************************************************************)
(* student_auth.py: a student id belongs to whoever uploads first. Hashing *)
(* does not wait for anything, so within one process only another Central  *)
(* process can come between the look at the table and the insertion.       *)
(* Requests that are refused at once change nothing and are left out.      *)
(***************************************************************************)
EXTENDS StorageState

\* Authenticated: the password is not needed any more.
Saving(s) == [pc |-> "save", student |-> s, password |-> None, id |-> 0]

\* POST /fpga/artifacts, authenticate_or_register: an unregistered id is to be claimed,
\* the password of a registered one has to match.
PostUpload(u) ==
  /\ EventLoopFree /\ upload[u].pc = "idle"
  /\ \E s \in Students, p \in Passwords :
       /\ credential[s] \in {None, p}
       /\ upload' = [upload EXCEPT ![u] =
                       IF credential[s] = None
                       THEN [pc |-> "claim", student |-> s, password |-> p, id |-> 0]
                       ELSE Saving(s)]
  /\ UNCHANGED <<credential, store, users, cleanup, bounds>>

\* Mistaken form of MaySave: whoever lost the race goes on as if he had won it.
SavesAnyway(u) == TRUE
\* After an IntegrityError the password has to match the row that won.
MaySave(u) == credential[upload[u].student] = upload[u].password

\* The second half of authenticate_or_register: insert, or authenticate after all.
Claim(u) ==
  LET s == upload[u].student
      p == upload[u].password
  IN
  /\ upload[u].pc = "claim"
  /\ \/ /\ credential[s] = None
        /\ credential' = [credential EXCEPT ![s] = p]
        /\ upload' = [upload EXCEPT ![u] = Saving(s)]
     \/ /\ credential[s] # None
        /\ upload' = [upload EXCEPT ![u] = IF MaySave(u) THEN Saving(s) ELSE NoUpload]
        /\ UNCHANGED credential
  /\ UNCHANGED <<store, users, cleanup, bounds>>

\* Another Central process on the same database registers the student.
OtherCentralClaims(s) ==
  /\ credential[s] = None
  /\ \E p \in Passwords : credential' = [credential EXCEPT ![s] = p]
  /\ UNCHANGED <<store, upload, users, cleanup, bounds>>

\* change_password with the right old password.
ChangePassword(s) ==
  /\ EventLoopFree /\ credential[s] # None
  /\ \E p \in Passwords : credential' = [credential EXCEPT ![s] = p]
  /\ UNCHANGED <<store, upload, users, cleanup, bounds>>
=============================================================================
