----------------------------- MODULE BackupStore -----------------------------
(***************************************************************************)
(* What the repository promises its users, with nothing of how it is       *)
(* stored: an archive does not exist, then it is committed and can be      *)
(* restored, and it stays restorable until somebody deletes it.  There is  *)
(* no step on which a committed archive stops being restorable.            *)
(***************************************************************************)

CONSTANT Archives   \* every archive that may ever be created

VARIABLE status     \* status[a]: what a user can do with archive a

Status == {"new", "restorable", "damaged", "deleted"}

TypeOK == status \in [Archives -> Status]

Init == status = [a \in Archives |-> "new"]

\* The archive appears in the listing and every byte of it can be read.
Commit(a) ==
  /\ status[a] = "new"
  /\ status' = [status EXCEPT ![a] = "restorable"]

\* The archive is taken out of the listing.
Delete(a) ==
  /\ status[a] = "restorable"
  /\ status' = [status EXCEPT ![a] = "deleted"]

Next == \E a \in Archives : Commit(a) \/ Delete(a)

Spec == Init /\ [][Next]_status
==============================================================================
