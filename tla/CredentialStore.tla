-------------------------- MODULE CredentialStore --------------------------
(***************************************************************************)
(* What a session may rely on of the trait CredentialStore                 *)
(* (core/src/platform/auth/credentials.rs): one cell that holds a whole    *)
(* credential or nothing.  `load` reads it, `store` replaces it, `delete`  *)
(* clears it, each of them may fail, and a failing `store` has either      *)
(* replaced the cell or left it alone.                                     *)
(*                                                                         *)
(* `disk` is the cell as a power loss would leave it: the operating system *)
(* writes it back in its own time.                                         *)
(***************************************************************************)
CONSTANTS
  Credentials,   \* the credentials Battle.net issues
  NoFile         \* no credential is cached

VARIABLES
  cell,      \* what the next load returns
  disk,      \* what the cell becomes if the machine loses power now
  phase,     \* how far the store in progress is
  storing,   \* the credential that store was given, or NoFile
  result     \* the answer to the last call

vars == <<cell, disk, phase, storing, result>>

Cells == Credentials \cup {NoFile}

Err == "err"
Ok == "ok"
Answers == [op : {"none", "load", "store", "delete"}, answer : Cells \cup {Ok, Err}]

TypeOK ==
  /\ cell \in Cells
  /\ disk \in Cells
  /\ phase \in {"idle", "storing", "stored"}
  /\ storing \in Cells
  /\ result \in Answers

Answer(op, value) == [op |-> op, answer |-> value]

Init ==
  /\ cell \in Cells
  /\ disk = cell
  /\ phase = "idle"
  /\ storing = NoFile
  /\ result = Answer("none", Ok)

Load ==
  /\ phase = "idle"
  /\ \E value \in {cell, Err} : result' = Answer("load", value)
  /\ UNCHANGED <<cell, disk, phase, storing>>

StoreStart(credential) ==
  /\ phase = "idle"
  /\ phase' = "storing"
  /\ storing' = credential
  /\ UNCHANGED <<cell, disk, result>>

\* The one point at which a store takes effect.
StoreCommit ==
  /\ phase = "storing"
  /\ phase' = "stored"
  /\ cell' = storing
  /\ storing' = NoFile
  /\ UNCHANGED <<disk, result>>

StoreReturn ==
  /\ phase = "stored"
  /\ phase' = "idle"
  /\ \E value \in {Ok, Err} : result' = Answer("store", value)
  /\ UNCHANGED <<cell, disk, storing>>

\* Refused outright, or given up before it took effect.
StoreFail ==
  /\ phase \in {"idle", "storing"}
  /\ phase' = "idle"
  /\ storing' = NoFile
  /\ result' = Answer("store", Err)
  /\ UNCHANGED <<cell, disk>>

Delete ==
  /\ phase = "idle"
  /\ \/ cell' = NoFile /\ result' = Answer("delete", Ok)
     \/ cell' = cell /\ result' = Answer("delete", Err)
  /\ UNCHANGED <<disk, phase, storing>>

Writeback ==
  /\ disk' = cell
  /\ UNCHANGED <<cell, phase, storing, result>>

\* The process dies, and with a power loss the machine with it.
Restart ==
  /\ phase' = "idle"
  /\ storing' = NoFile
  /\ result' = Answer("none", Ok)
  /\ cell' \in {cell, disk}
  /\ UNCHANGED disk

Next ==
  \/ Load
  \/ \E credential \in Credentials : StoreStart(credential)
  \/ StoreCommit
  \/ StoreReturn
  \/ StoreFail
  \/ Delete
  \/ Writeback
  \/ Restart

Spec == Init /\ [][Next]_vars
=============================================================================
