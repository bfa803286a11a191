------------------------ MODULE FileCredentialStore ------------------------
(***************************************************************************)
(* The credential cache of one product on disk,                            *)
(* core/src/platform/auth/file.rs.  One worker thread owns a store, so     *)
(* calls never overlap; what interleaves with the steps of a `store` is    *)
(* the operating system: an I/O error at any step, the process dying, and  *)
(* the machine losing power with part of its writes not yet on the disk.   *)
(*                                                                         *)
(* A file is its content and whether `sync_all` has put that content on    *)
(* the disk.  The directory entry of the keyed file has a copy of its own  *)
(* on the disk (`onDisk`): a rename or a removal reaches it later.         *)
(***************************************************************************)
CONSTANTS
  Credentials,   \* the credentials Battle.net issues (of a valid length)
  Invalid,       \* a credential that is empty or longer than MAX_CREDENTIAL_BYTES
  Torn,          \* the content of a file whose bytes never reached the disk
  NoFile,        \* there is no file at the path
  LegacyFiles    \* what the un-keyed file may hold when the program starts

ASSUME SpecialsAssumption ==
  /\ {NoFile, Torn, Invalid} \cap Credentials = {}
  /\ NoFile # Torn
  /\ Invalid \notin {NoFile, Torn}
ASSUME LegacyAssumption == LegacyFiles \subseteq Credentials \cup {NoFile}

VARIABLES
  keyed,     \* the file at `path`
  onDisk,    \* that directory entry as the disk holds it
  legacy,    \* the content of the un-keyed file at `legacy`, or NoFile
  tmp,       \* the temporary of the store in progress, or NoFile
  orphans,   \* contents of temporaries nobody will remove
  pc,        \* the next step of the store in progress, or "idle"
  arg,       \* the credential that store was given
  result,    \* the answer to the last call
  promoted   \* a store has put a credential at `path`, and no power loss undid it

vars == <<keyed, onDisk, legacy, tmp, orphans, pc, arg, result, promoted>>

Contents == Credentials \cup {Torn}
Files == [body : Contents, synced : BOOLEAN]
ASSUME FilesAssumption == NoFile \notin Files
Steps == {"idle", "write", "rename", "secure"}
Err == "err"
Ok == "ok"
Answers ==
  [op : {"none", "load", "store", "delete"}, answer : Contents \cup {NoFile, Ok, Err}]

TypeOK ==
  /\ keyed \in Files \cup {NoFile}
  /\ onDisk \in Files \cup {NoFile}
  /\ legacy \in Credentials \cup {NoFile}
  /\ tmp \in Files \cup {NoFile}
  /\ orphans \subseteq Contents
  /\ pc \in Steps
  /\ arg \in Credentials \cup {Invalid, NoFile}
  /\ result \in Answers
  /\ promoted \in BOOLEAN

Answer(op, value) == [op |-> op, answer |-> value]
File(content, isSynced) == [body |-> content, synced |-> isSynced]
Body(file) == IF file = NoFile THEN NoFile ELSE file.body

Init ==
  /\ keyed \in {NoFile} \cup {File(c, TRUE) : c \in Credentials}
  /\ onDisk = keyed
  /\ legacy \in LegacyFiles
  /\ tmp = NoFile
  /\ orphans = {}
  /\ pc = "idle"
  /\ arg = NoFile
  /\ result = Answer("none", Ok)
  /\ promoted = FALSE

-----------------------------------------------------------------------------
(* load: the keyed file or, when it is absent, the legacy one.             *)

LoadPath == IF keyed = NoFile /\ legacy # NoFile THEN legacy ELSE Body(keyed)

Load ==
  /\ pc = "idle"
  /\ \E value \in {LoadPath, Err} : result' = Answer("load", value)
  /\ UNCHANGED <<keyed, onDisk, legacy, tmp, orphans, pc, arg, promoted>>

-----------------------------------------------------------------------------
(* store: a private temporary, its bytes synced, renamed over the path.    *)

Return(value) ==
  /\ pc' = "idle"
  /\ result' = Answer("store", value)

\* `let _ = fs::remove_file(&temporary)`: the removal may fail unnoticed.
RemoveTemporary ==
  /\ tmp' = NoFile
  /\ orphans' \in {orphans, orphans \cup {tmp.body}}

StoreRejected(credential) ==
  /\ pc = "idle"
  /\ credential = Invalid
  /\ arg' = credential
  /\ Return(Err)
  /\ UNCHANGED <<keyed, onDisk, legacy, tmp, orphans, promoted>>

\* Mutant: no length check.
StoreCreateUnchecked(credential) ==
  /\ pc = "idle"
  /\ arg' = credential
  /\ tmp' = File(credential, FALSE)
  /\ pc' = "write"
  /\ UNCHANGED <<keyed, onDisk, legacy, orphans, result, promoted>>

StoreCreate(credential) ==
  /\ pc = "idle"
  /\ credential # Invalid
  /\ arg' = credential
  /\ \/ /\ tmp' = File(credential, FALSE)
        /\ pc' = "write"
        /\ UNCHANGED result
     \/ Return(Err) /\ UNCHANGED tmp
  /\ UNCHANGED <<keyed, onDisk, legacy, orphans, promoted>>

\* Mutant: write_all without sync_all.
StoreWriteUnsynced ==
  /\ pc = "write"
  /\ tmp' = File(arg, FALSE)
  /\ pc' = "rename"
  /\ UNCHANGED <<keyed, onDisk, legacy, orphans, arg, result, promoted>>

\* Mutant: the old file is removed first, to make room for the rename.
StoreWriteRemovingOld ==
  /\ pc = "write"
  /\ tmp' = File(arg, TRUE)
  /\ keyed' = NoFile
  /\ pc' = "rename"
  /\ UNCHANGED <<onDisk, legacy, orphans, arg, result, promoted>>

StoreWrite ==
  /\ pc = "write"
  /\ \/ /\ tmp' = File(arg, TRUE)
        /\ pc' = "rename"
        /\ UNCHANGED <<orphans, result>>
     \/ RemoveTemporary /\ Return(Err)
  /\ UNCHANGED <<keyed, onDisk, legacy, arg, promoted>>

StoreRename ==
  /\ pc = "rename"
  /\ \/ /\ keyed' = tmp
        /\ tmp' = NoFile
        /\ pc' = "secure"
        /\ promoted' = TRUE
        /\ UNCHANGED <<orphans, result>>
     \/ RemoveTemporary /\ Return(Err) /\ UNCHANGED <<keyed, promoted>>
  /\ UNCHANGED <<onDisk, legacy, arg>>

StoreSecure ==
  /\ pc = "secure"
  /\ \E value \in {Ok, Err} : Return(value)
  /\ UNCHANGED <<keyed, onDisk, legacy, tmp, orphans, arg, promoted>>

-----------------------------------------------------------------------------
(* delete: the keyed file only; an absent file is a success.               *)

Delete ==
  /\ pc = "idle"
  /\ \/ keyed' = NoFile /\ result' = Answer("delete", Ok)
     \/ keyed # NoFile /\ keyed' = keyed /\ result' = Answer("delete", Err)
  /\ UNCHANGED <<onDisk, legacy, tmp, orphans, pc, arg, promoted>>

-----------------------------------------------------------------------------
(* The operating system.                                                   *)

Writeback ==
  /\ onDisk' = keyed
  /\ UNCHANGED <<keyed, legacy, tmp, orphans, pc, arg, result, promoted>>

\* The process is gone: the store in progress stops where it is.
Restart ==
  /\ pc' = "idle"
  /\ arg' = NoFile
  /\ tmp' = NoFile
  /\ result' = Answer("none", Ok)
  /\ UNCHANGED <<onDisk, legacy>>

Crash ==
  /\ Restart
  /\ orphans' = orphans \cup (IF tmp = NoFile THEN {} ELSE {tmp.body})
  /\ UNCHANGED <<keyed, promoted>>

\* What a power loss leaves of a file: bytes that were not synced may be lost.
Survivors(file) ==
  IF file = NoFile \/ file.synced THEN {file} ELSE {file, File(Torn, FALSE)}

PowerLoss ==
  /\ Restart
  /\ keyed' \in Survivors(onDisk)
  /\ promoted' = (promoted /\ onDisk # NoFile)
  /\ orphans' \in
       {orphans, orphans \cup (IF tmp = NoFile THEN {} ELSE {f.body : f \in Survivors(tmp)})}

Next ==
  \/ Load
  \/ \E credential \in Credentials \cup {Invalid} :
       StoreRejected(credential) \/ StoreCreate(credential)
  \/ StoreWrite
  \/ StoreRename
  \/ StoreSecure
  \/ Delete
  \/ Writeback
  \/ Crash
  \/ PowerLoss

Spec == Init /\ [][Next]_vars

-----------------------------------------------------------------------------
\* No load ever hands a session part of a credential: whatever an I/O error,
\* a crash or a power loss interrupted, the keyed file, as seen now and as the
\* disk holds it, is absent or whole and synced.
CacheNeverTorn ==
  \A file \in {keyed, onDisk} :
    file # NoFile => file.body # Torn /\ file.synced

\* The strengthening that makes it inductive: a temporary that is about to be
\* renamed holds exactly the credential of the call, on the disk already.
StoreProgress ==
  /\ pc \in {"write", "rename"} => arg \in Credentials
  /\ pc = "write" => tmp = File(arg, FALSE)
  /\ pc = "rename" => tmp = File(arg, TRUE)
  /\ pc \in {"idle", "secure"} => tmp = NoFile

\* file.rs:50, "fall back to the un-keyed file exactly once", and file.rs:36,
\* "promoted to it on the next store": once a store has put a credential at the
\* keyed path, no load answers with the legacy one instead.  Does not hold:
\* nothing removes the legacy file, and a delete makes load find it again.
LegacyReadOnce ==
  [][Load /\ result'.answer = legacy /\ legacy # NoFile /\ promoted
       => Body(keyed) = legacy]_vars

-----------------------------------------------------------------------------
(* The file store implements the cell of the trait wherever no legacy file *)
(* stands behind it.  A store takes effect with its rename; its answer may *)
(* still turn into an error when the permissions cannot be set.            *)

Cell == INSTANCE CredentialStore WITH
  cell <- Body(keyed),
  disk <- Body(onDisk),
  phase <- CASE pc = "idle" -> "idle"
             [] pc \in {"write", "rename"} -> "storing"
             [] pc = "secure" -> "stored",
  storing <- IF pc \in {"write", "rename"} THEN arg ELSE NoFile,
  result <- result

ImplementsCell == Cell!Spec
=============================================================================
