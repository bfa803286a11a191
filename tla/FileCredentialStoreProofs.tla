--------------------- MODULE FileCredentialStoreProofs ---------------------
(* For every set of credentials: the cache file is never torn, and the     *)
(* file store implements the abstract cell of the trait CredentialStore.   *)
EXTENDS FileCredentialStore, TLAPS

\* The inductive invariant: the types, the cache file whole and synced, and
\* the temporary holding what the store in progress will rename.
IInv == TypeOK /\ CacheNeverTorn /\ StoreProgress

LEMMA FileType ==
  ASSUME NEW c \in Contents, NEW b \in BOOLEAN
  PROVE  File(c, b) \in Files /\ File(c, b).body = c /\ File(c, b).synced = b
  BY DEF File, Files

LEMMA FileFields ==
  ASSUME NEW f \in Files
  PROVE  f.body \in Contents /\ f.synced \in BOOLEAN
  BY DEF Files

LEMMA AnswerType ==
  ASSUME NEW op \in {"none", "load", "store", "delete"},
         NEW value \in Contents \cup {NoFile, Ok, Err}
  PROVE  Answer(op, value) \in Answers
  BY DEF Answer, Answers

LEMMA InitIInv == Init => IInv
<1> SUFFICES ASSUME Init PROVE IInv
  OBVIOUS
<1>1. \A c \in Credentials : File(c, TRUE) \in Files /\ File(c, TRUE).body # Torn
                             /\ File(c, TRUE).synced
  BY FileType, SpecialsAssumption DEF Contents
<1>2. Answer("none", Ok) \in Answers
  BY AnswerType
<1>3. TypeOK
  BY <1>1, <1>2, LegacyAssumption DEF Init, TypeOK, Steps
<1>4. CacheNeverTorn /\ StoreProgress
  BY <1>1 DEF Init, CacheNeverTorn, StoreProgress
<1> QED
  BY <1>3, <1>4 DEF IInv

\* Every step of the store and of the operating system preserves it.
LEMMA NextIInv == IInv /\ [Next]_vars => IInv'
<1> SUFFICES ASSUME IInv, [Next]_vars PROVE IInv'
  OBVIOUS
<1> USE SpecialsAssumption DEF IInv, TypeOK, Steps
<1>a. \A c \in Credentials, b \in BOOLEAN :
        File(c, b) \in Files /\ File(c, b).body = c /\ File(c, b).synced = b
  BY FileType DEF Contents
<1>b. \A op \in {"none", "load", "store", "delete"} :
        /\ Answer(op, Ok) \in Answers
        /\ Answer(op, Err) \in Answers
        /\ Answer(op, NoFile) \in Answers
        /\ \A c \in Contents : Answer(op, c) \in Answers
  BY AnswerType
<1>c. \A f \in Files : f.body \in Contents
  BY FileFields
<1>1. CASE Load
  <2>1. LoadPath \in Contents \cup {NoFile}
    BY <1>c DEF LoadPath, Body, Contents
  <2> QED
    BY <1>1, <1>b, <2>1 DEF Load, CacheNeverTorn, StoreProgress
<1>2. ASSUME NEW credential \in Credentials \cup {Invalid}, StoreRejected(credential)
      PROVE IInv'
  BY <1>2, <1>b DEF StoreRejected, Return, CacheNeverTorn, StoreProgress
<1>3. ASSUME NEW credential \in Credentials \cup {Invalid}, StoreCreate(credential)
      PROVE IInv'
  BY <1>3, <1>a, <1>b DEF StoreCreate, Return, CacheNeverTorn, StoreProgress
<1>4. CASE StoreWrite
  BY <1>4, <1>a, <1>b, <1>c
  DEF StoreWrite, RemoveTemporary, Return, CacheNeverTorn, StoreProgress, Contents
<1>5. CASE StoreRename
  <2>1. /\ arg \in Credentials /\ tmp = File(arg, TRUE) /\ arg \in Contents /\ arg # Torn
    BY <1>5 DEF StoreRename, StoreProgress, Contents
  <2>2. tmp \in Files /\ tmp.body = arg /\ tmp.synced
    BY <2>1, <1>a
  <2>3. TypeOK'
    BY <1>5, <1>b, <2>1, <2>2 DEF StoreRename, RemoveTemporary, Return
  <2>4. CacheNeverTorn' /\ StoreProgress'
    BY <1>5, <2>1, <2>2
    DEF StoreRename, RemoveTemporary, Return, CacheNeverTorn, StoreProgress
  <2> QED
    BY <2>3, <2>4
<1>6. CASE StoreSecure
  BY <1>6, <1>b DEF StoreSecure, Return, CacheNeverTorn, StoreProgress
<1>7. CASE Delete
  BY <1>7, <1>b DEF Delete, CacheNeverTorn, StoreProgress
<1>8. CASE Writeback
  BY <1>8 DEF Writeback, CacheNeverTorn, StoreProgress
<1>9. CASE Crash
  BY <1>9, <1>b, <1>c DEF Crash, Restart, CacheNeverTorn, StoreProgress
<1>10. CASE PowerLoss
  <2>1. Survivors(onDisk) = {onDisk}
    BY DEF Survivors, CacheNeverTorn
  <2>2. ASSUME tmp # NoFile, NEW f \in Survivors(tmp) PROVE f.body \in Contents
    <3>1. File(Torn, FALSE).body = Torn /\ Torn \in Contents
      BY FileType DEF Contents
    <3> QED
      BY <2>2, <3>1, <1>c DEF Survivors
  <2> QED
    BY <1>10, <1>b, <2>1, <2>2 DEF PowerLoss, Restart, CacheNeverTorn, StoreProgress
<1>11. CASE UNCHANGED vars
  BY <1>11 DEF vars, CacheNeverTorn, StoreProgress
<1> QED
  BY <1>1, <1>2, <1>3, <1>4, <1>5, <1>6, <1>7, <1>8, <1>9, <1>10, <1>11 DEF Next

\* The inductive invariant holds in every reachable state.
THEOREM Inductive == Spec => []IInv
  BY InitIInv, NextIInv, PTL DEF Spec

\* The types of the store's state, for every set of credentials.
THEOREM StoreTypes == Spec => []TypeOK
<1>1. IInv => TypeOK
  BY DEF IInv
<1> QED
  BY <1>1, Inductive, PTL

\* FileCredentialStore::store and delete never leave a partial credential at
\* the keyed path, whatever error, crash or power loss interrupts them.
THEOREM NeverTorn == Spec => []CacheNeverTorn
<1>1. IInv => CacheNeverTorn
  BY DEF IInv
<1> QED
  BY <1>1, Inductive, PTL

-----------------------------------------------------------------------------
(* Refinement.  The rename is the abstract commit; creating and writing    *)
(* the temporary, and a step of the system that changes nothing a load can *)
(* see, are stuttering.                                                    *)

NoLegacy == legacy = NoFile

LEMMA InitRefines == Init => Cell!Init
<1> SUFFICES ASSUME Init PROVE Cell!Init
  OBVIOUS
<1>1. Body(keyed) \in Credentials \cup {NoFile}
  BY FileType DEF Init, Body, Contents
<1> QED
  BY <1>1 DEF Init, Cell!Init, Cell!Cells, Cell!Answer, Cell!Ok, Answer, Ok

\* Every step maps to a step of the cell or to a stutter.
LEMMA NextRefines == IInv /\ NoLegacy /\ [Next]_vars => [Cell!Next]_(Cell!vars)
<1> SUFFICES ASSUME IInv, NoLegacy, [Next]_vars PROVE [Cell!Next]_(Cell!vars)
  OBVIOUS
<1> USE SpecialsAssumption
    DEF IInv, Cell!vars, Cell!Ok, Cell!Err, Ok, Err, Cell!Answer, Answer
<1>1. CASE Load
  <2>1. LoadPath = Body(keyed)
    BY DEF LoadPath, NoLegacy, Body
  <2>2. Cell!Load
    BY <1>1, <2>1 DEF Load, Cell!Load
  <2> QED
    BY <2>2 DEF Cell!Next
<1>2. ASSUME NEW credential \in Credentials \cup {Invalid}, StoreRejected(credential)
      PROVE [Cell!Next]_(Cell!vars)
  <2>1. Cell!StoreFail
    BY <1>2 DEF StoreRejected, Return, Cell!StoreFail
  <2> QED
    BY <2>1 DEF Cell!Next
<1>3. ASSUME NEW credential \in Credentials \cup {Invalid}, StoreCreate(credential)
      PROVE [Cell!Next]_(Cell!vars)
  <2>1. CASE pc' = "write"
    <3>1. credential \in Credentials
      BY <1>3 DEF StoreCreate
    <3>2. Cell!StoreStart(credential)
      BY <1>3, <2>1 DEF StoreCreate, Return, Cell!StoreStart
    <3> QED
      BY <3>1, <3>2 DEF Cell!Next
  <2>2. CASE pc' # "write"
    <3>1. Cell!StoreFail
      BY <1>3, <2>2 DEF StoreCreate, Return, Cell!StoreFail
    <3> QED
      BY <3>1 DEF Cell!Next
  <2> QED
    BY <2>1, <2>2
<1>4. CASE StoreWrite
  <2>1. CASE pc' = "rename"
    BY <1>4, <2>1 DEF StoreWrite, Return
  <2>2. CASE pc' # "rename"
    <3>1. Cell!StoreFail
      BY <1>4, <2>2 DEF StoreWrite, Return, Cell!StoreFail
    <3> QED
      BY <3>1 DEF Cell!Next
  <2> QED
    BY <2>1, <2>2
<1>5. CASE StoreRename
  <2>1. CASE pc' = "secure"
    <3>1. tmp = File(arg, TRUE) /\ arg \in Credentials
      BY <1>5 DEF StoreRename, StoreProgress
    <3>2. Body(keyed') = arg
      BY <1>5, <2>1, <3>1, FileType, FilesAssumption
      DEF StoreRename, Return, Body, Contents
    <3>3. Cell!StoreCommit
      BY <1>5, <2>1, <3>2 DEF StoreRename, Return, Cell!StoreCommit
    <3> QED
      BY <3>3 DEF Cell!Next
  <2>2. CASE pc' # "secure"
    <3>1. Cell!StoreFail
      BY <1>5, <2>2 DEF StoreRename, Return, Cell!StoreFail
    <3> QED
      BY <3>1 DEF Cell!Next
  <2> QED
    BY <2>1, <2>2
<1>6. CASE StoreSecure
  <2>1. Cell!StoreReturn
    BY <1>6 DEF StoreSecure, Return, Cell!StoreReturn
  <2> QED
    BY <2>1 DEF Cell!Next
<1>7. CASE Delete
  <2>1. Cell!Delete
    BY <1>7 DEF Delete, Cell!Delete, Body
  <2> QED
    BY <2>1 DEF Cell!Next
<1>8. CASE Writeback
  <2>1. Cell!Writeback
    BY <1>8 DEF Writeback, Cell!Writeback
  <2> QED
    BY <2>1 DEF Cell!Next
<1>9. CASE Crash
  <2>1. Cell!Restart
    BY <1>9 DEF Crash, Restart, Cell!Restart
  <2> QED
    BY <2>1 DEF Cell!Next
<1>10. CASE PowerLoss
  <2>1. Survivors(onDisk) = {onDisk}
    BY DEF Survivors, CacheNeverTorn
  <2>2. Cell!Restart
    BY <1>10, <2>1 DEF PowerLoss, Restart, Cell!Restart
  <2> QED
    BY <2>2 DEF Cell!Next
<1>11. CASE UNCHANGED vars
  BY <1>11 DEF vars
<1> QED
  BY <1>1, <1>2, <1>3, <1>4, <1>5, <1>6, <1>7, <1>8, <1>9, <1>10, <1>11 DEF Next

\* FileCredentialStore implements the trait's cell for every product whose
\* store has no legacy file behind it: a load sees whole credentials only, and
\* each store takes effect at one point or not at all.
THEOREM FileStoreImplementsCell ==
  ASSUME LegacyFiles = {NoFile}
  PROVE  Spec => ImplementsCell
<1>1. Init => NoLegacy
  BY DEF Init, NoLegacy
<1>2. NoLegacy /\ [Next]_vars => NoLegacy'
  BY DEF NoLegacy, Next, vars, Load, StoreRejected, StoreCreate, StoreWrite,
         StoreRename, StoreSecure, Delete, Writeback, Crash, PowerLoss, Restart
<1> QED
  BY <1>1, <1>2, Inductive, InitRefines, NextRefines, PTL
  DEF Spec, ImplementsCell, Cell!Spec
=============================================================================
