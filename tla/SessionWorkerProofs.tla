------------------------- MODULE SessionWorkerProofs -------------------------
(***************************************************************************)
(* Safety of the worker for any set of accounts, any subset of the         *)
(* products and any number of commands.                                    *)
(*                                                                         *)
(* ConnectedAsExpected is about the end of a bring-up; Inv follows it back *)
(* to where it is established.  Past the check of the account (Proven),    *)
(* the account that signed in is the one expected; from the service's      *)
(* acceptance on (Identified), there is one at all.  SignOutForgets needs  *)
(* that no bring-up runs while a sign-out stands (Memory), and             *)
(* OnlyProvenCredentialKept that the browser's credential and the account  *)
(* that signed in belong together (Pending).                               *)
(***************************************************************************)
EXTENDS SessionWorker, LogonWatchdog, SequenceTheorems, TLAPS

\* The calls that follow the comparison with the expected account.
Proven ==
  {"s2.catalog", "s2.utilities", "s2.native", "s2.chat",
   "s1.handoff", "s1.establish", "s1.publish", "s1.join",
   "w3.endpoint", "w3.store", "w3.classic", "w3.chat", "w3.publish", "live"}

\* The calls that follow the service's naming of an account.
Identified == Proven \cup {"verify", "validate", "s2.successor", "s2.check"}

\* The un-keyed file is StarCraft II's alone.
FixedTypeOK == legacy \in (IF product = "S2" THEN Maybe ELSE {NoAccount}) /\ blocked \in BOOLEAN

ProvenIsExpected == pc \in Proven => att.expected \in {NoAccount, att.account}
IdentifiedIsSomebody == pc \in Identified => att.account # NoAccount

\* The inductive invariant.
Inv == ThreadTypeOK /\ ProvenIsExpected /\ IdentifiedIsSomebody

-----------------------------------------------------------------------------
LEMMA FreshType ==
  ASSUME NEW force \in BOOLEAN, NEW expected \in Maybe
  PROVE  Fresh(force, expected) \in Attempts
<1>1. (force /\ expected = NoAccount) \in BOOLEAN
  OBVIOUS
<1>2. QED
  BY <1>1 DEF Fresh, Attempts, Maybe, Errors

LEMMA CommandType ==
  ASSUME NEW command \in Commands
  PROVE  command.force \in BOOLEAN /\ command.account \in Maybe
  BY DEF Commands, Maybe

LEMMA TakeType ==
  ASSUME ThreadTypeOK, NEW kind, Take(kind)
  PROVE  /\ Head(commands) \in Commands
         /\ commands' \in Seq(Commands)
         /\ UNCHANGED <<product, appOpen, sent>>
  BY HeadTailProperties DEF ThreadTypeOK, Take

LEMMA TryFailsType ==
  ASSUME ThreadTypeOK, NEW error \in Errors, TryFails(error)
  PROVE  att' \in Attempts /\ pc' \in {"idle", "s1.outcome", "w3.outcome"}
<1>1. product \in {"S2", "S1", "W3"}
  BY ProductAssumption DEF ThreadTypeOK
<1>2. CASE product = "S2"
  BY <1>2 DEF ThreadTypeOK, TryFails, Fail
<1>3. CASE product = "S1"
  BY <1>3 DEF ThreadTypeOK, TryFails, Attempts
<1>4. CASE product = "W3"
  BY <1>4 DEF ThreadTypeOK, TryFails, Attempts
<1>5. QED
  BY <1>1, <1>2, <1>3, <1>4

LEMMA InitInv == Init => Inv
<1> SUFFICES ASSUME Init PROVE Inv
  OBVIOUS
<1>1. Fresh(FALSE, NoAccount) \in Attempts
  BY FreshType DEF Maybe
<1>2. appOpen \in BOOLEAN /\ cookie \in BOOLEAN /\ forgotten \in BOOLEAN
  BY Zenon DEF Init
<1>3. /\ product \in Products /\ commands = <<>> /\ sent = 0 /\ pc = "idle"
      /\ att = Fresh(FALSE, NoAccount) /\ cell \in Maybe /\ reply = "none"
  BY Zenon DEF Init
<1>4. commands \in Seq(Commands) /\ sent \in 0 .. MaxCommands
  BY <1>3, BoundAssumption
<1>5. ThreadTypeOK
  BY <1>1, <1>2, <1>3, <1>4 DEF ThreadTypeOK, Replies
<1>6. QED
  BY <1>3, <1>5 DEF Inv, ProvenIsExpected, IdentifiedIsSomebody, Proven, Identified

-----------------------------------------------------------------------------
LEMMA ApplicationInv == Inv /\ Application => Inv'
<1> USE DEF Inv, ThreadTypeOK, ProvenIsExpected, IdentifiedIsSomebody, env, store
<1>1. ASSUME Inv, NEW command \in Commands, Send(command) PROVE Inv'
  BY <1>1, BoundAssumption, AppendProperties DEF Send
<1>2. ASSUME Inv, Answer PROVE Inv'
  BY <1>2 DEF Answer, Replies
<1>3. ASSUME Inv, AppCloses PROVE Inv'
  BY <1>3 DEF AppCloses, Replies
<1>4. QED
  BY <1>1, <1>2, <1>3 DEF Application

LEMMA IdleInv == Inv /\ IdleNext => Inv'
<1> USE DEF Inv, ThreadTypeOK, ProvenIsExpected, IdentifiedIsSomebody, Proven, Identified, env, store
<1>1. ASSUME Inv, IdleConnect PROVE Inv'
  <2>1. att' \in Attempts
    BY <1>1, TakeType, CommandType, FreshType DEF IdleConnect
  <2>2. QED
    BY <1>1, <2>1, TakeType DEF IdleConnect, FirstCall, Bringup
<1>2. ASSUME Inv, IdleInstallCredential PROVE Inv'
  BY <1>2, TakeType, CommandType DEF IdleInstallCredential
<1>3. ASSUME Inv, IdleSignOut PROVE Inv'
  BY <1>3, TakeType DEF IdleSignOut, Maybe
<1>4. ASSUME Inv, IdleQuit PROVE Inv'
  BY <1>4, TakeType DEF IdleQuit
<1>5. ASSUME Inv, IdleIgnores PROVE Inv'
  BY <1>5, TakeType DEF IdleIgnores
<1>6. ASSUME Inv, IdleSenderGone PROVE Inv'
  BY <1>6 DEF IdleSenderGone
<1>7. QED
  BY <1>1, <1>2, <1>3, <1>4, <1>5, <1>6 DEF IdleNext

LEMMA LogonInv == Inv /\ LogonNext => Inv'
<1> USE DEF Inv, ThreadTypeOK, ProvenIsExpected, IdentifiedIsSomebody, Proven, Identified, env, store
<1>1. ASSUME Inv, LogonAccepted PROVE Inv'
  <2>1. att' \in Attempts
    BY <1>1 DEF LogonAccepted, Authenticated, Attempts
  <2>2. att'.account = att.cached
    BY <1>1 DEF LogonAccepted, Authenticated, Attempts
  <2>3. pc' \in {"s2.successor", "validate"}
    BY <1>1 DEF LogonAccepted, Authenticated
  <2>4. QED
    BY <1>1, <2>1, <2>2, <2>3 DEF LogonAccepted, Bringup
<1>2. ASSUME Inv, LogonChallenged PROVE Inv'
  <2> DEFINE stale == product # "S1" /\ att.cached # NoAccount /\ ~att.deleted
  <2>1. CASE TryFails("authentication") /\ UNCHANGED <<cell, reply, cookie, forgotten, env>>
    BY <1>2, <2>1, TryFailsType DEF Errors, Bringup
  <2>2. CASE /\ cell' = IF stale THEN NoAccount ELSE cell
             /\ att' = [att EXCEPT !.deleted = att.deleted \/ stale]
             /\ pc' = "browser"
             /\ reply' = IF appOpen THEN "waiting" ELSE "dropped"
             /\ UNCHANGED <<cookie, forgotten, env>>
    <3>1. (att.deleted \/ stale) \in BOOLEAN
      OBVIOUS
    <3>2. att' \in Attempts
      BY <1>2, <2>2, <3>1 DEF Attempts
    <3>3. QED
      BY <1>2, <2>2, <3>2 DEF Bringup, Replies, Maybe
  <2>3. QED
    BY <1>2, <2>1, <2>2 DEF LogonChallenged
<1>3. ASSUME Inv, LogonFails PROVE Inv'
  BY <1>3, TryFailsType DEF LogonFails, Bringup, Errors
<1>4. ASSUME Inv, BrowserAnswered PROVE Inv'
  <2>1. att' \in Attempts /\ att'.account = reply
    BY <1>4 DEF BrowserAnswered, Attempts, Maybe
  <2>2. QED
    BY <1>4, <2>1, AccountAssumption DEF BrowserAnswered, Bringup, Replies
<1>5. ASSUME Inv, BrowserFails PROVE Inv'
  BY <1>5, TryFailsType DEF BrowserFails, Bringup, Errors, Replies
<1>6. ASSUME Inv, VerifyWebCredentials PROVE Inv'
  <2>1. CASE Authenticated(att.account)
    <3>1. att' \in Attempts /\ att'.account = att.account
      BY <1>6, <2>1 DEF Authenticated, Attempts
    <3>2. pc' \in {"s2.successor", "validate"}
      BY <2>1 DEF Authenticated
    <3>3. QED
      BY <1>6, <3>1, <3>2 DEF VerifyWebCredentials, Bringup
  <2>2. CASE \E error \in {"authentication", "server", "io"} : TryFails(error)
    BY <1>6, <2>2, TryFailsType DEF VerifyWebCredentials, Bringup, Errors
  <2>3. QED
    BY <1>6, <2>1, <2>2 DEF VerifyWebCredentials
<1>7. ASSUME Inv, ValidateAccount PROVE Inv'
  <2>1. CASE IsAuthoritative(att.account)
    <3>1. att' \in Attempts /\ att'.account = att.account /\ att'.expected = att.expected
      BY <1>7, <2>1 DEF ValidateAccount, Attempts
    <3>2. pc' \in {"s1.handoff", "w3.endpoint"}
      BY <1>7, <2>1 DEF ValidateAccount
    <3>3. QED
      BY <1>7, <2>1, <3>1, <3>2 DEF ValidateAccount, IsAuthoritative, Bringup
  <2>2. CASE ~IsAuthoritative(att.account)
    <3>1. att' \in Attempts
      BY <1>7, <2>2 DEF ValidateAccount, Attempts, Errors
    <3>2. pc' \in {"s1.outcome", "w3.outcome"}
      BY <1>7, <2>2 DEF ValidateAccount
    <3>3. QED
      BY <1>7, <3>1, <3>2 DEF ValidateAccount, Bringup
  <2>3. QED
    BY <2>1, <2>2
<1>8. QED
  BY <1>1, <1>2, <1>3, <1>4, <1>5, <1>6, <1>7 DEF LogonNext

LEMMA Sc2Inv == Inv /\ FixedTypeOK /\ Sc2Next => Inv'
<1> USE DEF Inv, ThreadTypeOK, ProvenIsExpected, IdentifiedIsSomebody, Proven, Identified, env, store, Bringup, Fail
<1>1. ASSUME Inv, Sc2Open PROVE Inv'
  <2>1. pc' \in {"s2.load", "idle"} /\ UNCHANGED <<env, reply, store>>
    BY <1>1 DEF Sc2Open
  <2>2. att' \in Attempts
    BY <1>1 DEF Sc2Open, Attempts
  <2>3. QED
    BY <1>1, <2>1, <2>2
<1>2. ASSUME Inv, FixedTypeOK, Sc2Load PROVE Inv'
  <2>1. att' \in Attempts
    <3>1. Loads \in Maybe
      BY <1>2 DEF Loads, FixedTypeOK, Maybe
    <3>2. QED
      BY <1>2, <3>1 DEF Sc2Load, Attempts, Maybe
  <2>2. QED
    BY <1>2, <2>1 DEF Sc2Load
<1>3. ASSUME Inv, Sc2Successor PROVE Inv'
  <2>1. cell' \in Maybe
    BY <1>3 DEF Sc2Successor, Deleted, Attempts, Maybe
  <2>2. QED
    BY <1>3, <2>1 DEF Sc2Successor
<1>4. ASSUME Inv, Sc2Check PROVE Inv'
  BY <1>4 DEF Sc2Check, IsAuthoritative
<1>5. ASSUME Inv, Sc2Publish PROVE Inv'
  BY <1>5 DEF Sc2Publish
<1>6. ASSUME Inv, Sc2Utilities \/ Sc2Native \/ Sc2Chat PROVE Inv'
  BY <1>6 DEF Sc2Utilities, Sc2Native, Sc2Chat
<1>7. QED
  BY <1>1, <1>2, <1>3, <1>4, <1>5, <1>6 DEF Sc2Next

LEMMA ScrInv == Inv /\ ScrNext => Inv'
<1> USE DEF Inv, ThreadTypeOK, ProvenIsExpected, IdentifiedIsSomebody, Proven, Identified, env, store, Bringup, Fail
<1>1. ASSUME Inv, ScrLoad PROVE Inv'
  <2>1. ASSUME att' = [att EXCEPT !.cached = IF att.force THEN NoAccount ELSE cell,
                                  !.had = ((IF att.force THEN NoAccount ELSE cell) # NoAccount)]
        PROVE  att' \in Attempts
    <3>1. (IF att.force THEN NoAccount ELSE cell) \in Maybe
      BY <1>1 DEF Maybe
    <3>2. QED
      BY <1>1, <2>1, <3>1 DEF Attempts
  <2>2. att' \in Attempts
    BY <1>1, <2>1 DEF ScrLoad
  <2>3. pc' \in {"s1.connect", "idle"}
    BY <1>1 DEF ScrLoad
  <2>4. QED
    BY <1>1, <2>2, <2>3 DEF ScrLoad
<1>2. ASSUME Inv, ScrConnect PROVE Inv'
  <2>1. att' \in Attempts
    BY <1>2 DEF ScrConnect, Attempts, Errors
  <2>2. QED
    BY <1>2, <2>1 DEF ScrConnect
<1>3. ASSUME Inv, ScrHandoff PROVE Inv'
  BY <1>3, TryFailsType DEF ScrHandoff, Errors
<1>4. ASSUME Inv, ScrEstablish PROVE Inv'
  BY <1>4, TryFailsType DEF ScrEstablish, Errors
<1>5. ASSUME Inv, ScrRetryMismatch \/ ScrRetryRejected PROVE Inv'
  <2>1. att' \in Attempts
    <3>1. NoAccount \in Maybe
      BY DEF Maybe
    <3>2. CASE ScrRetryMismatch
      BY <1>5, <3>1, <3>2 DEF ScrRetryMismatch, Attempts
    <3>3. CASE ScrRetryRejected
      BY <1>5, <3>1, <3>3 DEF ScrRetryRejected, Attempts
    <3>4. QED
      BY <1>5, <3>2, <3>3
  <2>2. cell' \in Maybe
    BY <1>5 DEF ScrRetryMismatch, ScrRetryRejected, Deleted, Maybe
  <2>3. QED
    BY <1>5, <2>1, <2>2 DEF ScrRetryMismatch, ScrRetryRejected
<1>6. ASSUME Inv, ScrGivesUp PROVE Inv'
  BY <1>6 DEF ScrGivesUp
<1>7. ASSUME Inv, ScrPublish PROVE Inv'
  <2>1. att' \in Attempts /\ att'.account = att.account /\ att'.expected = att.expected
    BY <1>7 DEF ScrPublish, Attempts, Maybe
  <2>2. cell' \in Maybe
    BY <1>7 DEF ScrPublish, Attempts
  <2>3. QED
    BY <1>7, <2>1, <2>2 DEF ScrPublish, IsAuthoritative
<1>8. ASSUME Inv, ScrJoin PROVE Inv'
  BY <1>8 DEF ScrJoin
<1>9. QED
  BY <1>1, <1>2, <1>3, <1>4, <1>5, <1>6, <1>7, <1>8 DEF ScrNext

LEMMA Wc3Inv == Inv /\ Wc3Next => Inv'
<1> USE DEF Inv, ThreadTypeOK, ProvenIsExpected, IdentifiedIsSomebody, Proven, Identified, env, store, Bringup, Fail
<1>1. ASSUME Inv, Wc3Load PROVE Inv'
  <2>1. (~att.force /\ cell # NoAccount) \in BOOLEAN
    OBVIOUS
  <2>2. att' \in Attempts
    BY <1>1, <2>1 DEF Wc3Load, Attempts
  <2>3. pc' \in {"w3.connect", "idle"}
    BY <1>1 DEF Wc3Load
  <2>4. QED
    BY <1>1, <2>2, <2>3 DEF Wc3Load
<1>2. ASSUME Inv, Wc3Connect PROVE Inv'
  <2>1. att' \in Attempts
    <3>1. (IF att.interactive THEN NoAccount ELSE cell) \in Maybe
      BY <1>2 DEF Maybe
    <3>2. CASE att' = [att EXCEPT !.cached = IF att.interactive THEN NoAccount ELSE cell,
                                  !.deleted = FALSE]
      BY <1>2, <3>1, <3>2 DEF Attempts
    <3>3. CASE \E error \in Errors : att' = [att EXCEPT !.error = error]
      BY <1>2, <3>3 DEF Attempts
    <3>4. QED
      BY <1>2, <3>2, <3>3 DEF Wc3Connect, Errors
  <2>2. pc' \in {"logon", "w3.outcome"}
    BY <1>2 DEF Wc3Connect
  <2>3. QED
    BY <1>2, <2>1, <2>2 DEF Wc3Connect
<1>3. ASSUME Inv, Wc3Endpoint PROVE Inv'
  BY <1>3, TryFailsType DEF Wc3Endpoint, Errors
<1>4. ASSUME Inv, Wc3Store PROVE Inv'
  <2>1. cell' \in Maybe
    BY <1>4 DEF Wc3Store, Attempts
  <2>2. CASE pc' = "w3.classic" /\ UNCHANGED att
    BY <1>4, <2>1, <2>2 DEF Wc3Store
  <2>3. CASE TryFails("authentication")
    BY <1>4, <2>1, <2>3, TryFailsType DEF Wc3Store, Errors
  <2>4. QED
    BY <1>4, <2>2, <2>3 DEF Wc3Store
<1>5. ASSUME Inv, Wc3Classic PROVE Inv'
  <2>1. cookie' \in BOOLEAN
    BY <1>5, Zenon DEF Wc3Classic
  <2>2. CASE pc' = "w3.chat" /\ UNCHANGED att
    BY <1>5, <2>1, <2>2 DEF Wc3Classic
  <2>3. CASE pc' = "w3.connect" /\ att' = [att EXCEPT !.interactive = FALSE]
    BY <1>5, <2>1, <2>3 DEF Wc3Classic, Attempts
  <2>4. CASE \E error \in Errors : TryFails(error)
    BY <1>5, <2>1, <2>4, TryFailsType DEF Wc3Classic
  <2>5. QED
    BY <1>5, <2>2, <2>3, <2>4 DEF Wc3Classic, Errors
<1>6. ASSUME Inv, Wc3Chat PROVE Inv'
  BY <1>6, TryFailsType DEF Wc3Chat, Errors
<1>7. ASSUME Inv, Wc3Retry PROVE Inv'
  <2>1. att' \in Attempts
    BY <1>7 DEF Wc3Retry, Attempts
  <2>2. cell' \in Maybe /\ cookie' \in BOOLEAN
    BY <1>7 DEF Wc3Retry, Deleted, Maybe
  <2>3. QED
    BY <1>7, <2>1, <2>2 DEF Wc3Retry
<1>8. ASSUME Inv, Wc3GivesUp \/ Wc3Publish PROVE Inv'
  BY <1>8 DEF Wc3GivesUp, Wc3Publish, IsAuthoritative
<1>9. QED
  BY <1>1, <1>2, <1>3, <1>4, <1>5, <1>6, <1>7, <1>8 DEF Wc3Next

LEMMA LiveInv == Inv /\ (LiveNext \/ LiveFails) => Inv'
<1> USE DEF Inv, ThreadTypeOK, ProvenIsExpected, IdentifiedIsSomebody, Proven, Identified, env, store, Fail
<1>1. ASSUME Inv, LiveDisconnect PROVE Inv'
  BY <1>1, TakeType DEF LiveDisconnect
<1>2. ASSUME Inv, LiveSignOut PROVE Inv'
  BY <1>2, TakeType DEF LiveSignOut, Deleted, Maybe
<1>3. ASSUME Inv, LiveInstallCredential PROVE Inv'
  BY <1>3, TakeType, CommandType DEF LiveInstallCredential
<1>4. ASSUME Inv, LiveQuit PROVE Inv'
  <2>1. product \in {"S2", "S1", "W3"}
    BY <1>4, ProductAssumption
  <2>2. pc' \in {"idle", "live"}
    BY <1>4, <2>1 DEF LiveQuit
  <2>3. QED
    BY <1>4, <2>2, TakeType DEF LiveQuit
<1>5. ASSUME Inv, LiveSenderGone PROVE Inv'
  BY <1>5 DEF LiveSenderGone
<1>6. ASSUME Inv, LiveChat PROVE Inv'
  BY <1>6, TakeType DEF LiveChat
<1>7. ASSUME Inv, LiveConnect PROVE Inv'
  BY <1>7, TakeType DEF LiveConnect
<1>8. ASSUME Inv, LiveFails PROVE Inv'
  BY <1>8 DEF LiveFails
<1>9. QED
  BY <1>1, <1>2, <1>3, <1>4, <1>5, <1>6, <1>7, <1>8 DEF LiveNext

LEMMA NextInv == Inv /\ FixedTypeOK /\ [Next]_vars => Inv'
<1>1. Inv /\ UNCHANGED vars => Inv'
  BY DEF Inv, ThreadTypeOK, ProvenIsExpected, IdentifiedIsSomebody, vars
<1>2. Inv /\ Hang => Inv'
  BY DEF Inv, ThreadTypeOK, ProvenIsExpected, IdentifiedIsSomebody, Hang, env, store
<1>3. QED
  BY <1>1, <1>2, ApplicationInv, IdleInv, LogonInv, Sc2Inv, ScrInv, Wc3Inv, LiveInv
  DEF Next, Working, Worker, Finished

-----------------------------------------------------------------------------
(* What a sign-out leaves: nothing is cached while `forgotten` stands, and *)
(* it stands only in the idle loop, so no bring-up can cache behind it.    *)

Forgets == forgotten => cell = NoAccount /\ ~cookie
Remembers == pc \in Bringup \cup {"live"} => ~forgotten
Memory == Forgets /\ Remembers

LEMMA BringupRemembers ==
  ASSUME LogonNext \/ Sc2Next \/ ScrNext \/ Wc3Next
  PROVE  pc \in Bringup /\ forgotten' = forgotten
<1> USE DEF Bringup, store
<1>1. CASE LogonNext
  BY <1>1 DEF LogonNext, LogonAccepted, LogonChallenged, LogonFails, BrowserAnswered, BrowserFails,
              VerifyWebCredentials, ValidateAccount
<1>2. CASE Sc2Next
  BY <1>2 DEF Sc2Next, Sc2Open, Sc2Load, Sc2Successor, Sc2Check, Sc2Publish, Sc2Utilities,
              Sc2Native, Sc2Chat
<1>3. CASE ScrNext
  BY <1>3 DEF ScrNext, ScrLoad, ScrConnect, ScrHandoff, ScrEstablish, ScrRetryMismatch,
              ScrRetryRejected, ScrGivesUp, ScrPublish, ScrJoin
<1>4. CASE Wc3Next
  BY <1>4 DEF Wc3Next, Wc3Load, Wc3Connect, Wc3Endpoint, Wc3Store, Wc3Classic, Wc3Chat, Wc3Retry,
              Wc3GivesUp, Wc3Publish
<1>5. QED
  BY <1>1, <1>2, <1>3, <1>4

LEMMA MemoryIdle == Memory /\ IdleNext => Memory'
<1> USE DEF Memory, Forgets, Remembers, Bringup, store
<1>1. ASSUME Memory, IdleConnect PROVE Memory'
  BY <1>1 DEF IdleConnect
<1>2. ASSUME Memory, IdleInstallCredential PROVE Memory'
  BY <1>2 DEF IdleInstallCredential
<1>3. ASSUME Memory, IdleSignOut PROVE Memory'
  BY <1>3 DEF IdleSignOut
<1>4. ASSUME Memory, IdleQuit \/ IdleIgnores \/ IdleSenderGone PROVE Memory'
  BY <1>4 DEF IdleQuit, IdleIgnores, IdleSenderGone
<1>5. QED
  BY <1>1, <1>2, <1>3, <1>4 DEF IdleNext

LEMMA MemoryLive == Memory /\ (LiveNext \/ LiveFails) => Memory'
<1> USE DEF Memory, Forgets, Remembers, Bringup, store, Fail
<1>1. ASSUME Memory, LiveSignOut PROVE Memory'
  BY <1>1 DEF LiveSignOut
<1>2. ASSUME Memory,
             LiveDisconnect \/ LiveInstallCredential \/ LiveQuit \/ LiveSenderGone \/ LiveChat
               \/ LiveConnect \/ LiveFails
      PROVE  Memory'
  <2>1. pc = "live" /\ forgotten' = forgotten
    BY <1>2 DEF LiveDisconnect, LiveInstallCredential, LiveQuit, LiveSenderGone, LiveChat,
                LiveConnect, LiveFails
  <2>2. QED
    BY <1>2, <2>1
<1>3. QED
  BY <1>1, <1>2 DEF LiveNext

LEMMA MemoryNext == Memory /\ [Next]_vars => Memory'
<1> SUFFICES ASSUME Memory, [Next]_vars PROVE Memory'
  OBVIOUS
<1>1. CASE LogonNext \/ Sc2Next \/ ScrNext \/ Wc3Next
  BY <1>1, BringupRemembers DEF Memory, Forgets, Remembers
<1>2. CASE IdleNext
  BY <1>2, MemoryIdle
<1>3. CASE LiveNext \/ LiveFails
  BY <1>3, MemoryLive
<1>4. CASE Application \/ Hang \/ Finished \/ UNCHANGED vars
  BY <1>4 DEF Memory, Forgets, Remembers, Application, Send, Answer, AppCloses, Hang, Finished, store, vars
<1>5. QED
  BY <1>1, <1>2, <1>3, <1>4 DEF Next, Working, Worker

-----------------------------------------------------------------------------
(* Which credential Remastered may still store: the one a browser gave in  *)
(* this try (pending) is the account's that signed in.  A cached one and a *)
(* pending one never meet in a logon, so the service's acceptance of the   *)
(* cached one cannot lend its account to the other.                        *)

Wc3Calls ==
  {"w3.load", "w3.connect", "w3.endpoint", "w3.store", "w3.classic", "w3.chat", "w3.outcome",
   "w3.publish"}

OnlyRemasteredPends == product # "S1" => att.pending = NoAccount
PendingIsIdentified == pc \in Identified => att.pending \in {NoAccount, att.account}
NothingPendsAtFirst == pc \in {"s2.open", "s2.load", "s1.load"} => att.pending = NoAccount
CallsOfWarcraft == pc \in Wc3Calls => product # "S1"
SuccessorOfStarCraft == pc = "s2.successor" => product = "S2"
CachedOrPending ==
  pc \in {"s1.connect", "logon"} => att.cached = NoAccount \/ att.pending = NoAccount

Pending ==
  /\ OnlyRemasteredPends
  /\ PendingIsIdentified
  /\ NothingPendsAtFirst
  /\ CallsOfWarcraft
  /\ SuccessorOfStarCraft
  /\ CachedOrPending

\* A failed try changes nothing but how it ended.
LEMMA TryFailsPending ==
  ASSUME ThreadTypeOK, Pending, NEW error \in Errors, TryFails(error), product' = product
  PROVE  Pending'
<1> USE DEF Pending, OnlyRemasteredPends, PendingIsIdentified, NothingPendsAtFirst, CallsOfWarcraft, SuccessorOfStarCraft,
            CachedOrPending
<1>1. product \in {"S2", "S1", "W3"}
  BY ProductAssumption DEF ThreadTypeOK
<1>2. att'.pending = att.pending
  BY <1>1 DEF ThreadTypeOK, TryFails, Attempts
<1>3. pc' \in {"idle", "s1.outcome", "w3.outcome"} /\ (pc' = "w3.outcome" => product # "S1")
  BY <1>1 DEF TryFails, Fail
<1>4. QED
  BY <1>2, <1>3 DEF Identified, Proven, Wc3Calls

\* Steps that leave the attempt's locals alone, and where they may lead.
LEMMA SamePending ==
  ASSUME Pending, UNCHANGED <<product, att>>,
         \/ pc' \in {pc, "idle", "done"}
         \/ pc \in Identified /\ pc' \in Identified \ (Wc3Calls \cup {"s2.successor"})
         \/ pc = "verify" /\ pc' = "s2.successor" /\ product = "S2"
         \/ pc = "s2.open" /\ pc' = "s2.load"
         \/ pc = "s1.connect" /\ pc' = "logon"
         \/ pc = "logon" /\ pc' = "browser"
  PROVE  Pending'
  BY DEF Pending, OnlyRemasteredPends, PendingIsIdentified, NothingPendsAtFirst, CallsOfWarcraft, SuccessorOfStarCraft,
         CachedOrPending, Identified, Proven, Wc3Calls

LEMMA PendingIdle == Inv /\ Pending /\ IdleNext => Pending'
<1> SUFFICES ASSUME Inv, Pending, IdleNext PROVE Pending'
  OBVIOUS
<1>1. CASE IdleConnect
  <2>1. att'.pending = NoAccount /\ product' = product
    BY <1>1 DEF IdleConnect, Fresh, Take
  <2>2. pc' \in {"s2.open", "s1.load"} \/ (pc' = "w3.load" /\ product # "S1")
    BY <1>1 DEF IdleConnect, FirstCall
  <2>3. QED
    BY <2>1, <2>2 DEF Pending, OnlyRemasteredPends, PendingIsIdentified, NothingPendsAtFirst,
                      CallsOfWarcraft, SuccessorOfStarCraft, CachedOrPending, Identified, Proven, Wc3Calls
<1>2. CASE IdleInstallCredential \/ IdleSignOut \/ IdleQuit \/ IdleIgnores \/ IdleSenderGone
  BY <1>2, SamePending DEF IdleInstallCredential, IdleSignOut, IdleQuit, IdleIgnores,
                           IdleSenderGone, Take, env
<1>3. QED
  BY <1>1, <1>2 DEF IdleNext

LEMMA PendingLogon == Inv /\ Pending /\ LogonNext => Pending'
<1> SUFFICES ASSUME Inv, Pending, LogonNext PROVE Pending'
  OBVIOUS
<1> USE DEF env
<1>1. ThreadTypeOK /\ product' = product
  BY DEF Inv, LogonNext, LogonAccepted, LogonChallenged, LogonFails, BrowserAnswered, BrowserFails,
         VerifyWebCredentials, ValidateAccount
<1>2. CASE LogonAccepted
  <2>1. att.pending = NoAccount
    BY <1>2 DEF LogonAccepted, Pending, CachedOrPending
  <2>2. att'.pending = NoAccount
    BY <1>1, <1>2, <2>1 DEF LogonAccepted, Authenticated, ThreadTypeOK, Attempts
  <2>3. pc' = "validate" \/ (pc' = "s2.successor" /\ product = "S2")
    BY <1>2 DEF LogonAccepted, Authenticated
  <2>4. QED
    BY <1>1, <2>2, <2>3 DEF Pending, OnlyRemasteredPends, PendingIsIdentified, NothingPendsAtFirst,
                            CallsOfWarcraft, SuccessorOfStarCraft, CachedOrPending, Wc3Calls
<1>3. CASE LogonChallenged
  <2>1. CASE pc' = "browser" /\ att'.pending = att.pending
    BY <1>1, <2>1 DEF Pending, OnlyRemasteredPends, PendingIsIdentified, NothingPendsAtFirst,
                      CallsOfWarcraft, SuccessorOfStarCraft, CachedOrPending, Identified, Proven, Wc3Calls
  <2>2. CASE TryFails("authentication")
    BY <1>1, <2>2, TryFailsPending DEF Errors
  <2>3. QED
    BY <1>1, <1>3, <2>1, <2>2 DEF LogonChallenged, ThreadTypeOK, Attempts
<1>4. CASE LogonFails
  BY <1>1, <1>4, TryFailsPending DEF LogonFails, Errors
<1>5. CASE BrowserAnswered
  <2>1. att'.account = reply /\ att'.pending = IF product = "S1" THEN reply ELSE att.pending
    BY <1>1, <1>5 DEF BrowserAnswered, ThreadTypeOK, Attempts
  <2>2. QED
    BY <1>1, <1>5, <2>1 DEF BrowserAnswered, Pending, OnlyRemasteredPends, PendingIsIdentified,
                            NothingPendsAtFirst, CallsOfWarcraft, SuccessorOfStarCraft, CachedOrPending, Wc3Calls
<1>6. CASE BrowserFails
  BY <1>1, <1>6, TryFailsPending DEF BrowserFails, Errors
<1>7. CASE VerifyWebCredentials
  <2>1. CASE Authenticated(att.account)
    <3>1. att' = att
      BY <1>1, <2>1 DEF Authenticated, ThreadTypeOK, Attempts
    <3>2. QED
      BY <1>1, <1>7, <2>1, <3>1, SamePending
      DEF VerifyWebCredentials, Authenticated, Identified, Proven, Wc3Calls
  <2>2. CASE \E error \in Errors : TryFails(error)
    BY <1>1, <2>2, TryFailsPending
  <2>3. QED
    BY <1>7, <2>1, <2>2 DEF VerifyWebCredentials, Errors
<1>8. CASE ValidateAccount
  <2>1. att'.pending = att.pending /\ att'.account = att.account
    BY <1>1, <1>8 DEF ValidateAccount, ThreadTypeOK, Attempts
  <2>2. /\ pc = "validate"
        /\ \/ pc' \in {"s1.handoff", "s1.outcome"}
           \/ pc' \in {"w3.endpoint", "w3.outcome"} /\ product # "S1"
    BY <1>8 DEF ValidateAccount
  <2>3. QED
    BY <1>1, <2>1, <2>2 DEF Pending, OnlyRemasteredPends, PendingIsIdentified, NothingPendsAtFirst,
                            CallsOfWarcraft, SuccessorOfStarCraft, CachedOrPending, Identified, Proven, Wc3Calls
<1>9. QED
  BY <1>2, <1>3, <1>4, <1>5, <1>6, <1>7, <1>8 DEF LogonNext

LEMMA PendingSc2 == Inv /\ Pending /\ Sc2Next => Pending'
<1> SUFFICES ASSUME Inv, Pending, Sc2Next PROVE Pending'
  OBVIOUS
<1> USE DEF env
<1>1. CASE Sc2Load
  <2>1. att'.pending = NoAccount /\ product' = product /\ pc' \in {"logon", "idle"}
    BY <1>1 DEF Sc2Load, Fail, Pending, NothingPendsAtFirst, Inv, ThreadTypeOK, Attempts
  <2>2. QED
    BY <2>1 DEF Pending, OnlyRemasteredPends, PendingIsIdentified, NothingPendsAtFirst,
                CallsOfWarcraft, SuccessorOfStarCraft, CachedOrPending, Identified, Proven, Wc3Calls
<1>2. CASE Sc2Successor \/ Sc2Check \/ Sc2Publish
  BY <1>2, SamePending DEF Sc2Successor, Sc2Check, Sc2Publish, Fail, Identified, Proven,
                           Wc3Calls
<1>3. CASE Sc2Utilities \/ Sc2Native \/ Sc2Chat
  BY <1>3, SamePending DEF Sc2Utilities, Sc2Native, Sc2Chat, Fail, Identified, Proven, Wc3Calls
<1>4. CASE Sc2Open
  <2>1. att'.pending = NoAccount /\ product' = product /\ pc' \in {"s2.load", "idle"}
    BY <1>4 DEF Sc2Open, Fail, Pending, NothingPendsAtFirst, Inv, ThreadTypeOK, Attempts
  <2>2. QED
    BY <2>1 DEF Pending, OnlyRemasteredPends, PendingIsIdentified, NothingPendsAtFirst,
                CallsOfWarcraft, SuccessorOfStarCraft, CachedOrPending, Identified, Proven, Wc3Calls
<1>5. QED
  BY <1>1, <1>2, <1>3, <1>4 DEF Sc2Next

LEMMA PendingScr == Inv /\ Pending /\ ScrNext => Pending'
<1> SUFFICES ASSUME Inv, Pending, ScrNext PROVE Pending'
  OBVIOUS
<1> USE DEF env
<1>1. ThreadTypeOK /\ product' = product
  BY DEF Inv, ScrNext, ScrLoad, ScrConnect, ScrHandoff, ScrEstablish, ScrRetryMismatch,
         ScrRetryRejected, ScrGivesUp, ScrPublish, ScrJoin
<1>2. ASSUME att'.pending = NoAccount, pc' \in {"s1.connect", "s1.join", "idle"} PROVE Pending'
  BY <1>1, <1>2 DEF Pending, OnlyRemasteredPends, PendingIsIdentified, NothingPendsAtFirst,
                    CallsOfWarcraft, SuccessorOfStarCraft, CachedOrPending, Wc3Calls
<1>3. CASE ScrLoad
  BY <1>1, <1>2, <1>3 DEF ScrLoad, Fail, Pending, NothingPendsAtFirst, ThreadTypeOK, Attempts
<1>4. CASE ScrConnect
  <2>1. CASE pc' = "logon" /\ UNCHANGED att
    BY <1>1, <1>4, <2>1, SamePending DEF ScrConnect
  <2>2. CASE pc' = "s1.outcome" /\ att'.pending = att.pending
    BY <1>1, <2>2 DEF Pending, OnlyRemasteredPends, PendingIsIdentified, NothingPendsAtFirst,
                      CallsOfWarcraft, SuccessorOfStarCraft, CachedOrPending, Identified, Proven,
                      Wc3Calls
  <2>3. QED
    BY <1>1, <1>4, <2>1, <2>2 DEF ScrConnect, ThreadTypeOK, Attempts
<1>5. CASE ScrHandoff \/ ScrEstablish
  <2>1. CASE \E error \in Errors : TryFails(error)
    BY <1>1, <2>1, TryFailsPending
  <2>2. CASE UNCHANGED att /\ pc' \in {"s1.establish", "s1.publish"}
    BY <1>1, <1>5, <2>2, SamePending DEF ScrHandoff, ScrEstablish, Identified, Proven, Wc3Calls
  <2>3. QED
    BY <1>5, <2>1, <2>2 DEF ScrHandoff, ScrEstablish, Errors
<1>6. CASE ScrRetryMismatch
  BY <1>1, <1>2, <1>6 DEF ScrRetryMismatch, ThreadTypeOK, Attempts
<1>7. CASE ScrRetryRejected
  <2>1. att'.pending = att.pending /\ att'.cached = NoAccount /\ pc' = "s1.connect"
    BY <1>1, <1>7 DEF ScrRetryRejected, ThreadTypeOK, Attempts
  <2>2. QED
    BY <1>1, <2>1 DEF Pending, OnlyRemasteredPends, PendingIsIdentified, NothingPendsAtFirst,
                      CallsOfWarcraft, SuccessorOfStarCraft, CachedOrPending, Identified, Proven,
                      Wc3Calls
<1>8. CASE ScrPublish
  <2>1. CASE IsAuthoritative(att.account)
    BY <1>1, <1>2, <1>8, <2>1 DEF ScrPublish, ThreadTypeOK, Attempts
  <2>2. CASE ~IsAuthoritative(att.account)
    BY <1>1, <1>8, <2>2, SamePending DEF ScrPublish, Fail
  <2>3. QED
    BY <2>1, <2>2
<1>9. CASE ScrGivesUp \/ ScrJoin
  BY <1>1, <1>9, SamePending DEF ScrGivesUp, ScrJoin, Fail, Identified, Proven, Wc3Calls
<1>10. QED
  BY <1>3, <1>4, <1>5, <1>6, <1>7, <1>8, <1>9 DEF ScrNext

LEMMA PendingWc3 == Inv /\ Pending /\ Wc3Next => Pending'
<1> SUFFICES ASSUME Inv, Pending, Wc3Next PROVE Pending'
  OBVIOUS
<1>1. ThreadTypeOK /\ product' = product /\ pc \in Wc3Calls
  BY DEF Inv, Wc3Next, Wc3Load, Wc3Connect, Wc3Endpoint, Wc3Store, Wc3Classic, Wc3Chat, Wc3Retry,
         Wc3GivesUp, Wc3Publish, env, Wc3Calls
<1>2. product # "S1" /\ att.pending = NoAccount
  BY <1>1 DEF Pending, CallsOfWarcraft, OnlyRemasteredPends
<1>3. ASSUME att'.pending = att.pending, pc' # "s2.successor" PROVE Pending'
  BY <1>1, <1>2, <1>3 DEF Pending, OnlyRemasteredPends, PendingIsIdentified, NothingPendsAtFirst,
                          CallsOfWarcraft, SuccessorOfStarCraft, CachedOrPending
<1>4. CASE \E error \in Errors : TryFails(error)
  BY <1>1, <1>4, TryFailsPending
<1>5. CASE Wc3Load
  BY <1>1, <1>3, <1>5 DEF Wc3Load, Fail, ThreadTypeOK, Attempts
<1>6. CASE Wc3Connect
  <2>1. pc' \in {"logon", "w3.outcome"}
    BY <1>6 DEF Wc3Connect
  <2>2. att'.pending = att.pending
    BY <1>1, <1>6 DEF Wc3Connect, ThreadTypeOK, Attempts
  <2>3. QED
    BY <1>3, <2>1, <2>2
<1>7. CASE Wc3Endpoint \/ Wc3Store \/ Wc3Chat
  BY <1>3, <1>4, <1>7 DEF Wc3Endpoint, Wc3Store, Wc3Chat, Errors
<1>8. CASE Wc3Classic
  <2>1. CASE UNCHANGED att /\ pc' = "w3.chat"
    BY <1>3, <2>1
  <2>2. CASE att' = [att EXCEPT !.interactive = FALSE] /\ pc' = "w3.connect"
    BY <1>1, <1>3, <2>2 DEF ThreadTypeOK, Attempts
  <2>3. QED
    BY <1>4, <1>8, <2>1, <2>2 DEF Wc3Classic, Errors
<1>9. CASE Wc3Retry
  BY <1>1, <1>3, <1>9 DEF Wc3Retry, ThreadTypeOK, Attempts
<1>10. CASE Wc3GivesUp \/ Wc3Publish
  BY <1>3, <1>10 DEF Wc3GivesUp, Wc3Publish, Fail
<1>11. QED
  BY <1>5, <1>6, <1>7, <1>8, <1>9, <1>10 DEF Wc3Next

LEMMA PendingLive == Inv /\ Pending /\ (LiveNext \/ LiveFails) => Pending'
<1> SUFFICES ASSUME Inv, Pending, LiveNext \/ LiveFails PROVE Pending'
  OBVIOUS
<1>1. pc = "live" /\ UNCHANGED <<product, att>>
  BY DEF LiveNext, LiveDisconnect, LiveSignOut, LiveInstallCredential, LiveQuit, LiveSenderGone,
         LiveChat, LiveConnect, LiveFails, Take, env
<1>2. pc' \in {"idle", "live"}
  <2>1. product \in {"S2", "S1", "W3"}
    BY ProductAssumption DEF Inv, ThreadTypeOK
  <2>2. CASE LiveQuit
    BY <1>1, <2>1, <2>2 DEF LiveQuit, Fail
  <2>3. QED
    BY <1>1, <2>2 DEF LiveNext, LiveDisconnect, LiveSignOut, LiveInstallCredential, LiveSenderGone,
                      LiveChat, LiveConnect, LiveFails, Fail
<1>3. QED
  BY <1>1, <1>2, SamePending

LEMMA PendingNext == Inv /\ Pending /\ [Next]_vars => Pending'
<1> SUFFICES ASSUME Inv, Pending, [Next]_vars PROVE Pending'
  OBVIOUS
<1>1. CASE Application \/ Hang \/ Finished \/ UNCHANGED vars
  BY <1>1, SamePending DEF Application, Send, Answer, AppCloses, Hang, Finished, env, vars
<1>2. CASE Worker \/ LiveFails
  BY <1>2, PendingIdle, PendingLogon, PendingSc2, PendingScr, PendingWc3, PendingLive DEF Worker
<1>3. QED
  BY <1>1, <1>2 DEF Next, Working

\* A credential that a classic bring-up stores is the expected account's.
LEMMA KeepsProven ==
  ASSUME Inv, Pending, [Next]_vars, product # "S2", pc \in Bringup, cell' \notin {cell, NoAccount}
  PROVE  att.expected \in {NoAccount, cell'}
<1>1. CASE Application \/ Hang \/ Finished \/ UNCHANGED vars
  BY <1>1 DEF Application, Send, Answer, AppCloses, Hang, Finished, store, vars
<1>2. CASE IdleNext \/ LiveNext \/ LiveFails
  <2>1. pc \in {"idle", "live"}
    BY <1>2 DEF IdleNext, IdleConnect, IdleInstallCredential, IdleSignOut, IdleQuit, IdleIgnores,
                IdleSenderGone, LiveNext, LiveDisconnect, LiveSignOut, LiveInstallCredential,
                LiveQuit, LiveSenderGone, LiveChat, LiveConnect, LiveFails
  <2>2. QED
    BY <2>1 DEF Bringup
<1>3. CASE LogonNext
  BY <1>3 DEF LogonNext, LogonAccepted, LogonChallenged, LogonFails, BrowserAnswered, BrowserFails,
              VerifyWebCredentials, ValidateAccount, store
<1>4. CASE Sc2Next
  <2>1. ~Sc2Successor
    BY DEF Sc2Successor, Pending, SuccessorOfStarCraft
  <2>2. QED
    BY <1>4, <2>1 DEF Sc2Next, Sc2Open, Sc2Load, Sc2Check, Sc2Publish, Sc2Utilities, Sc2Native,
                      Sc2Chat, store
<1>5. CASE ScrNext
  <2>1. CASE ScrPublish
    BY <2>1 DEF ScrPublish, IsAuthoritative, Pending, PendingIsIdentified, Identified, Proven
  <2>2. CASE ScrRetryMismatch \/ ScrRetryRejected
    BY <2>2 DEF ScrRetryMismatch, ScrRetryRejected, Deleted
  <2>3. QED
    BY <1>5, <2>1, <2>2 DEF ScrNext, ScrLoad, ScrConnect, ScrHandoff, ScrEstablish, ScrGivesUp,
                            ScrJoin, store
<1>6. CASE Wc3Next
  <2>1. CASE Wc3Store
    BY <2>1 DEF Wc3Store, Inv, ProvenIsExpected, Proven
  <2>2. CASE Wc3Retry
    BY <2>2 DEF Wc3Retry, Deleted
  <2>3. QED
    BY <1>6, <2>1, <2>2 DEF Wc3Next, Wc3Load, Wc3Connect, Wc3Endpoint, Wc3Classic, Wc3Chat,
                            Wc3GivesUp, Wc3Publish, store
<1>7. QED
  BY <1>1, <1>2, <1>3, <1>4, <1>5, <1>6 DEF Next, Working, Worker

-----------------------------------------------------------------------------
\* What no step changes.
LEMMA FixedNext == FixedTypeOK /\ [Next]_vars => FixedTypeOK'
<1> SUFFICES ASSUME FixedTypeOK, [Next]_vars PROVE FixedTypeOK'
  OBVIOUS
<1>1. product' = product
  <2>1. CASE Application \/ Hang \/ Finished \/ UNCHANGED vars
    BY <2>1 DEF Application, Send, Answer, AppCloses, Hang, Finished, env, vars
  <2>2. CASE IdleNext \/ LiveNext \/ LiveFails
    BY <2>2 DEF IdleNext, IdleConnect, IdleInstallCredential, IdleSignOut, IdleQuit, IdleIgnores,
                IdleSenderGone, LiveNext, LiveDisconnect, LiveSignOut, LiveInstallCredential,
                LiveQuit, LiveSenderGone, LiveChat, LiveConnect, LiveFails, Take, env
  <2>3. CASE LogonNext
    BY <2>3 DEF LogonNext, LogonAccepted, LogonChallenged, LogonFails, BrowserAnswered, BrowserFails,
                VerifyWebCredentials, ValidateAccount, env
  <2>4. CASE Sc2Next
    BY <2>4 DEF Sc2Next, Sc2Open, Sc2Load, Sc2Successor, Sc2Check, Sc2Publish, Sc2Utilities,
                Sc2Native, Sc2Chat, env
  <2>5. CASE ScrNext
    BY <2>5 DEF ScrNext, ScrLoad, ScrConnect, ScrHandoff, ScrEstablish, ScrRetryMismatch,
                ScrRetryRejected, ScrGivesUp, ScrPublish, ScrJoin, env
  <2>6. CASE Wc3Next
    BY <2>6 DEF Wc3Next, Wc3Load, Wc3Connect, Wc3Endpoint, Wc3Store, Wc3Classic, Wc3Chat, Wc3Retry,
                Wc3GivesUp, Wc3Publish, env
  <2>7. QED
    BY <2>1, <2>2, <2>3, <2>4, <2>5, <2>6 DEF Next, Working, Worker
<1>2. legacy' = legacy /\ blocked' \in BOOLEAN
  BY DEF Next, Working, Hang, Finished, fixed, vars, FixedTypeOK
<1>3. QED
  BY <1>1, <1>2 DEF FixedTypeOK

\* The worker's locals and channels keep their types through every bring-up:
\* in particular what a browser callback hands on is always a credential.
THEOREM WorkerTypes == Spec => []TypeOK
<1>1. Inv /\ FixedTypeOK => TypeOK
  BY DEF Inv, FixedTypeOK, TypeOK
<1>2. Init => FixedTypeOK
  BY DEF Init, FixedTypeOK
<1>3. QED
  BY InitInv, NextInv, FixedNext, <1>1, <1>2, PTL DEF Spec

\* No product is announced as connected as anybody but the account its Connect
\* named, whatever the services answer and however many commands are queued.
THEOREM WorkerConnectsAsExpected == Spec => []ConnectedAsExpected
<1>1. Inv => ConnectedAsExpected
  BY DEF Inv, ConnectedAsExpected, ProvenIsExpected, IdentifiedIsSomebody, Proven, Identified
<1>2. Init => FixedTypeOK
  BY DEF Init, FixedTypeOK
<1>3. QED
  BY InitInv, NextInv, FixedNext, <1>1, <1>2, PTL DEF Spec

\* A SignOut that reported no error has left nothing in the product's own file
\* and no cookie, and nothing the worker does before the next Connect or
\* InstallCredential brings one back.  A classic product then has no credential
\* to load; StarCraft II keeps what its un-keyed file holds.
THEOREM SignOutLeavesOwnFileEmpty == Spec => []SignOutForgets
<1>1. Init => Memory /\ FixedTypeOK
  BY DEF Init, Memory, Forgets, Remembers, FixedTypeOK
<1>2. Memory /\ FixedTypeOK => SignOutForgets
  BY DEF Memory, Forgets, FixedTypeOK, Loads, SignOutForgets
<1>3. QED
  BY <1>1, <1>2, MemoryNext, FixedNext, PTL DEF Spec

\* A classic product's bring-up stores a credential only for the account its
\* Connect named: what the browser gave under another identity is never kept.
THEOREM OnlyProvenIsKept == Spec => OnlyProvenCredentialKept
<1>1. Init => Pending
  BY DEF Init, Fresh, Pending, OnlyRemasteredPends, PendingIsIdentified, NothingPendsAtFirst,
         CallsOfWarcraft, SuccessorOfStarCraft, CachedOrPending, Identified, Proven, Wc3Calls
<1>2. Inv /\ Pending /\ [Next]_vars =>
        [product # "S2" /\ pc \in Bringup /\ cell' \notin {cell, NoAccount}
           => att.expected \in {NoAccount, cell'}]_vars
  BY KeepsProven
<1>3. Init => FixedTypeOK
  BY DEF Init, FixedTypeOK
<1>4. QED
  BY <1>1, <1>2, <1>3, InitInv, NextInv, FixedNext, PendingNext, PTL DEF Spec, OnlyProvenCredentialKept

-----------------------------------------------------------------------------
(***************************************************************************)
(* The watchdog of a sign-in (LogonWatchdog), which authenticate_cached    *)
(* runs beside: SeveredIsExplained for every patience.  What makes it      *)
(* inductive is the order of the watchdog's two stores: `fired` is up      *)
(* before the socket is shut down, and stays up, so a read that failed     *)
(* because of the cut finds it up however late the worker looks.           *)
(***************************************************************************)
\* The clock is below its limit while it runs.
ClockRuns == watchdog \in {"loop", "sleep", "look"} => spent < Patience

\* The watchdog owns up before it cuts.
FiredBeforeCut == (cut \/ watchdog = "cut") => fired

\* A read is severed by the cut alone.
SeveredByCut == outcome = "severed" => cut

\* The inductive invariant.
WatchInv == WatchTypeOK /\ ClockRuns /\ FiredBeforeCut /\ SeveredByCut /\ SeveredIsExplained

\* At the start: a patience is at least one beat.
LEMMA InitWatch == WatchInit => WatchInv
<1> SUFFICES ASSUME WatchInit PROVE WatchInv
  OBVIOUS
<1>1. /\ challenged \in BOOLEAN
      /\ waiting \in BOOLEAN
      /\ at_login_page \in BOOLEAN
      /\ fired \in BOOLEAN
      /\ cut \in BOOLEAN
  BY Zenon DEF WatchInit
<1>2. /\ worker = "reading" /\ outcome = "none" /\ report = "none"
      /\ watchdog \in {"loop", "none"} /\ spent = 0
  BY Zenon DEF WatchInit
<1>3. WatchTypeOK /\ ClockRuns
  BY <1>1, <1>2, PatienceAssumption DEF WatchTypeOK, ClockRuns
<1>4. FiredBeforeCut /\ SeveredByCut /\ SeveredIsExplained
  BY Zenon DEF WatchInit, FiredBeforeCut, SeveredByCut, SeveredIsExplained
<1>5. QED
  BY <1>3, <1>4 DEF WatchInv

\* Under every step of either thread.
LEMMA NextWatch == WatchInv /\ [WatchNext]_watchVars => WatchInv'
<1> SUFFICES ASSUME WatchInv, [WatchNext]_watchVars PROVE WatchInv'
  OBVIOUS
<1>1. CASE SignInThread
  <2>1. WatchTypeOK'
    <3>1. UNCHANGED clock
      BY <1>1, Zenon DEF SignInThread, ReadSevered, HoldClock, ReleaseClock, Disarm,
         Report
    <3>2. /\ worker' \in {"reading", "asking", "page", "answered", "returned", "disarmed", "done"}
          /\ outcome' \in {"none", "ok", "error", "severed"}
          /\ report' \in {"none", "ok", "error", "unanswered"}
      BY <1>1 DEF WatchInv, WatchTypeOK, SignInThread, ReadSevered, HoldClock,
         ReleaseClock, Disarm, Report, Returns
    <3>3. challenged' \in BOOLEAN /\ waiting' \in BOOLEAN /\ at_login_page' \in BOOLEAN
      BY <1>1, Zenon DEF WatchInv, WatchTypeOK, SignInThread, ReadSevered, HoldClock,
         ReleaseClock, Disarm, Report, Returns
    <3> QED
      BY <3>1, <3>2, <3>3 DEF WatchInv, WatchTypeOK, clock
  <2>2. ClockRuns' /\ FiredBeforeCut'
    <3>1. UNCHANGED clock
      BY <1>1, Zenon DEF SignInThread, ReadSevered, HoldClock, ReleaseClock, Disarm,
         Report
    <3>2. QED
      BY <3>1, Zenon DEF WatchInv, ClockRuns, FiredBeforeCut, clock
  <2>3. SeveredByCut'
    BY <1>1, Zenon DEF WatchInv, SeveredByCut, SignInThread, ReadSevered, HoldClock,
       ReleaseClock, Disarm, Report, Returns, clock
  <2>4. SeveredIsExplained'
    <3>1. CASE Report
      <4>1. outcome = "severed" => fired
        BY Zenon DEF WatchInv, FiredBeforeCut, SeveredByCut
      <4>2. QED
        BY <3>1, <4>1 DEF Report, SeveredIsExplained
    <3>2. CASE ~Report
      BY <1>1, <3>2 DEF WatchInv, SeveredIsExplained, SignInThread, ReadSevered,
         HoldClock, ReleaseClock, Disarm, Returns
    <3>3. QED
      BY <3>1, <3>2
  <2>5. QED
    BY <2>1, <2>2, <2>3, <2>4 DEF WatchInv
<1>2. CASE ServiceAnswers \/ ServiceChallenges \/ AskFails \/ PageAnswered \/ PageDropped
  <2>1. WatchTypeOK'
    <3>1. UNCHANGED clock
      BY <1>2, Zenon DEF ServiceAnswers, ServiceChallenges, AskFails, PageAnswered, PageDropped
    <3>2. /\ worker' \in {"reading", "asking", "page", "answered", "returned", "disarmed", "done"}
          /\ outcome' \in {"none", "ok", "error", "severed"}
          /\ report' \in {"none", "ok", "error", "unanswered"}
      BY <1>2 DEF WatchInv, WatchTypeOK, ServiceAnswers, ServiceChallenges,
         AskFails, PageAnswered, PageDropped, Returns
    <3>3. challenged' \in BOOLEAN /\ waiting' \in BOOLEAN /\ at_login_page' \in BOOLEAN
      BY <1>2, Zenon DEF WatchInv, WatchTypeOK, ServiceAnswers, ServiceChallenges,
         AskFails, PageAnswered, PageDropped, Returns
    <3> QED
      BY <3>1, <3>2, <3>3 DEF WatchInv, WatchTypeOK, clock
  <2>2. ClockRuns' /\ FiredBeforeCut'
    <3>1. UNCHANGED clock
      BY <1>2, Zenon DEF ServiceAnswers, ServiceChallenges, AskFails, PageAnswered, PageDropped
    <3>2. QED
      BY <3>1, Zenon DEF WatchInv, ClockRuns, FiredBeforeCut, clock
  <2>3. outcome' \in {outcome, "ok", "error"} /\ cut' = cut
    BY <1>2, Zenon DEF ServiceAnswers, ServiceChallenges, AskFails, PageAnswered, PageDropped,
       Returns, clock
  <2>4. SeveredByCut' /\ SeveredIsExplained'
    BY <1>2, <2>3 DEF WatchInv, SeveredByCut, SeveredIsExplained, ServiceAnswers,
       ServiceChallenges, AskFails, PageAnswered, PageDropped, Returns, clock
  <2>5. QED
    BY <2>1, <2>2, <2>4 DEF WatchInv
<1>3. CASE Watchdog
  <2>1. UNCHANGED signIn /\ UNCHANGED <<waiting, at_login_page>>
    BY <1>3, Zenon DEF Watchdog, LoopTest, Sleep, Look, Recheck, Fire, Cut, Ticks
  <2>2. WatchTypeOK' /\ ClockRuns'
    <3>1. CASE Look
      BY <3>1, <2>1, PatienceAssumption DEF WatchInv, WatchTypeOK, ClockRuns, Look, Ticks, signIn
    <3>2. CASE LoopTest \/ Recheck
      <4>1. watchdog' \in {"sleep", "exit", "fire"} /\ (watchdog' = "sleep" => watchdog = "loop")
        BY <3>2 DEF LoopTest, Recheck, Ticks
      <4>2. UNCHANGED <<spent, fired, cut>>
        BY <3>2, Zenon DEF LoopTest, Recheck
      <4>3. QED
        BY <4>1, <4>2, <2>1 DEF WatchInv, WatchTypeOK, ClockRuns, signIn
    <3>3. CASE Sleep \/ Fire \/ Cut
      <4>1. watchdog' \in {"look", "cut", "exit"} /\ (watchdog' = "look" => watchdog = "sleep")
        BY <3>3, Zenon DEF Sleep, Fire, Cut, Ticks
      <4>2. spent' = spent /\ fired' \in BOOLEAN /\ cut' \in BOOLEAN
        BY <3>3, Zenon DEF WatchInv, WatchTypeOK, Sleep, Fire, Cut
      <4>3. QED
        BY <4>1, <4>2, <2>1 DEF WatchInv, WatchTypeOK, ClockRuns, signIn
    <3>4. QED
      BY <1>3, <3>1, <3>2, <3>3 DEF Watchdog
  <2>3. FiredBeforeCut'
    <3>1. CASE Fire
      BY <3>1, Zenon DEF Fire, FiredBeforeCut
    <3>2. CASE Cut
      BY <3>2, Zenon DEF WatchInv, FiredBeforeCut, Cut
    <3>3. CASE LoopTest \/ Sleep \/ Look \/ Recheck
      <4>1. watchdog' # "cut" /\ cut' = cut /\ fired' = fired
        BY <3>3 DEF LoopTest, Sleep, Look, Recheck, Ticks
      <4>2. QED
        BY <4>1, Zenon DEF WatchInv, FiredBeforeCut
    <3>4. QED
      BY <1>3, <3>1, <3>2, <3>3 DEF Watchdog
  <2>4. cut => cut'
    BY <1>3, Zenon DEF Watchdog, LoopTest, Sleep, Look, Recheck, Fire, Cut
  <2>5. SeveredByCut' /\ SeveredIsExplained'
    BY <2>1, <2>4, Zenon DEF WatchInv, SeveredByCut, SeveredIsExplained, signIn
  <2>6. QED
    BY <2>2, <2>3, <2>5 DEF WatchInv
<1>4. CASE Over \/ UNCHANGED watchVars
  <2>1. UNCHANGED watchVars
    BY <1>4 DEF Over
  <2>2. QED
    <3>1. WatchTypeOK' /\ ClockRuns'
      BY <2>1 DEF WatchInv, WatchTypeOK, ClockRuns, watchVars, signIn, clock
    <3>2. FiredBeforeCut' /\ SeveredByCut' /\ SeveredIsExplained'
      BY <2>1, Zenon DEF WatchInv, FiredBeforeCut, SeveredByCut, SeveredIsExplained,
         watchVars, signIn, clock
    <3>3. QED
      BY <3>1, <3>2 DEF WatchInv
<1>5. QED
  BY <1>1, <1>2, <1>3, <1>4 DEF WatchNext

\* Every state of the sign-in and of the watchdog is well typed; in particular
\* the watchdog's count of beats never passes its patience.
THEOREM WatchdogTypes == WatchSpec => []WatchTypeOK
<1>1. WatchInit => WatchInv
  BY InitWatch
<1>2. WatchInv /\ [WatchNext]_watchVars => WatchInv'
  BY NextWatch
<1>3. WatchInv => WatchTypeOK
  BY DEF WatchInv
<1> QED
  BY <1>1, <1>2, <1>3, PTL DEF WatchSpec

\* A sign-in that the watchdog severed is reported as unanswered.
THEOREM WatchdogExplains == WatchSpec => []SeveredIsExplained
<1>1. WatchInit => WatchInv
  BY InitWatch
<1>2. WatchInv /\ [WatchNext]_watchVars => WatchInv'
  BY NextWatch
<1>3. WatchInv => SeveredIsExplained
  BY DEF WatchInv
<1> QED
  BY <1>1, <1>2, <1>3, PTL DEF WatchSpec
=============================================================================
