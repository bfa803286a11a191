---------------------------- MODULE SessionWorker ----------------------------
(***************************************************************************)
(* The network thread of one product, core/src/session/worker.rs, with the *)
(* two classic bring-ups it calls (games/scr/session.rs and                *)
(* games/wc3/session.rs) and the sign-in of platform/auth/credentials.rs.  *)
(*                                                                         *)
(* The thread takes commands from a queue only while it is idle or live: a *)
(* bring-up runs to its end first, and blocks in the browser callback      *)
(* until the application answers or drops the reply channel.  `pc` is the  *)
(* call the thread is in; each action is that call with everything up to   *)
(* the next one.  A credential is abstracted to the account that it signs  *)
(* in as; what the services answer is chosen nondeterministically.         *)
(*                                                                         *)
(* `out` is the sequence of events the last step sent to the application.  *)
(***************************************************************************)
EXTENDS Naturals, Sequences

CONSTANTS
  Accounts,      \* Battle.net accounts
  NoAccount,     \* no account, no credential
  Products,      \* the products a thread may be started for
  MaxCommands    \* bound on the commands the application sends

ASSUME AccountAssumption == NoAccount \notin Accounts
ASSUME ProductAssumption == Products \subseteq {"S2", "S1", "W3"}
ASSUME BoundAssumption == MaxCommands \in Nat

VARIABLES
  product,     \* the product the thread was started for
  commands,    \* the command channel
  appOpen,     \* the application still holds its ends of the channels
  sent,        \* commands sent so far
  pc,          \* the call the thread is in
  att,         \* the locals of the connection attempt
  cell,        \* the account of the credential in the product's own file
  legacy,      \* the account of the un-keyed file StarCraft II falls back to
  cookie,      \* Warcraft III's offline cookie is cached
  reply,       \* the one-shot reply channel of the browser callback
  forgotten,   \* a SignOut reported success and nothing was cached since
  blocked,     \* the thread is in a read that never returns
  out          \* the events sent by the last step

vars ==
  <<product, commands, appOpen, sent, pc, att, cell, legacy, cookie, reply, forgotten, blocked, out>>

Maybe == Accounts \cup {NoAccount}

Errors == {"none", "authentication", "entitlement", "server", "io"}

Attempts ==
  [force : BOOLEAN,        \* force_interactive of this Connect
   interactive : BOOLEAN,  \* force_interactive of this WarcraftSession::connect
   expected : Maybe,       \* expected_account_id
   cached : Maybe,         \* the credential loaded for this try
   had : BOOLEAN,          \* had_cached_credential
   deleted : BOOLEAN,      \* stale_deleted
   pending : Maybe,        \* Remastered's pending_credential
   fresh : BOOLEAN,        \* fresh_account
   account : Maybe,        \* who the service says signed in
   mismatch : BOOLEAN,     \* identity_mismatch
   retried : BOOLEAN,      \* the second try of this attempt is under way
   watched : BOOLEAN,      \* the thread of LogonWatchdog could be started
   error : Errors]         \* how the try ended

Fresh(force, expected) ==
  [force |-> force, interactive |-> force, expected |-> expected, cached |-> NoAccount,
   had |-> FALSE, deleted |-> FALSE, pending |-> NoAccount,
   fresh |-> force /\ expected = NoAccount,
   account |-> NoAccount, mismatch |-> FALSE, retried |-> FALSE, watched |-> FALSE,
   error |-> "none"]

Plain == {"Disconnect", "SignOut", "Quit", "Chat"}
Commands ==
  [kind : {"Connect"}, force : BOOLEAN, account : Maybe]
    \cup [kind : {"InstallCredential"}, force : {FALSE}, account : Accounts]
    \cup [kind : Plain, force : {FALSE}, account : {NoAccount}]

Event(kind, stage, account, fresh) ==
  [kind |-> kind, stage |-> stage, account |-> account, fresh |-> fresh]
Stage(stage) == Event("Stage", stage, NoAccount, FALSE)
Authentication(fresh) == Event("Authentication", "none", NoAccount, fresh)
Account(account) == Event("Account", "none", account, FALSE)
ProductCredential(account) == Event("ProductCredential", "none", account, FALSE)
CommandError == Event("CommandError", "none", NoAccount, FALSE)
Error == Event("Error", "none", NoAccount, FALSE)

Bringup ==
  {"s2.open", "s2.load", "s2.successor", "s2.check", "s2.catalog", "s2.utilities",
   "s2.native", "s2.chat",
   "s1.load", "s1.connect", "s1.handoff", "s1.establish", "s1.outcome", "s1.publish", "s1.join",
   "w3.load", "w3.connect", "w3.endpoint", "w3.store", "w3.classic", "w3.chat",
   "w3.outcome", "w3.publish",
   "logon", "browser", "verify", "validate"}

Replies == Accounts \cup {"none", "waiting", "err", "dropped"}

ThreadTypeOK ==
  /\ product \in Products
  /\ commands \in Seq(Commands)
  /\ appOpen \in BOOLEAN
  /\ sent \in 0 .. MaxCommands
  /\ pc \in {"idle", "live", "done"} \cup Bringup
  /\ att \in Attempts
  /\ cell \in Maybe
  /\ cookie \in BOOLEAN
  /\ reply \in Replies
  /\ forgotten \in BOOLEAN

TypeOK ==
  /\ ThreadTypeOK
  /\ legacy \in IF product = "S2" THEN Maybe ELSE {NoAccount}
  /\ blocked \in BOOLEAN

Init ==
  /\ product \in Products
  /\ commands = <<>>
  /\ appOpen = TRUE
  /\ sent = 0
  /\ pc = "idle"
  /\ att = Fresh(FALSE, NoAccount)
  /\ cell \in Maybe
  /\ legacy \in IF product = "S2" THEN Maybe ELSE {NoAccount}
  /\ cookie \in IF product = "W3" THEN BOOLEAN ELSE {FALSE}
  /\ reply = "none"
  /\ forgotten = FALSE
  /\ blocked = FALSE
  /\ out = <<>>

env == <<product, commands, appOpen, sent>>
store == <<cell, cookie, forgotten>>

\* The two that a step of an operation never changes: nothing writes or deletes
\* the un-keyed file, and a read that never returns is Hang.
fixed == <<legacy, blocked>>

\* FileCredentialStore::load: the un-keyed file is read when the product's own
\* is absent.
Loads == IF cell # NoAccount THEN cell ELSE legacy

-----------------------------------------------------------------------------
(* The application: sends commands, answers the browser callback, closes.  *)

Send(command) ==
  /\ appOpen
  /\ sent < MaxCommands
  /\ commands' = Append(commands, command)
  /\ sent' = sent + 1
  /\ out' = <<>>
  /\ UNCHANGED <<product, appOpen, pc, att, reply, store>>

Answer ==
  /\ reply = "waiting"
  /\ appOpen
  /\ reply' \in Accounts \cup {"err"}
  /\ out' = <<>>
  /\ UNCHANGED <<env, pc, att, store>>

\* The handle is dropped, and with it a reply channel nobody has answered.
AppCloses ==
  /\ appOpen
  /\ appOpen' = FALSE
  /\ reply' = IF reply = "waiting" THEN "dropped" ELSE reply
  /\ out' = <<>>
  /\ UNCHANGED <<product, commands, sent, pc, att, store>>

-----------------------------------------------------------------------------
(* run_worker: the idle loop.                                              *)

Emit(events) == out' = events

\* `?` out of connect_once: run_worker reports the error and goes back to recv.
Fail(events) ==
  /\ pc' = "idle"
  /\ Emit(events \o <<Error, Stage("Disconnected")>>)

Take(kind) ==
  /\ commands # <<>>
  /\ Head(commands).kind = kind
  /\ commands' = Tail(commands)
  /\ UNCHANGED <<product, appOpen, sent>>

\* CredentialStore::delete, which may fail and leave the credential.
Deleted == {NoAccount, cell}

FirstCall == CASE product = "S2" -> "s2.open" [] product = "S1" -> "s1.load" [] OTHER -> "w3.load"

IdleConnect ==
  /\ pc = "idle"
  /\ Take("Connect")
  /\ att' = Fresh(Head(commands).force, Head(commands).account)
  /\ pc' = FirstCall
  /\ forgotten' = FALSE
  /\ Emit(<<>>)
  /\ UNCHANGED <<cell, cookie, reply>>

\* A store can fail behind its rename, with the new credential in place.
IdleInstallCredential ==
  /\ pc = "idle"
  /\ Take("InstallCredential")
  /\ \/ cell' = Head(commands).account /\ Emit(<<>>)
     \/ cell' \in {cell, Head(commands).account} /\ Emit(<<Error>>)
  /\ forgotten' = FALSE
  /\ UNCHANGED <<pc, att, cookie, reply>>

\* Both deletions are tried, and each failure reported.  The un-keyed file of
\* StarCraft II is not deleted.
IdleSignOut ==
  /\ pc = "idle"
  /\ Take("SignOut")
  /\ \E cellGone \in BOOLEAN, cookieGone \in IF product = "W3" THEN BOOLEAN ELSE {TRUE} :
       /\ cell' = IF cellGone THEN NoAccount ELSE cell
       /\ cookie' = IF cookieGone THEN FALSE ELSE cookie
       /\ forgotten' = (cellGone /\ cookieGone)
       /\ Emit((IF cellGone THEN <<>> ELSE <<Error>>) \o (IF cookieGone THEN <<>> ELSE <<Error>>)
                 \o <<Stage("Disconnected")>>)
  /\ UNCHANGED <<pc, att, reply>>

IdleQuit ==
  /\ pc = "idle"
  /\ Take("Quit")
  /\ pc' = "done"
  /\ Emit(<<>>)
  /\ UNCHANGED <<att, reply, store>>

IdleIgnores ==
  /\ pc = "idle"
  /\ Take("Disconnect") \/ Take("Chat")
  /\ Emit(<<>>)
  /\ UNCHANGED <<pc, att, reply, store>>

\* recv fails once the queue is drained and its sender gone.
IdleSenderGone ==
  /\ pc = "idle"
  /\ commands = <<>>
  /\ ~appOpen
  /\ pc' = "done"
  /\ Emit(<<>>)
  /\ UNCHANGED <<env, att, reply, store>>

IdleNext ==
  \/ IdleConnect
  \/ IdleInstallCredential
  \/ IdleSignOut
  \/ IdleQuit
  \/ IdleIgnores
  \/ IdleSenderGone

-----------------------------------------------------------------------------
(* What the three bring-ups share: logging on, and the browser callback.   *)

\* A try that ended in an error: StarCraft II's ends the attempt, the classic
\* products look at the outcome first.
TryFails(error) ==
  CASE product = "S2" -> Fail(<<>>) /\ UNCHANGED att
    [] product = "S1" -> /\ pc' = "s1.outcome"
                         /\ att' = [att EXCEPT !.error = error]
                         /\ Emit(<<>>)
    [] product = "W3" -> /\ pc' = "w3.outcome"
                         /\ att' = [att EXCEPT !.error = error]
                         /\ Emit(<<>>)

Authenticated(account) ==
  /\ att' = [att EXCEPT !.account = account]
  /\ pc' = IF product = "S2" THEN "s2.successor" ELSE "validate"
  /\ Emit(<<>>)

\* The service knows the cached credential.  The code does not ask whether it
\* sent one: that nobody is accepted without is an assumption on the service.
LogonAccepted ==
  /\ pc = "logon"
  /\ att.cached # NoAccount
  /\ Authenticated(att.cached)
  /\ UNCHANGED <<env, reply, store>>

\* The service wants a web sign-in.  The credential it would not take is
\* deleted before the browser opens, except by Remastered.
LogonChallenged ==
  /\ pc = "logon"
  /\ LET stale == product # "S1" /\ att.cached # NoAccount /\ ~att.deleted
     IN \/ /\ cell' = IF stale THEN NoAccount ELSE cell
           /\ att' = [att EXCEPT !.deleted = att.deleted \/ stale]
           /\ pc' = "browser"
           /\ reply' = IF appOpen THEN "waiting" ELSE "dropped"
           /\ Emit(<<Authentication(att.fresh)>>)
        \/ stale /\ TryFails("authentication") /\ UNCHANGED <<cell, reply>>
  /\ UNCHANGED <<env, cookie, forgotten>>

LogonFails ==
  /\ pc = "logon"
  /\ \E error \in {"authentication", "server", "io"} : TryFails(error)
  /\ UNCHANGED <<env, reply, store>>

\* Mutant: the callback forgets the second `?`, and takes an error for a credential.
BrowserAnsweredUnchecked ==
  /\ pc = "browser"
  /\ reply \in Accounts \cup {"err"}
  /\ att' = [att EXCEPT !.account = reply]
  /\ pc' = "verify"
  /\ reply' = "none"
  /\ Emit(<<>>)
  /\ UNCHANGED <<env, store>>

\* Mutant: Remastered's callback keeps the credential at once, as it used to.
BrowserAnsweredStoring ==
  /\ pc = "browser"
  /\ reply \in Accounts
  /\ att' = [att EXCEPT !.account = reply]
  /\ cell' = IF product = "S1" THEN reply ELSE cell
  /\ pc' = "verify"
  /\ reply' = "none"
  /\ Emit(<<>>)
  /\ UNCHANGED <<env, cookie, forgotten>>

\* response.recv() in the browser callback.
BrowserAnswered ==
  /\ pc = "browser"
  /\ reply \in Accounts
  /\ att' = [att EXCEPT !.account = reply,
                        !.pending = IF product = "S1" THEN reply ELSE @]
  /\ pc' = "verify"
  /\ reply' = "none"
  /\ Emit(<<>>)
  /\ UNCHANGED <<env, store>>

BrowserFails ==
  /\ pc = "browser"
  /\ reply \in {"err", "dropped"}
  /\ TryFails(IF reply = "err" THEN "authentication" ELSE "io")
  /\ reply' = "none"
  /\ UNCHANGED <<env, store>>

VerifyWebCredentials ==
  /\ pc = "verify"
  /\ \/ Authenticated(att.account)
     \/ \E error \in {"authentication", "server", "io"} : TryFails(error)
  /\ UNCHANGED <<env, reply, store>>

\* ensure_authoritative_account
IsAuthoritative(account) == att.expected \in {NoAccount, account}

\* validate_account of the classic products, before the handoff is asked for.
ValidateAccount ==
  /\ pc = "validate"
  /\ IF IsAuthoritative(att.account)
       THEN /\ att' = [att EXCEPT !.mismatch = FALSE]
            /\ pc' = IF product = "S1" THEN "s1.handoff" ELSE "w3.endpoint"
            /\ Emit(IF product = "S1" THEN <<>> ELSE <<Stage("GameUtilities")>>)
       ELSE /\ att' = [att EXCEPT !.mismatch = TRUE, !.error = "authentication"]
            /\ pc' = IF product = "S1" THEN "s1.outcome" ELSE "w3.outcome"
            /\ Emit(<<>>)
  /\ UNCHANGED <<env, reply, store>>

-----------------------------------------------------------------------------
(* connect_once: StarCraft II.                                             *)

\* Open, establish, and the watchdog over what follows, if its thread starts.
Sc2Open ==
  /\ pc = "s2.open"
  /\ \/ /\ pc' = "s2.load"
        /\ \E started \in BOOLEAN : att' = [att EXCEPT !.watched = started]
        /\ Emit(<<Stage("WebAuthentication")>>)
     \/ Fail(<<>>) /\ UNCHANGED att
     \/ Fail(<<Stage("WebAuthentication")>>) /\ UNCHANGED att
  /\ UNCHANGED <<env, reply, store>>

\* authenticate_cached, up to the logon.
Sc2Load ==
  /\ pc = "s2.load"
  /\ \/ /\ att' = [att EXCEPT !.cached = IF att.force THEN NoAccount ELSE Loads]
        /\ pc' = "logon"
        /\ Emit(<<>>)
     \/ ~att.force /\ Fail(<<>>) /\ UNCHANGED att
  /\ UNCHANGED <<env, reply, store>>

\* authenticate_cached, after the logon: the successor replaces the cached
\* credential, which is dropped when none can be had.
Sc2Successor ==
  /\ pc = "s2.successor"
  /\ \/ cell' = att.account /\ pc' = "s2.check" /\ Emit(<<>>)
     \/ cell' \in {cell, att.account} /\ Fail(<<>>)
     \/ /\ cell' \in IF att.cached # NoAccount /\ ~att.deleted THEN Deleted ELSE {cell}
        /\ Fail(<<>>)
  /\ UNCHANGED <<env, att, reply, cookie, forgotten>>

\* Mutant: whoever signed in is taken for the authoritative account.
Sc2CheckSkipped ==
  /\ pc = "s2.check"
  /\ \/ pc' = "s2.catalog" /\ Emit(<<>>)
     \/ Fail(<<>>)
  /\ UNCHANGED <<env, att, reply, store>>

\* The logon may name no account; one it names must be the authoritative one.
Sc2Check ==
  /\ pc = "s2.check"
  /\ \/ IsAuthoritative(att.account) /\ pc' = "s2.catalog" /\ Emit(<<>>)
     \/ Fail(<<>>)
  /\ UNCHANGED <<env, att, reply, store>>

\* The catalogue may not answer; a credential is minted for each secondary
\* product it lists, before Account is published.
Sc2Publish ==
  /\ pc = "s2.catalog"
  /\ \E minted \in 0 .. 2 :
       Emit([i \in 1 .. minted |-> ProductCredential(att.account)]
              \o <<Account(att.account), Stage("GameUtilities")>>)
  /\ pc' = "s2.utilities"
  /\ UNCHANGED <<env, att, reply, store>>

Sc2Utilities ==
  /\ pc = "s2.utilities"
  /\ \/ pc' = "s2.native" /\ Emit(<<Stage("NativeAuthentication")>>)
     \/ Fail(<<>>)
  /\ UNCHANGED <<env, att, reply, store>>

Sc2Native ==
  /\ pc = "s2.native"
  /\ \/ pc' = "s2.chat" /\ Emit(<<Stage("ChatBootstrap")>>)
     \/ Fail(<<>>)
  /\ UNCHANGED <<env, att, reply, store>>

Sc2Chat ==
  /\ pc = "s2.chat"
  /\ \/ pc' = "live" /\ Emit(<<Stage("Connected")>>)
     \/ Fail(<<>>)
  /\ UNCHANGED <<env, att, reply, store>>

Sc2Next ==
  \/ Sc2Open
  \/ Sc2Load
  \/ Sc2Successor
  \/ Sc2Check
  \/ Sc2Publish
  \/ Sc2Utilities
  \/ Sc2Native
  \/ Sc2Chat

-----------------------------------------------------------------------------
(* run_remastered and scr::session::connect.                               *)

ScrLoad ==
  /\ pc = "s1.load"
  /\ \/ LET cached == IF att.force THEN NoAccount ELSE cell
        IN /\ att' = [att EXCEPT !.cached = cached, !.had = (cached # NoAccount)]
           /\ pc' = "s1.connect"
           /\ Emit(<<Stage("WebAuthentication")>>)
     \/ ~att.force /\ Fail(<<Stage("WebAuthentication")>>) /\ UNCHANGED att
  /\ UNCHANGED <<env, reply, store>>

ScrConnect ==
  /\ pc = "s1.connect"
  /\ Emit(<<Stage("WebAuthentication")>>)
  /\ \/ pc' = "logon" /\ UNCHANGED att
     \/ pc' = "s1.outcome" /\ att' = [att EXCEPT !.error = "io"]
  /\ UNCHANGED <<env, reply, store>>

ScrHandoff ==
  /\ pc = "s1.handoff"
  /\ \/ /\ pc' = "s1.establish"
        /\ Emit(<<Stage("GameUtilities"), Stage("NativeAuthentication")>>)
        /\ UNCHANGED att
     \/ \E error \in {"authentication", "server", "io"} : TryFails(error)
  /\ UNCHANGED <<env, reply, store>>

ScrEstablish ==
  /\ pc = "s1.establish"
  /\ \/ pc' = "s1.publish" /\ Emit(<<Stage("ChatBootstrap")>>) /\ UNCHANGED att
     \/ \E error \in {"authentication", "server", "io"} : TryFails(error)
  /\ UNCHANGED <<env, reply, store>>

\* The browser carried another identity: forget what it gave, clear the shared
\* browser session, and try once more from the bootstrap marker.
ScrRetryMismatch ==
  /\ pc = "s1.outcome"
  /\ ~att.retried
  /\ att.mismatch
  /\ cell' \in Deleted
  /\ att' = [att EXCEPT !.mismatch = FALSE, !.pending = NoAccount, !.fresh = TRUE,
                        !.cached = NoAccount, !.retried = TRUE]
  /\ pc' = "s1.connect"
  /\ Emit(<<>>)
  /\ UNCHANGED <<env, cookie, reply, forgotten>>

\* A cached credential the service would not take is worth one rotation.
ScrRetryRejected ==
  /\ pc = "s1.outcome"
  /\ ~att.retried
  /\ ~att.mismatch /\ att.had /\ ~att.force
  /\ att.error \in {"authentication", "server"}
  /\ cell' \in Deleted
  /\ att' = [att EXCEPT !.cached = NoAccount, !.retried = TRUE]
  /\ pc' = "s1.connect"
  /\ Emit(<<>>)
  /\ UNCHANGED <<env, cookie, reply, forgotten>>

ScrGivesUp ==
  /\ pc = "s1.outcome"
  /\ \/ att.retried
     \/ ~att.mismatch /\ ~(att.had /\ ~att.force /\ att.error \in {"authentication", "server"})
  /\ Fail(<<>>)
  /\ UNCHANGED <<env, att, reply, store>>

\* The account is proved: only now is the browser's credential kept.
ScrPublish ==
  /\ pc = "s1.publish"
  /\ IF IsAuthoritative(att.account)
       THEN /\ cell' \in IF att.pending # NoAccount THEN {att.pending, cell} ELSE {cell}
            /\ att' = [att EXCEPT !.pending = NoAccount]
            /\ pc' = "s1.join"
            /\ Emit(<<Account(att.account)>>)
       ELSE Fail(<<>>) /\ UNCHANGED <<att, cell>>
  /\ UNCHANGED <<env, cookie, reply, forgotten>>

ScrJoin ==
  /\ pc = "s1.join"
  /\ \/ pc' = "live" /\ Emit(<<Stage("Connected")>>)
     \/ Fail(<<>>)
  /\ UNCHANGED <<env, att, reply, store>>

ScrNext ==
  \/ ScrLoad
  \/ ScrConnect
  \/ ScrHandoff
  \/ ScrEstablish
  \/ ScrRetryMismatch
  \/ ScrRetryRejected
  \/ ScrGivesUp
  \/ ScrPublish
  \/ ScrJoin

-----------------------------------------------------------------------------
(* run_warcraft and WarcraftSession::connect.                              *)

Wc3Load ==
  /\ pc = "w3.load"
  /\ \/ /\ att' = [att EXCEPT !.had = (~att.force /\ cell # NoAccount)]
        /\ pc' = "w3.connect"
        /\ Emit(<<Stage("WebAuthentication")>>)
     \/ ~att.force /\ Fail(<<>>) /\ UNCHANGED att
  /\ UNCHANGED <<env, reply, store>>

Wc3Connect ==
  /\ pc = "w3.connect"
  /\ Emit(<<Stage("WebAuthentication")>>)
  /\ \/ /\ att' = [att EXCEPT !.cached = IF att.interactive THEN NoAccount ELSE cell,
                              !.deleted = FALSE]
        /\ pc' = "logon"
     \/ \E error \in {"io"} \cup (IF att.interactive THEN {} ELSE {"authentication"}) :
          /\ att' = [att EXCEPT !.error = error]
          /\ pc' = "w3.outcome"
  /\ UNCHANGED <<env, reply, store>>

\* request_classic_endpoint, then generate_auth_token.
Wc3Endpoint ==
  /\ pc = "w3.endpoint"
  /\ \/ pc' = "w3.store" /\ Emit(<<>>) /\ UNCHANGED att
     \/ \E error \in {"authentication", "server", "io"} : TryFails(error)
  /\ UNCHANGED <<env, reply, store>>

Wc3Store ==
  /\ pc = "w3.store"
  /\ \/ /\ cell' = att.account
        /\ pc' = "w3.classic"
        /\ Emit(<<Stage("NativeAuthentication")>>)
        /\ UNCHANGED att
     \/ cell' \in {cell, att.account} /\ TryFails("authentication")
  /\ UNCHANGED <<env, cookie, reply, forgotten>>

\* Mutant: the session starts over with the cookie that was refused.
Wc3ClassicKeepingCookie ==
  /\ pc = "w3.classic"
  /\ \/ pc' = "w3.chat" /\ Emit(<<Stage("ChatBootstrap")>>) /\ UNCHANGED att
     \/ cookie /\ pc' = "w3.connect" /\ Emit(<<>>) /\ UNCHANGED att
     \/ ~cookie /\ TryFails("authentication")
  /\ UNCHANGED <<env, cell, cookie, reply, forgotten>>

\* A refused session with an offline cookie starts over without the cookie.
Wc3Classic ==
  /\ pc = "w3.classic"
  /\ \/ /\ cookie' \in {cookie, TRUE}
        /\ \/ pc' = "w3.chat" /\ Emit(<<Stage("ChatBootstrap")>>) /\ UNCHANGED att
           \/ TryFails("authentication")
     \/ /\ cookie
        /\ \/ /\ cookie' = FALSE
              /\ att' = [att EXCEPT !.interactive = FALSE]
              /\ pc' = "w3.connect"
              /\ Emit(<<>>)
           \/ cookie' = cookie /\ TryFails("authentication")
     \/ /\ ~cookie
        /\ cookie' = cookie
        /\ \E error \in {"entitlement", "authentication", "server", "io"} : TryFails(error)
  /\ UNCHANGED <<env, cell, reply, forgotten>>

\* join(0) and the wait for its roster, which times out into an error.
Wc3Chat ==
  /\ pc = "w3.chat"
  /\ cookie' \in {cookie, TRUE}
  /\ \/ pc' = "w3.publish" /\ Emit(<<>>) /\ UNCHANGED att
     \/ \E error \in {"authentication", "server", "io"} : TryFails(error)
  /\ UNCHANGED <<env, cell, reply, forgotten>>

Wc3Retries == ~att.retried /\ (att.mismatch \/ (att.had /\ att.error = "entitlement"))

Wc3Retry ==
  /\ pc = "w3.outcome"
  /\ Wc3Retries
  /\ cell' \in Deleted
  /\ cookie' \in {cookie, FALSE}
  /\ att' = [att EXCEPT !.fresh = FALSE, !.interactive = TRUE, !.retried = TRUE]
  /\ pc' = "w3.connect"
  /\ Emit(<<>>)
  /\ UNCHANGED <<env, reply, forgotten>>

Wc3GivesUp ==
  /\ pc = "w3.outcome"
  /\ ~Wc3Retries
  /\ Fail(<<>>)
  /\ UNCHANGED <<env, att, reply, store>>

Wc3Publish ==
  /\ pc = "w3.publish"
  /\ IF IsAuthoritative(att.account)
       THEN pc' = "live" /\ Emit(<<Account(att.account), Stage("Connected")>>)
       ELSE Fail(<<>>)
  /\ UNCHANGED <<env, att, reply, store>>

Wc3Next ==
  \/ Wc3Load
  \/ Wc3Connect
  \/ Wc3Endpoint
  \/ Wc3Store
  \/ Wc3Classic
  \/ Wc3Chat
  \/ Wc3Retry
  \/ Wc3GivesUp
  \/ Wc3Publish

-----------------------------------------------------------------------------
(* run_live, run_live_classic and run_live_warcraft.                       *)

\* Remastered's loop returns without a word; StarCraft II's close may fail.
LiveDisconnect ==
  /\ pc = "live"
  /\ Take("Disconnect")
  /\ \/ /\ pc' = "idle"
        /\ Emit(IF product = "S1" THEN <<>> ELSE <<Stage("Disconnected")>>)
     \/ product = "S2" /\ Fail(<<>>)
  /\ UNCHANGED <<att, reply, store>>

\* Mutant: the live loop leaves Warcraft III's cookie, as the other products' do.
LiveSignOutKeepingCookie ==
  /\ pc = "live"
  /\ Take("SignOut")
  /\ \/ /\ cell' = NoAccount
        /\ forgotten' = TRUE
        /\ pc' = "idle"
        /\ Emit(<<Stage("Disconnected")>>)
     \/ UNCHANGED <<cell, forgotten>> /\ Fail(<<>>)
  /\ UNCHANGED <<att, cookie, reply>>

\* The first deletion that fails ends the session in an error.  The un-keyed
\* file of StarCraft II is not deleted.
LiveSignOut ==
  /\ pc = "live"
  /\ Take("SignOut")
  /\ \/ /\ cell' = NoAccount
        /\ cookie' = FALSE
        /\ forgotten' = TRUE
        /\ pc' = "idle"
        /\ Emit(<<Stage("Disconnected")>>)
     \/ /\ cell' \in IF product = "W3" THEN Deleted ELSE {cell}
        /\ UNCHANGED <<cookie, forgotten>>
        /\ Fail(<<>>)
  /\ UNCHANGED <<att, reply>>

LiveInstallCredential ==
  /\ pc = "live"
  /\ Take("InstallCredential")
  /\ \/ cell' = Head(commands).account /\ Emit(<<>>) /\ UNCHANGED pc
     \/ cell' \in {cell, Head(commands).account} /\ Fail(<<>>)
  /\ UNCHANGED <<att, cookie, reply, forgotten>>

\* Remastered's loop has no arm for Quit: it falls in with the commands that
\* are StarCraft II's.
LiveQuit ==
  /\ pc = "live"
  /\ Take("Quit")
  /\ CASE product = "S2" -> Fail(<<>>)
       [] product = "S1" -> Emit(<<>>) /\ UNCHANGED pc
       [] product = "W3" -> pc' = "idle" /\ Emit(<<>>)
  /\ UNCHANGED <<att, reply, store>>

\* Mutant: Remastered's loop takes a closed channel for a quiet one.
LiveSenderGoneUnheard ==
  /\ pc = "live"
  /\ commands = <<>>
  /\ ~appOpen
  /\ product # "S1"
  /\ IF product = "S2" THEN Fail(<<>>) ELSE pc' = "idle" /\ Emit(<<>>)
  /\ UNCHANGED <<env, att, reply, store>>

LiveSenderGone ==
  /\ pc = "live"
  /\ commands = <<>>
  /\ ~appOpen
  /\ IF product = "S2" THEN Fail(<<>>) ELSE pc' = "idle" /\ Emit(<<>>)
  /\ UNCHANGED <<env, att, reply, store>>

\* Joins, leaves, messages and whispers: refused ones are reported, and a
\* transport error of StarCraft II's ends the session.
LiveChat ==
  /\ pc = "live"
  /\ Take("Chat")
  /\ \/ \E events \in {<<>>, <<CommandError>>} : Emit(events) /\ UNCHANGED pc
     \/ product = "S2" /\ Fail(<<>>)
  /\ UNCHANGED <<att, reply, store>>

LiveConnect ==
  /\ pc = "live"
  /\ Take("Connect")
  /\ Emit(<<>>)
  /\ UNCHANGED <<pc, att, reply, store>>

\* receive, poll, keep_alive or maintain_transport fails.
LiveFails ==
  /\ pc = "live"
  /\ Fail(<<>>)
  /\ UNCHANGED <<env, att, reply, store>>

LiveNext ==
  \/ LiveDisconnect
  \/ LiveSignOut
  \/ LiveInstallCredential
  \/ LiveQuit
  \/ LiveSenderGone
  \/ LiveChat
  \/ LiveConnect

LogonNext ==
  \/ LogonAccepted
  \/ LogonChallenged
  \/ LogonFails
  \/ BrowserAnswered
  \/ BrowserFails
  \/ VerifyWebCredentials
  \/ ValidateAccount

Worker == IdleNext \/ LogonNext \/ Sc2Next \/ ScrNext \/ Wc3Next \/ LiveNext
Working == ~blocked /\ Worker /\ UNCHANGED fixed

-----------------------------------------------------------------------------
(* Reads that never return: below the TLS layer no timeout reaches a read  *)
(* that is already under way.  LogonWatchdog cuts StarCraft II's sign-in   *)
(* out of one, from its arming to its disarming, if its thread started;    *)
(* the rest of the calls over TLS have nobody to cut them.                 *)

\* The calls that read over TLS with no watchdog over them.
Unwatched ==
  \/ pc \in {"s2.open", "s2.catalog", "s2.utilities",
             "s1.connect", "s1.handoff", "s1.establish", "s1.join",
             "w3.connect", "w3.endpoint", "w3.classic", "w3.chat"}
  \/ pc \in {"logon", "verify", "s2.successor"} /\ ~att.watched
  \/ pc = "live" /\ product # "S2"

Hang ==
  /\ ~blocked
  /\ Unwatched
  /\ blocked' = TRUE
  /\ out' = <<>>
  /\ UNCHANGED <<env, pc, att, reply, store, legacy>>

\* The thread has returned; what is left in its channels is dropped.  A blocked
\* one stays as it is.
Finished ==
  /\ pc = "done" \/ blocked
  /\ UNCHANGED vars

Application == (\E command \in Commands : Send(command)) \/ Answer \/ AppCloses

Next ==
  \/ Application /\ UNCHANGED fixed
  \/ Working
  \/ ~blocked /\ LiveFails /\ UNCHANGED fixed
  \/ Hang
  \/ Finished

Spec == Init /\ [][Next]_vars

(***************************************************************************)
(* Fairness.  The thread runs whenever it can.  A call returns unless it   *)
(* is a read over TLS that nobody watches: Hang may take any of those, at  *)
(* any time, and the thread is then blocked for good.  Nothing is assumed  *)
(* of when the application sends, answers or closes, nor that a live       *)
(* session ever fails.                                                     *)
(***************************************************************************)
Fairness == WF_vars(Working)
FairSpec == Spec /\ Fairness

-----------------------------------------------------------------------------
\* A session is announced as connected, and its account published, only as the
\* account its Connect named, however the credential, the browser's identity
\* and the retries turned out.
ConnectedAsExpected ==
  pc \in {"live", "s1.join", "s2.utilities", "s2.native", "s2.chat"} =>
    att.account # NoAccount /\ att.expected \in {NoAccount, att.account}

\* worker.rs:593: a classic product keeps a credential only after the account
\* layer has proved it is the authoritative account's; a mismatch kept on disk
\* would trap every reconnect in the same mismatch.
OnlyProvenCredentialKept ==
  [][product # "S2" /\ pc \in Bringup /\ cell' \notin {cell, NoAccount}
       => att.expected \in {NoAccount, cell'}]_vars

\* A SignOut that reported no error, whichever loop served it, has left nothing
\* in the product's own file and no offline cookie.  A later Connect of a classic
\* product then finds no credential at all; StarCraft II's may still find the one
\* of the un-keyed file (file.rs:52-55), which no sign-out deletes.
SignOutForgets ==
  forgotten => cell = NoAccount /\ ~cookie /\ (product # "S2" => Loads = NoAccount)

\* Every attempt ends, in a session or back in the idle loop, unless it waits
\* for ever at a login page nobody answers, or in a read over TLS that nobody
\* watches: the second try of a classic product and Warcraft III's start without
\* its cookie do not repeat, and under the watchdog no silence holds StarCraft
\* II's sign-in.
AttemptEnds ==
  (pc \in Bringup) ~> (pc \in {"idle", "live"} \/ [](pc = "browser") \/ (blocked /\ Unwatched))

\* Once the application is gone, the thread finishes, whatever is queued and
\* wherever it is, unless it is blocked in a read that nobody watches.
WorkerFinishes == (~appOpen) ~> (pc = "done" \/ (blocked /\ Unwatched))
=============================================================================
