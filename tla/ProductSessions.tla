--------------------------- MODULE ProductSessions ---------------------------
(***************************************************************************)
(* How the application runs one session per product:                       *)
(* app/src/app/client/sessions (client_events.rs, controller.rs,           *)
(* lifecycle.rs, reconnect.rs, polling.rs), with the cards and dialogs the *)
(* user drives them from and the one login window the products share.      *)
(*                                                                         *)
(* The application is one thread: a handled event, an advance of the       *)
(* sign-in queue and a user's action are each one step.  poll_client       *)
(* advances the queue after the events it drained, so a user acts only     *)
(* when no advance is due.  An event still in a channel stands for one the *)
(* poll has not seen.                                                      *)
(*                                                                         *)
(* The workers are threads of their own.  They are modelled by what        *)
(* SessionWorker shows of one: commands are taken when idle or live, a     *)
(* bring-up runs to its end, emitting stages, the login page and the       *)
(* account, and signs in as nobody but the account its Connect expects.    *)
(***************************************************************************)
EXTENDS Naturals, Sequences, FiniteSets

CONSTANTS
  Products,      \* products with a session; "S2" is the authority
  Accounts,      \* Battle.net accounts
  NoAccount,     \* no account
  Catalogues,    \* product sets that the account service may list
  UserActions,   \* the kinds of action that the user takes
  Silent,        \* products whose worker may be left in a read without answer
  MaxActions,    \* bound on the user's actions
  MaxBacklog,    \* bound on the unhandled events a worker may run ahead of
  MaxTries       \* bound on the login pages and restarts of one bring-up

ASSUME ProductAssumption == "S2" \in Products /\ Products \subseteq {"S2", "S1", "W3"}
ASSUME AccountAssumption == Accounts \cap {NoAccount, "none", "waiting", "err"} = {}
ASSUME SilentAssumption == Silent \subseteq Products
ASSUME CatalogueAssumption == \A games \in Catalogues : games \subseteq Products
ASSUME BoundAssumption == MaxActions \in Nat /\ MaxTries \in Nat /\ MaxBacklog \in Nat

VARIABLES
  \* the workers
  phase,          \* what each worker is doing
  expected,       \* expected_account_id of its Connect
  identity,       \* the account it has signed in as
  tries,          \* the login pages and restarts of its bring-up
  reply,          \* the answer to the page it waits for
  commands,       \* its command channel
  events,         \* its event channel
  \* the application
  session,        \* each product's session
  authoritative,  \* authoritative_account_id
  provisioned,    \* products licensed to that account
  connectQueue,   \* connect_queue
  connecting,     \* the product whose sign-in is in flight
  page,           \* the product whose login page is open
  warning,        \* the disconnect warning
  focused,        \* the product on screen
  refreshing,     \* a refresh is counting its realms back in
  severing,       \* a sign-out is under way
  due,            \* events were handled and the queue not advanced since
  actions,        \* the user's actions so far
  \* what holds the others up
  typing,         \* the keyboard is in the product on screen
  stuck           \* products whose worker is in a read that never returns

workers == <<phase, expected, identity, tries, reply>>
view == <<session, authoritative, provisioned, connectQueue, connecting, page, warning>>
bar == <<focused, refreshing, severing, actions>>
system == <<workers, commands, events, view, bar, due>>
aside == <<typing, stuck>>
vars == <<system, aside>>

None == "none"
MaybeAccount == Accounts \cup {NoAccount}

\* SelectSeq(queue, LAMBDA p : p \in wanted), by the places that are kept: the
\* n-th member of the result is the one that n - 1 others are kept before.
Retained(queue, wanted) ==
  LET kept == {i \in DOMAIN queue : queue[i] \in wanted}
      place(n) == CHOOSE i \in kept : Cardinality({j \in kept : j < i}) = n - 1
  IN [n \in 1 .. Cardinality(kept) |-> queue[place(n)]]

ALL == Retained(<<"S2", "S1", "W3">>, Products)

Stages == {"Disconnected", "WebAuthentication", "GameUtilities", "Connected"}
Phases == {"idle", "signing", "asking", "up", "live"}

Connect(account) == [kind |-> "Connect", account |-> account]
Plain(kind) == [kind |-> kind, account |-> NoAccount]
Commands == {Connect(account) : account \in MaybeAccount}
              \cup {Plain("Disconnect"), Plain("SignOut"), Plain("InstallCredential")}

Event(kind) == [kind |-> kind]
Stage(stage) == [kind |-> "Stage", stage |-> stage]
Credential(p) == [kind |-> "ProductCredential", product |-> p]
\* games is {} and listed FALSE when the catalogue did not answer, and from
\* the classic products, which do not ask for it.
Account(account, listed, games) ==
  [kind |-> "Account", account |-> account, listed |-> listed, games |-> games]
Events ==
  {Stage(stage) : stage \in Stages}
    \cup {Event("Authentication"), Event("Error")}
    \cup {Credential(p) : p \in Products}
    \cup {Account(account, listed, games) :
            account \in Accounts, listed \in BOOLEAN, games \in Catalogues \cup {{}}}

Sessions ==
  [account : MaybeAccount, error : BOOLEAN, stage : Stages, gate : BOOLEAN, starting : BOOLEAN]

SystemTypeOK ==
  /\ phase \in [Products -> Phases]
  /\ expected \in [Products -> MaybeAccount]
  /\ identity \in [Products -> MaybeAccount]
  /\ tries \in [Products -> 0 .. MaxTries]
  /\ reply \in [Products -> Accounts \cup {None, "waiting", "err"}]
  /\ commands \in [Products -> Seq(Commands)]
  /\ events \in [Products -> Seq(Events)]
  /\ session \in [Products -> Sessions]
  /\ authoritative \in MaybeAccount
  /\ provisioned \subseteq Products
  /\ connectQueue \in Seq(Products)
  /\ connecting \in Products \cup {None}
  /\ page \in Products \cup {None}
  /\ warning \in {None, "open", "closing"}
  /\ focused \in Products
  /\ refreshing \in BOOLEAN
  /\ severing \in BOOLEAN
  /\ due \in BOOLEAN
  /\ actions \in 0 .. MaxActions

TypeOK == SystemTypeOK /\ typing \in BOOLEAN /\ stuck \subseteq Products

Blank == [account |-> NoAccount, error |-> FALSE, stage |-> "Disconnected",
          gate |-> FALSE, starting |-> FALSE]

\* ConnectionComponent::begin_attempt
BeginAttempt(s) == [s EXCEPT !.gate = FALSE, !.starting = TRUE, !.error = FALSE]

\* Every worker is running; begin_startup_connection has sent StarCraft II's Connect.
Init ==
  /\ phase = [p \in Products |-> "idle"]
  /\ expected = [p \in Products |-> NoAccount]
  /\ identity = [p \in Products |-> NoAccount]
  /\ tries = [p \in Products |-> 0]
  /\ reply = [p \in Products |-> None]
  /\ commands = [p \in Products |-> IF p = "S2" THEN <<Connect(NoAccount)>> ELSE <<>>]
  /\ events = [p \in Products |-> <<>>]
  /\ session = [p \in Products |-> IF p = "S2" THEN BeginAttempt(Blank) ELSE Blank]
  /\ authoritative = NoAccount
  /\ provisioned = {}
  /\ connectQueue = <<>>
  /\ connecting = None
  /\ page = None
  /\ warning = None
  /\ focused = "S2"
  /\ refreshing = FALSE
  /\ severing = FALSE
  /\ due = FALSE
  /\ actions = 0
  /\ typing = FALSE
  /\ stuck = {}

-----------------------------------------------------------------------------
(* The workers.                                                            *)

Send(p, command) == commands' = [commands EXCEPT ![p] = Append(@, command)]
Emit(p, sent) ==
  /\ Len(events[p]) <= MaxBacklog
  /\ events' = [events EXCEPT ![p] = @ \o sent]
Becomes(p, next) == phase' = [phase EXCEPT ![p] = next]
Attempt(p, wanted, who, n) ==
  /\ expected' = [expected EXCEPT ![p] = wanted]
  /\ identity' = [identity EXCEPT ![p] = who]
  /\ tries' = [tries EXCEPT ![p] = n]
\* The attempt is over, and its locals are gone.
Idles(p) == Becomes(p, "idle") /\ Attempt(p, NoAccount, NoAccount, 0)
Continues(p, next) == Becomes(p, next) /\ UNCHANGED <<expected, identity, tries>>
\* Mutant: a failed attempt reports its error and not that it is over.
FailureUnannounced == <<Event("Error")>>
Failure == <<Event("Error"), Stage("Disconnected")>>

WorkerConnect(p) ==
  /\ phase[p] = "idle"
  /\ commands[p] # <<>>
  /\ Head(commands[p]).kind = "Connect"
  /\ commands' = [commands EXCEPT ![p] = Tail(@)]
  /\ \/ /\ Becomes(p, "signing")
        /\ Attempt(p, Head(commands[p]).account, NoAccount, 0)
        /\ Emit(p, <<Stage("WebAuthentication")>>)
     \/ Idles(p) /\ Emit(p, Failure)
  /\ UNCHANGED <<reply, view, bar, due>>

\* SignOut and InstallCredential report what fails; Disconnect means nothing here.
WorkerIdleCommand(p) ==
  /\ phase[p] = "idle"
  /\ commands[p] # <<>>
  /\ commands' = [commands EXCEPT ![p] = Tail(@)]
  /\ LET kind == Head(commands[p]).kind
     IN \/ kind = "Disconnect" /\ Emit(p, <<>>)
        \/ kind = "SignOut" /\ \E failed \in {<<>>, <<Event("Error")>>} :
                                 Emit(p, failed \o <<Stage("Disconnected")>>)
        \/ kind = "InstallCredential" /\ \E failed \in {<<>>, <<Event("Error")>>} : Emit(p, failed)
  /\ UNCHANGED <<workers, view, bar, due>>

\* The browser callback.  A second page opens in a second try.
WorkerAsks(p) ==
  /\ phase[p] = "signing"
  /\ tries[p] < MaxTries
  /\ Becomes(p, "asking")
  /\ Attempt(p, expected[p], identity[p], tries[p] + 1)
  /\ reply' = [reply EXCEPT ![p] = "waiting"]
  /\ Emit(p, (IF tries[p] > 0 THEN <<Stage("WebAuthentication")>> ELSE <<>>)
               \o <<Event("Authentication")>>)
  /\ UNCHANGED <<commands, view, bar, due>>

\* The account is proved to be the expected one.  The authority publishes it
\* with the credentials it minted; a classic product does so when it is up.
SignsIn(p, account) ==
  /\ expected[p] \in {NoAccount, account}
  /\ Becomes(p, "up")
  /\ Attempt(p, expected[p], account, tries[p])
  /\ IF p = "S2"
       THEN \/ Emit(p, <<Account(account, FALSE, {}), Stage("GameUtilities")>>)
            \/ \E games \in Catalogues :
                 LET minted == Retained(ALL, games \ {"S2"})
                 IN Emit(p, [i \in DOMAIN minted |-> Credential(minted[i])]
                              \o <<Account(account, TRUE, games), Stage("GameUtilities")>>)
       ELSE Emit(p, <<Stage("GameUtilities")>>)

WorkerSignsIn(p) ==
  /\ phase[p] = "signing"
  /\ \E account \in Accounts : SignsIn(p, account)
  /\ UNCHANGED <<reply, commands, view, bar, due>>

\* A mismatch is not signed in with: the classic products try once more.
WorkerAnswered(p) ==
  /\ phase[p] = "asking"
  /\ reply[p] # "waiting"
  /\ reply' = [reply EXCEPT ![p] = None]
  /\ \/ reply[p] \in Accounts /\ SignsIn(p, reply[p])
     \/ p # "S2" /\ Continues(p, "signing") /\ Emit(p, <<>>)
     \/ Idles(p) /\ Emit(p, Failure)
  /\ UNCHANGED <<commands, view, bar, due>>

WorkerComesUp(p) ==
  /\ phase[p] = "up"
  /\ LET published == IF p = "S2" THEN <<>> ELSE <<Account(identity[p], FALSE, {})>>
     IN \/ Becomes(p, "live") /\ Attempt(p, NoAccount, NoAccount, 0)
             /\ Emit(p, published \o <<Stage("Connected")>>)
        \/ p = "S1" /\ Idles(p) /\ Emit(p, published \o Failure)
  /\ UNCHANGED <<reply, commands, view, bar, due>>

\* Warcraft III's session starts over without the cookie that was refused.
WorkerRestarts(p) ==
  /\ phase[p] = "up"
  /\ p = "W3"
  /\ tries[p] < MaxTries
  /\ Becomes(p, "signing")
  /\ Attempt(p, expected[p], NoAccount, tries[p] + 1)
  /\ Emit(p, <<Stage("WebAuthentication")>>)
  /\ UNCHANGED <<reply, commands, view, bar, due>>

WorkerBringUpFails(p) ==
  /\ phase[p] \in {"signing", "up"}
  /\ Idles(p)
  /\ Emit(p, Failure)
  /\ UNCHANGED <<reply, commands, view, bar, due>>

\* Remastered's live loop leaves without a word.
WorkerDisconnects(p) ==
  /\ phase[p] = "live"
  /\ commands[p] # <<>>
  /\ Head(commands[p]).kind = "Disconnect"
  /\ commands' = [commands EXCEPT ![p] = Tail(@)]
  /\ Idles(p)
  /\ \/ Emit(p, IF p = "S1" THEN <<>> ELSE <<Stage("Disconnected")>>)
     \/ p = "S2" /\ Emit(p, Failure)
  /\ UNCHANGED <<reply, view, bar, due>>

WorkerLiveCommand(p) ==
  /\ phase[p] = "live"
  /\ commands[p] # <<>>
  /\ commands' = [commands EXCEPT ![p] = Tail(@)]
  /\ LET kind == Head(commands[p]).kind
     IN \/ kind \in {"Connect", "InstallCredential"} /\ Continues(p, "live") /\ Emit(p, <<>>)
        \/ kind = "SignOut" /\ Idles(p)
             /\ \E sent \in {<<Stage("Disconnected")>>, Failure} : Emit(p, sent)
        \/ kind = "InstallCredential" /\ Idles(p) /\ Emit(p, Failure)
  /\ UNCHANGED <<reply, view, bar, due>>

WorkerLost(p) ==
  /\ phase[p] = "live"
  /\ Idles(p)
  /\ Emit(p, Failure)
  /\ UNCHANGED <<reply, commands, view, bar, due>>

\* What a worker does by itself, whatever the network answers.
WorkerSteps(p) ==
  \/ WorkerConnect(p)
  \/ WorkerIdleCommand(p)
  \/ WorkerAsks(p)
  \/ WorkerSignsIn(p)
  \/ WorkerAnswered(p)
  \/ WorkerComesUp(p)
  \/ WorkerRestarts(p)
  \/ WorkerBringUpFails(p)
  \/ WorkerDisconnects(p)
  \/ WorkerLiveCommand(p)

-----------------------------------------------------------------------------
(* handle_client_event, one event of one product.                          *)

\* WebAuthenticator::dismiss answers a page nobody has answered.
DismissedReplies == IF page = None THEN reply ELSE [reply EXCEPT ![page] = "err"]
Dismiss == page' = None /\ reply' = DismissedReplies

Received(p, kind) ==
  /\ events[p] # <<>>
  /\ Head(events[p]).kind = kind
  /\ events' = [events EXCEPT ![p] = Tail(@)]
  /\ due' = TRUE
  /\ UNCHANGED <<phase, expected, identity, tries, bar>>

HandleProductCredential(p) ==
  /\ Received(p, "ProductCredential")
  /\ IF p = "S2" /\ Head(events[p]).product \in Products \ {"S2"}
       THEN Send(Head(events[p]).product, Plain("InstallCredential"))
       ELSE UNCHANGED commands
  /\ UNCHANGED <<reply, view>>

HandleStage(p) ==
  /\ Received(p, "Stage")
  /\ LET stage == Head(events[p]).stage
         s == session[p]
     IN IF s.gate /\ stage # "Disconnected"
          THEN UNCHANGED <<reply, view>>
          ELSE /\ session' = [session EXCEPT ![p] =
                    [s EXCEPT !.stage = stage, !.starting = FALSE,
                              !.error = IF stage \in {"WebAuthentication", "Connected"}
                                          THEN FALSE ELSE @]]
               /\ IF stage = "GameUtilities" THEN Dismiss ELSE UNCHANGED <<page, reply>>
               /\ warning' =
                    CASE stage = "Connected" -> None
                      [] stage = "Disconnected" /\ ~s.gate /\ s.stage = "Connected"
                           /\ warning = None -> "open"
                      [] OTHER -> warning
               /\ UNCHANGED <<authoritative, provisioned, connectQueue, connecting>>
  /\ UNCHANGED commands

\* Mutant: a second page replaces the first and nobody answers the first.
HandleAuthenticationReplacing(p) ==
  /\ Received(p, "Authentication")
  /\ IF session[p].gate
       THEN /\ reply' = [reply EXCEPT ![p] = "err"]
            /\ UNCHANGED page
       ELSE /\ page' = p
            /\ UNCHANGED reply
  /\ UNCHANGED <<commands, session, authoritative, provisioned, connectQueue, connecting, warning>>

HandleAuthentication(p) ==
  /\ Received(p, "Authentication")
  /\ IF session[p].gate
       THEN /\ reply' = [reply EXCEPT ![p] = "err"]
            /\ UNCHANGED page
       ELSE /\ reply' = DismissedReplies
            /\ page' = p
  /\ UNCHANGED <<commands, session, authoritative, provisioned, connectQueue, connecting, warning>>

\* Mutant: every licensed product that is down is queued, waiting or not.
AdoptRequeueing(account, games) ==
  /\ authoritative' = account
  /\ provisioned' = games
  /\ connecting' = IF connecting \in games THEN connecting ELSE None
  /\ connectQueue' = Retained(connectQueue, games)
                       \o Retained(ALL, {p \in games \ {"S2"} :
                                           session[p].stage = "Disconnected" /\ ~session[p].error})

\* adopt_authoritative_account
Adopt(account, games) ==
  /\ authoritative' = account
  /\ provisioned' = games
  /\ connecting' = IF connecting \in games THEN connecting ELSE None
  /\ LET kept == Retained(connectQueue, games)
         joining == {p \in games \ {"S2", connecting} :
                       /\ \A i \in DOMAIN kept : kept[i] # p
                       /\ session[p].stage = "Disconnected"
                       /\ ~session[p].error}
     IN connectQueue' = kept \o Retained(ALL, joining)

HandleAccount(p) ==
  /\ Received(p, "Account")
  /\ LET e == Head(events[p])
     IN IF session[p].gate
          THEN UNCHANGED <<session, authoritative, provisioned, connectQueue, connecting>>
          ELSE /\ IF p = "S2" /\ e.listed
                    THEN Adopt(e.account, e.games)
                    ELSE UNCHANGED <<authoritative, provisioned, connectQueue, connecting>>
               /\ session' = [session EXCEPT ![p].account = e.account]
  /\ UNCHANGED <<reply, commands, page, warning>>

HandleError(p) ==
  /\ Received(p, "Error")
  /\ IF session[p].gate
       THEN UNCHANGED <<session, warning>>
       ELSE IF session[p].stage = "Connected" \/ warning # None
              THEN warning' = "open" /\ UNCHANGED session
              ELSE /\ session' = [session EXCEPT ![p].error = TRUE, ![p].starting = FALSE]
                   /\ UNCHANGED warning
  /\ UNCHANGED <<reply, commands, authoritative, provisioned, connectQueue, connecting, page>>

Handle(p) ==
  \/ HandleProductCredential(p)
  \/ HandleStage(p)
  \/ HandleAuthentication(p)
  \/ HandleAccount(p)
  \/ HandleError(p)

\* advance_connect_queue, at the end of every poll.
Settled == connecting = None \/ session[connecting].account # NoAccount \/ session[connecting].error

AdvanceConnectQueue ==
  /\ due' = FALSE
  /\ IF ~Settled
       THEN UNCHANGED <<connectQueue, connecting, session, commands>>
       ELSE IF connectQueue = <<>> \/ authoritative = NoAccount
              THEN connecting' = None /\ UNCHANGED <<connectQueue, session, commands>>
              ELSE LET next == Head(connectQueue)
                   IN /\ connectQueue' = Tail(connectQueue)
                      /\ connecting' = next
                      /\ session' = [session EXCEPT ![next] = BeginAttempt(@)]
                      /\ Send(next, Connect(authoritative))
  /\ UNCHANGED <<workers, events, authoritative, provisioned, page, warning, bar>>

\* settle_titlebar: a refresh lands when no realm is in flight, and a sign-out
\* when a new identity is in or the reconnect behind it has stopped.
InFlight == connecting # None \/ connectQueue # <<>>

SettleTitlebar ==
  /\ ~due
  /\ refreshing' = (refreshing /\ InFlight)
  /\ severing' = (severing /\ authoritative = NoAccount
                    /\ (session[focused].starting \/ InFlight))
  /\ UNCHANGED <<workers, commands, events, view, focused, due, actions>>

\* A warning that reconnect has closed is hidden when its animation ends.
HideWarning ==
  /\ ~due
  /\ warning = "closing"
  /\ warning' = None
  /\ UNCHANGED <<workers, commands, events, session, authoritative, provisioned, connectQueue,
                 connecting, page, bar, due>>

-----------------------------------------------------------------------------
(* The user.                                                               *)

Acts(kind) ==
  /\ ~due
  /\ kind \in UserActions
  /\ actions < MaxActions
  /\ actions' = actions + 1
  /\ UNCHANGED due

\* The one open page is completed as some account, or closed.
AnswerPage ==
  /\ ~due
  /\ page # None
  /\ \E answer \in Accounts \cup {"err"} : reply' = [reply EXCEPT ![page] = answer]
  /\ page' = None
  /\ UNCHANGED <<phase, expected, identity, tries, commands, events, session, authoritative, provisioned,
                 connectQueue, connecting, warning, bar, due>>

\* SuperiorityView::reconnect, with p focused.
Reconnect(p, sessions) ==
  /\ session' = [sessions EXCEPT ![p] = BeginAttempt(@)]
  /\ warning' = IF warning = None THEN None ELSE "closing"

\* take_game_card: a card shows its product, and retries one that failed.
TakeGameCard(p) ==
  /\ Acts("card")
  /\ p \in provisioned
  /\ focused' = p
  /\ IF session[p].error
       THEN Reconnect(p, session) /\ Send(p, Connect(authoritative))
       ELSE UNCHANGED <<session, warning, commands>>
  /\ UNCHANGED <<workers, events, authoritative, provisioned, connectQueue, connecting, page,
                 refreshing, severing>>

\* RECONNECT on the warning, which is about whichever product was lost.
WarningReconnect ==
  /\ Acts("warning")
  /\ warning = "open"
  /\ Reconnect(focused, session)
  /\ Send(focused, Connect(authoritative))
  /\ UNCHANGED <<workers, events, authoritative, provisioned, connectQueue, connecting, page,
                 focused, refreshing, severing>>

\* The button of the connection dialog, where that dialog is enabled.
CancelConnection ==
  /\ Acts("cancel")
  /\ session[focused].stage # "Connected"
  /\ IF session[focused].error \/ session[focused].stage = "Disconnected"
       THEN /\ Reconnect(focused, session)
            /\ Send(focused, Connect(authoritative))
            /\ UNCHANGED <<page, reply>>
       ELSE /\ Dismiss
            /\ Send(focused, Plain("Disconnect"))
            /\ session' = [session EXCEPT ![focused].starting = FALSE,
                                          ![focused].error = FALSE,
                                          ![focused].stage = "Disconnected"]
            /\ UNCHANGED warning
  /\ UNCHANGED <<phase, expected, identity, tries, events, authoritative, provisioned, connectQueue,
                 connecting, focused, refreshing, severing>>

\* StarCraft II signs in again, as the account given; the others follow.
RefreshAs(account) ==
  /\ Acts("refresh")
  /\ ~refreshing
  /\ ~severing
  /\ Dismiss
  /\ LET products == {"S2"} \cup provisioned
     IN /\ commands' = [p \in Products |->
             IF p \notin products THEN commands[p]
             ELSE commands[p] \o <<Plain("Disconnect")>>
                    \o (IF p = "S2" THEN <<Connect(account)>> ELSE <<>>)]
        /\ session' = [p \in Products |->
             IF p \notin products THEN session[p]
             ELSE [session[p] EXCEPT !.account = NoAccount, !.error = FALSE,
                                     !.stage = "Disconnected", !.starting = (p = "S2")]]
        /\ connecting' = "S2"
        /\ connectQueue' = Retained(ALL, products \ {"S2"})
  /\ refreshing' = TRUE
  /\ UNCHANGED <<phase, expected, identity, tries, events, authoritative, provisioned, warning, focused,
                 severing>>

\* Mutant: the refresh starts over, with whoever the login page then names.
RefreshAsAnybody == RefreshAs(NoAccount)

RefreshGames == RefreshAs(authoritative)

SignOut ==
  /\ Acts("signout")
  /\ authoritative # NoAccount
  /\ ~severing
  /\ Dismiss
  /\ commands' = [p \in Products |->
       commands[p] \o <<Plain("SignOut")>> \o (IF p = "S2" THEN <<Connect(NoAccount)>> ELSE <<>>)]
  /\ Reconnect("S2", [p \in Products |->
       [session[p] EXCEPT !.account = NoAccount, !.gate = TRUE, !.starting = FALSE,
                          !.error = FALSE, !.stage = "Disconnected"]])
  /\ authoritative' = NoAccount
  /\ provisioned' = {}
  /\ connectQueue' = <<>>
  /\ connecting' = None
  /\ focused' = "S2"
  /\ severing' = TRUE
  /\ UNCHANGED <<phase, expected, identity, tries, events, refreshing>>

User ==
  \/ \E p \in Products : TakeGameCard(p)
  \/ WarningReconnect
  \/ CancelConnection
  \/ RefreshGames
  \/ SignOut

\* The user puts the keyboard into the product on screen, or lets go of it.
Types ==
  /\ ~due
  /\ "type" \in UserActions
  /\ typing' = ~typing
  /\ UNCHANGED <<system, stuck>>

-----------------------------------------------------------------------------
\* A read over TLS gets no answer and nobody cuts it (SessionWorker's Hang).
Hangs(p) ==
  /\ p \in Silent \ stuck
  /\ phase[p] \in {"signing", "up"} \/ (phase[p] = "live" /\ p # "S2")
  /\ stuck' = stuck \cup {p}
  /\ UNCHANGED <<system, typing>>

Works(p) == p \notin stuck /\ WorkerSteps(p) /\ UNCHANGED aside
Loses(p) == p \notin stuck /\ WorkerLost(p) /\ UNCHANGED aside

\* Mutant: the product on screen is drained first and the others not at all.
DrainsForeground(p) == p = focused /\ Handle(p) /\ UNCHANGED aside

\* poll_client drains the product on screen, and the others only while nobody
\* types in it.
Drains(p) == (p = focused \/ ~typing) /\ Handle(p) /\ UNCHANGED aside

Advances == AdvanceConnectQueue /\ UNCHANGED aside
Hides == HideWarning /\ UNCHANGED aside

Next ==
  \/ \E p \in Products : Works(p) \/ Loses(p) \/ Drains(p) \/ Hangs(p)
  \/ Advances
  \/ Hides
  \/ (SettleTitlebar \/ AnswerPage \/ User) /\ UNCHANGED aside
  \/ Types

Spec == Init /\ [][Next]_vars

\* A user who does not sign out, and who neither reconnects, cancels nor
\* refreshes before an account has been adopted: no Connect without an account
\* is sent but the first.
Careful ==
  /\ ~SignOut
  /\ authoritative = NoAccount => ~(WarningReconnect \/ CancelConnection \/ RefreshGames)
CarefulSpec == Init /\ [][Next /\ Careful]_vars

(***************************************************************************)
(* Fairness.  A worker that is not in a read without answer runs; the      *)
(* application polls: it handles what the product on screen sends, what    *)
(* the others send while nobody types, and advances the queue.  Nothing is *)
(* assumed of the user, who may type for ever and leave a login page open, *)
(* of the service, which may fall silent, or of a live session being lost. *)
(***************************************************************************)
Fairness ==
  /\ \A p \in Products : WF_vars(Works(p)) /\ WF_vars(Drains(p))
  /\ WF_vars(Advances)
  /\ WF_vars(Hides)
FairSpec == Spec /\ Fairness

-----------------------------------------------------------------------------
\* A worker blocked in the browser callback is waiting for somebody: its page
\* is open, or the request for it is still to be handled.  No product's page,
\* stage or sign-out leaves another worker blocked for ever.
NobodyWaitsUnseen ==
  \A p \in Products : reply[p] = "waiting" =>
    \/ page = p
    \/ \E i \in DOMAIN events[p] : events[p][i].kind = "Authentication"

\* The sign-in queue holds each licensed secondary product at most once, never
\* the one whose sign-in is in flight, and only under an authoritative account:
\* retries, refreshes and sign-outs never queue a product twice.
QueueSound ==
  /\ \A i, j \in DOMAIN connectQueue : i # j => connectQueue[i] # connectQueue[j]
  /\ \A i \in DOMAIN connectQueue : connectQueue[i] \in provisioned \ {"S2", connecting}
  /\ connectQueue # <<>> => authoritative # NoAccount

\* Once everything it sent is handled, a product whose worker is idle is shown
\* as disconnected.  (Remastered's worker ends a session without a word, so
\* this is not said of it.)
QuietMeansDisconnected ==
  \A p \in Products \ {"S1"} :
    phase[p] = "idle" /\ events[p] = <<>> => session[p].stage = "Disconnected"

\* controller.rs:549: "every worker must resolve that credential to the same
\* numeric account": no two products show different Battle.net accounts.  It
\* holds of CarefulSpec, whatever is retried, cancelled or refreshed under the
\* account once it is adopted and however late the events of an earlier attempt
\* are handled; not of Spec, where a sign-out lets such an event through
\* (ProductSessionsSignOut), or a second Connect without an account is sent.
SameAccount ==
  \A p, q \in Products :
    session[p].account # NoAccount /\ session[q].account # NoAccount
      => session[p].account = session[q].account

\* The queue empties again and again: each sign-in settles, however it ends, and
\* lets the next one start.  What may hold it up is named: a session has been
\* lost (QueueMoves), the sign-in in flight is in a read without answer, its
\* events wait behind a user who is typing in another product again and again
\* (polling.rs:48), or a login page is left open.
QueueMovesUntilHeld ==
  \/ <>(warning # None)
  \/ <>[](connecting \in stuck)
  \/ []<>(typing /\ connecting \notin {None, focused})
  \/ <>[](page # None)
  \/ []<>(connectQueue = <<>>)

-----------------------------------------------------------------------------
\* controller.rs:611, of advance_connect_queue: "a product that failed has
\* still let go of the browser, and holding the queue behind it would leave
\* every other product waiting on a game that is never going to connect."  Does
\* not hold: an error while the disconnect warning is open settles nothing.
QueueMoves == []<>(connectQueue = <<>>)
=============================================================================
