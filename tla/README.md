# Superiority: a TLA+ verification project

Superiority is a desktop chat client for Battle.net (StarCraft II, StarCraft:
Remastered and Warcraft III: Reforged) with an embeddable C library (stimpak), a
self-updater, a gateway for classic clients and a live presence service.  This
directory models its core with TLA+, checks the models with TLC and proves the
main results with TLAPS.

- [The system](#the-system)
- [The modules and the code](#the-modules-and-the-code)
- [The runs](#the-runs)
- [Where code and documentation disagree](#where-code-and-documentation-disagree)
- [The proofs](#the-proofs)
- [What is not modelled](#what-is-not-modelled)
- [Plan](#plan)

## The system

### Components, their state and their operations

| Component | Source | State it keeps | Operations |
| --- | --- | --- | --- |
| Session worker | `core/src/session/worker.rs` | one thread per product: the phase of a connection, the command queue, the observer tap | `Connect`, `Disconnect`, `SignOut`, `InstallCredential`, `Quit`, chat commands; the live loops |
| Credential cache | `core/src/platform/auth/file.rs`, `credentials.rs` | one file per product, the un-keyed legacy file, the temporary of a store in progress | `load`, `store`, `delete`, `authenticate_cached` |
| Sign-in watchdog | `core/src/session/worker.rs` (`LogonWatchdog`) | three atomics shared by two threads, the clock of the watchdog | `arm`, beat, `disarm`, cut |
| Product sessions | `app/src/app/client/sessions` | the products' sessions, the authoritative account, the sign-in queue | connect, retry, refresh, sign out, adopt an account |
| Web login window | `app/src/app/web_auth.rs` | one window and its one-shot reply | `present`, `complete_callback`, `dismiss` |
| BGS client | `core/src/platform/bgs` | tokens in flight, the logon in progress | `establish`, `authenticate`, `process_client_request` |
| StarCraft II chat | `core/src/games/sc2/chat`, `app/src/app/client/products/sc2` | tabs, joins waited for, a dialog; channel slots, joins asked for, expected echoes, rosters; parties, friends, presence | joins, leaves, lines, removals, reconnects |
| StarCraft: Remastered | `core/src/games/scr` | Aurora logon, classic channel, rosters, friends | `connect`, `join`, `poll`, whispers |
| Warcraft III | `core/src/games/wc3` | JSON account session, offline cookie, classic edge | `connect`, `join`, `leave`, `poll` |
| Uplink | `app/src/uplink` | a tap per connection (numbering, projector, initial sync), one bounded channel, a sink with a buffer per session, the feed's token | `begin_session`, `observe`, `heartbeat`, `reconcile`, `end_session`; receive, flush, register, shut down |
| Live service | `live/worker` | feeds, sessions, channels, members and messages in SQL; a cache of tokens | register, ingest, the nightly prune, the read routes |
| Updater | `updater/src/engine.rs`, `app/src/app/update.rs` | a worker thread with its state and its downloads; the dialog and its deadlines | check, download, verify, extract, launch the agent; show, hide, dismiss |
| Update installation | `updater/src/install.rs`, `updater/src/platform`, the agent and the launcher | the bundle and its backup, or the versions and `current.json`; the result file | wait, swap or move, activate, clean up, report, relaunch, roll back |
| Gateway | `gateway/` | connected classic clients | BNCS login, chat relay |
| stimpak | `stimpak/` | the client handle, the pending sign-in | C entry points |

### How they interact

- The application spawns one worker thread per product and talks to it over two
  channels: `ClientCommand` one way, `ClientEvent` the other.  A worker takes
  commands only while it is idle or live; a bring-up runs to its end first.
- A bring-up that needs a web sign-in sends `Authentication` with a one-shot
  reply channel and blocks on it.  The application owns one login window, so the
  products share it: opening a page for one dismisses another's.
- StarCraft II's session is the authority.  Its `Account` event carries the
  licence catalogue; the application adopts it, queues the other products and
  connects them one at a time, each told which account it must turn out to be.
  The authority mints their credentials, which reach them as
  `InstallCredential`.
- Every product keeps one rotating credential in a file.  A sign-in consumes it
  and stores a successor; a sign-out deletes it.
- StarCraft II's sign-in reads below TLS, where no timeout reaches; a second
  thread watches it and shuts the socket down.
- A live session feeds an observer tap, which numbers what it shares and puts it
  into a bounded channel; the uplink thread sorts it by session and posts it to
  the live service in batches.
- The live service runs every POST as a request of its own, which reads the
  session's `last_seq` and then writes in one batch; a request that the uplink
  has given up may still be running when its retry arrives.
- StarCraft II's channels have three views: the tabs of the application, the
  slots of `LiveChat` in the worker and the rooms of the service.  They are kept
  together by two queues and by replies that do not always name their request.
- The update dialog and the updater's thread share two queues and a flag.  To
  install, the updater launches an agent, which on a protected installation
  launches a privileged worker; they wait for the application to quit, replace
  it and start it again, and share a result file.

### What is hard, and what makes each part correct

| Part | Hard behaviour | Correct when |
| --- | --- | --- |
| Credential cache | a crash or a power loss between two file-system calls; a call that fails half-way | what `load` sees is a whole credential or none; a store happened or it did not |
| Session worker | retries that start from what the first try left; identity known only after the browser answered; three loops that each handle every command | it connects as nobody but the account it was told; it keeps no credential it has not proved; a sign-out empties the product's own file; attempts and the thread end, but for a read that nobody watches |
| Sign-in watchdog | two threads, three atomics, a decision taken on values that may have changed | a severed sign-in is explained; a silent service cannot hold a sign-in for ever |
| Product sessions | workers, event channels and a user interleaved; one window and one warning shared by all; late events of an earlier attempt | nobody waits at a page that is not there; the queue is sound and moves; every product shows the same account |
| Uplink | a full channel, a full buffer, posts that fail or whose answer is lost, the master switch flipped at any moment | nothing is lost without being counted; retries keep the order; the sink of a session that is over goes; sharing that comes back is heard |
| Live service | requests that interleave at their awaits, repeated and late posts; pruning while they arrive | the tables say what the events say; what was acknowledged is stored; pruning takes nothing that is shown |
| Updater | a dialog and a thread with two copies of one state, slow networks, clicks at any moment | what is offered is real, what is installed was verified, and the connection to Battle.net does not wait for it |
| Update installation | three processes, killed between any two file-system calls; a race with the application that quits | a whole build is there to start, outside the named cases; the result file is true; the application comes back |
| StarCraft II chat | joins answered out of order, refused, or late; indices given out again; a lost connection | the three views agree once all is quiet; a line is heard where it was typed and shown once; a reconnect brings the channels back |
| Gateway, stimpak | clients that leave in mid-login; a handle closed during a sign-in | no operation on a session that is gone |

`PROJECT.json` lists the most important hazards, each at its line, with the
properties that would notice it going wrong.  Smaller ones that no property is
about: a failed rotation in `authenticate_cached` keeps a credential that has
been used (`credentials.rs:42`); StarCraft II stores its successor before the
account is compared (`credentials.rs:51`); SQLite gives out a pruned row's
number again, and sessions are ordered by the client's clock; a failure after
the agent has said READY is only logged.

## The modules and the code

| Module | Models | Checked by |
| --- | --- | --- |
| `CredentialStore` | the promise of the trait: an atomic cell with operations that may fail | `ImplementsCell` |
| `FileCredentialStore` | `file.rs` step by step over a file system with write-back, crashes and power loss | `FileCredentialStore.cfg` |
| `SessionWorker` | the worker thread of one product, with the classic bring-ups and `authenticate_cached` | `SessionWorker.cfg` |
| `LogonWatchdog` | the watchdog and the lines of `connect_once` it races with | `LogonWatchdog.cfg` |
| `ProductSessions` | the application's sessions, the sign-in queue and the window, composed with one abstract worker per product | `ProductSessions.cfg`, `ProductSessionsQueue.cfg`, `ProductSessionsCareful.cfg` |
| `Uplink` | the taps of the connections, the bounded channel and the uplink thread | `Uplink.cfg`, `UplinkShared.cfg` |
| `LiveService` | the service's requests, tables and pruning, composed with an uplink that retries | `LiveService.cfg`, `LiveServiceNights.cfg` |
| `UpdateDialog` | the update dialog and the updater's thread | `UpdateDialog.cfg` |
| `InstalledVersion` | what an installation promises: a build that newer ones replace in one step, or in two where directories cannot be swapped | `ImplementsVersion` |
| `UpdateInstall` | the agent, the privileged worker, the launcher and the application that quits for them, or because its user does, on both platforms | `UpdateInstall.cfg` |
| `Sc2Channels` | StarCraft II's channels: tabs, `LiveChat` and the service | `Sc2Channels.cfg`, `Sc2ChannelsPublic.cfg` |
| `*Proofs` | theorems about the module they are named after; those about `LogonWatchdog` close `SessionWorkerProofs`, and `Sc2ViewsProofs` goes on from `Sc2ChannelsProofs` | TLAPS |
| `MC*` | the small sets the configurations use | |

### FileCredentialStore

`keyed` is the file `load` reads as a running process sees it, `onDisk` what
survives a power loss, `legacy` the un-keyed file of older releases, `tmp` the
temporary of the store under way and `orphans` those a crash left.  A store is
`StoreCreate`, `StoreWrite` (write and `sync_all`), `StoreRename` and
`StoreSecure`, with the `?` of each call as a second outcome; between any two
the process may crash (`Crash`), the power may fail (`PowerLoss`) and the
kernel may write a file back (`Writeback`).  File contents are a credential or
`Torn`: what the bytes are does not matter, whether they are all there does.
The refinement mapping takes the abstract cell to `keyed`; a store takes effect
at the rename.

### SessionWorker

`pc` is the call the thread is in, `att` the locals of the attempt
(`fresh_account`, `pending_credential`, `identity_mismatch`, ...), `cell` and
`cookie` what is cached, `reply` the one-shot channel of the browser callback,
`out` the events of the last step.  `cell` is the product's own file;
StarCraft II's `Loads` falls back to the un-keyed file (`legacy`), which nothing
deletes.  Each action is one call together with everything up to the next call.
A call over TLS that the watchdog does not cover may never return (`Hang`, from
wherever `Unwatched` holds), and the thread is then `blocked` for good.  A credential is abstracted to the account it
signs in as; the services' answers, the person at the login page and failing
file operations are nondeterministic.  `IdleNext` is `run_worker`, `Sc2Next`
`connect_once`, `ScrNext` `run_remastered`, `Wc3Next` `run_warcraft` and
`WarcraftSession::connect`, `LiveNext` the three live loops, which differ in
small ways that the actions keep: Remastered's leaves on `Disconnect` without a
`Stage`, drops `Quit`, and so on.  `forgotten` is a history variable.  That the
service accepts nobody who presents no credential (`LogonAccepted`) is an
assumption on the service: the code does not look again.

### LogonWatchdog

Every load and store of an atomic is a step: `LoopTest`, `Sleep`, `Look`
(reads `at_login_page`, counts the beat), `Recheck` (reads `waiting`), `Fire`
and `Cut` of the watchdog; `AskFails`, `HoldClock`, `ReleaseClock`,
`Disarm` and `Report` of the sign-in.  Time is the beats of the watchdog, `Patience` the number that
makes the deadline.

### ProductSessions

The application is one thread, so an event handled, an advance of the queue and
a press are each one step.  `due` says that events were handled and the queue
not advanced since, as `poll_client` does at its end.  A session keeps the
account it shows, its error, its stage, the sign-out gate
(`sign_out_requested`) and `starting`.  The workers are the abstraction of
`SessionWorker` that matters to the application: `idle`, `signing`, `asking`
(blocked at a page), `up` (signed in) and `live`; they sign in as nobody but
the expected account, which `WorkerConnectsAsExpected` proves of the detailed
one.  `typing` says that the keyboard is in the product on screen, when the
others are not drained, and `stuck` which workers are in a read without answer
(`Hangs`, the worker's `Hang`).  The stages between `GameUtilities` and
`Connected` are dropped: the handler treats them alike.  `Retained` is `retain` on the queue, written by the
places that stay so that the proofs can reason about it; an assumption of
`MCProductSessions` compares it with `SelectSeq` on every short queue.

### Uplink

A connection's thread, through its tap, and the uplink thread share the channel,
the master switch (`enabled`), the feed's token and the statistics.  A handler of
the tap (`ObserveJoined`, `ObserveRoster`, `Maintain`, ...) updates the projector
and the state of the initial sync at once, which no other thread sees, and leaves
in `outbox` the calls it makes: `Announce`, `EmitMarker`, `EmitEvent` and
`Heartbeat` make them one by one, since the uplink thread may empty the channel
between two.  `tap` holds `announced`, `ended`, `next_seq` and `pending_dropped`.

The uplink thread is `recv`, then `maybe_register`, then `flush_all`, which visits
the sinks in `todo` one after the other, in any order; `post` is a request in
flight, with its batch in `hand`.  `PostAccepted`, `PostDeferred` and
`PostRejected` are the answers that `flush` tells apart.  `Restore`, `Push`,
`ReadyCount` and `Retain` are the batcher's operations and the pruning of the map.

Time is abstracted: `waiting` says that `next_attempt` is in the future, and a
buffer may be due by age whenever it is looked at.  What an event says is
abstracted to its kind, and its channel to whether the projector knows it.
`counted` is, of each session, the events that `UplinkStats` counts as sent or as
dropped; `nowhere` counts those that found no sink, which the code does not.
`Held` and `InChannel` are the numbered events of a session that are under way:
in the request and in its buffer, and in the channel.

### LiveService

A request is `Authenticate`, `ReadLastSeq` and `Commit`, the three awaits of
`ingest.ts` and `store.ts`; between them other requests, `CacheExpire` and the
two halves of the nightly prune (`Prune`, `PruneRest`) may run.  `Fail` is a
request that ends with an error, `GiveUp` the uplink's timeout, after which the
request runs on and may commit late.  `db` holds the tables as functions of the
session; `StatementsFor` is the statement list of one event and `StoreEnvelope`
the batch, with `SessionUpkeep` and `FeedUpkeep` in their order.

What a session publishes is a script, chosen at the start.  A property compares
the tables with what the script up to `last_seq` says (`LogOpen`, `LogMember`).
`doubt` is a history variable: the last event of which the rows may tell another
story because a given-up request committed after a later one, or because a row
was pruned under a session that goes on.  The properties say from which event on
the tables are right again.

### UpdateDialog

`ui` is `UpdateModel` with the flags of the application that wait for it,
`engine` the updater's thread with the command it is in (`job`).  `Poll` is one
frame: it asks at start-up, applies one event, and looks at both deadlines, in
that order.  Each command is `Take*` and each slow call ends in an action of its
own, with its failures.  `cancelled` is read where the code reads it.
`archive` says what is stored for a release: nothing, a good archive, or a bad or
partial one.

### UpdateInstall and InstalledVersion

`at` says in which step the agent and the privileged worker are; each action is
one file-system call that matters, or a wait.  `Fails` is a call that returns an
error, `Killed` a process that ends where it is, `RenameFails` the failure that
takes the backup back, or cannot.  The worker is launched (`LaunchWorker`) before
READY is printed (`SayReady`), and goes on if the agent ends between the two.  A
directory is absent, partial or whole, so a copy that was interrupted is told
from one that was not.  `Launched` is the choice of the launcher.  The user may
quit the application and start it at any time (`UserQuits`, `StartApp`); `quit`
says that the instance which launched the agent has gone, which is what the
agent waits for, and where two instances run the model follows one.

Three history variables name what the code does not prevent: `overwritten`, an
update installed over a build that `current.json` names, which an application
started in the middle of an installation can ask for; `interrupted`, a process
that ended between the two renames of `replace_bundle` and left a backup that
nothing puts back; and `raced`, an application that had quit before its process
could be opened.

The refinement mapping takes the installed version to what starts (`Launched`),
and what is kept to that or else to the backup.  `InstalledVersion` allows one
step from a build to a newer one and, where a swap is not atomic, two with
nothing to start in between.  The backup counts as kept, never as installed.

### Sc2Channels

The functions keep their names: `join_channel_target`, `begin_tab_close`,
`send_message` and `reconnect` are what the user does, `handle_client_event` takes
one event, `run_live` one command; `ReceiveJoin`, `ReceiveRejection`,
`ReceiveMembership` and `ReceiveMessage` are what `LiveChat` does with what the
service sends.  `Begin`, `Establish` and `EstablishFails` are the reconnect.
`finish_tab_drag` carries a tab to another place in the strip.  The other products
are left out but for what they do to the one dialog they share with StarCraft II:
it may go without a word to its session (`WarningGoesElsewhere`), since
`begin_warning_close` acts on the tabs only with StarCraft II in front.
`reconnect` takes it that no close animation is under way: RECONNECT reaches
StarCraft II only with it in front, where an animation runs on and lasts 150
milliseconds.

The three views can part for good in a few ways, all of which the code has.
The model names each where it happens (`slips`, a history variable) and the
properties say that there are no others:

| Slip | What happens |
| --- | --- |
| replaced | a dialog that was to close a tab, or to offer RECONNECT, is replaced by another, or goes while another product is in front |
| shifted | a close animation or a dialog holds a position in the strip, and a tab before it goes or is carried past it; or a tab goes, or is joined again, while a join with its index is still to be handled |
| unclaimed | a join is accepted after its request was given up, and the reply names neither channel nor token |
| shared | the service gives out an index that a tab, or something under way, uses for the room before |
| forgotten | RECONNECT is pressed when the channels of the connection before are not all back, or with more of them than `MAX_JOINED_CHANNELS` |
| unnamed | a refusal comes after its request was given up, or is taken for that of another |
| unready | a line is sent before the first roster of its channel, which ends the connection |
| ambiguous | a reply without a token fits two requests, which ends the connection |
| late echo | an echo comes after the ten seconds it is expected for, or after 32 later lines, and the line is shown again |
| delisted | the first channel of a connection is a public one that the catalogue has no more, and General is joined in its place without a word |

## The runs

| Run | Instance | States | Shows |
| --- | --- | --- | --- |
| `file_store` | 2 credentials, no legacy file | 4 thousand | no torn credential; refinement of the cell |
| `session_worker` | 3 products, 2 accounts, 2 commands | 440 thousand | who a worker connects as, what it keeps, what a sign-out leaves, that attempts and the thread end unless an unwatched read never returns |
| `logon_watchdog` | patience of 3 beats | 300 | explained severing, sign-ins end |
| `product_sessions` | 2 products, 1 account, 2 presses of any kind | 3.3 million | nobody waits unseen, a sound queue, quiet products shown as they are |
| `product_sessions_queue` | 3 products, 1 account, 2 catalogues, a user who types, reads without answer | 310 thousand | the queue empties again and again, whatever a sign-in came to, unless one of the named things holds it up |
| `product_sessions_careful` | 2 products, 2 accounts, 2 catalogues, 2 presses of `CarefulSpec` | 2.6 million | all products show one account |
| `uplink` | 1 connection, 1 channel, 2 observations, 2 flips of the switch, room for 2 | 720 thousand | numbers in order, buffers within bounds, no loss uncounted, sinks that go |
| `live_service` | 1 session, 30 scripts of five or six events, batches that end anywhere, 2 requests, 1 fault | 200 thousand | channels and members are what the events say; everything is accepted |
| `live_service_nights` | 2 sessions, 4 scripts, one with a transcript of 4 lines in batches cut anywhere but among the first three, 1 fault, 1 time of silence, any number of nights | 1.4 million | a transcript without gaps, repeats or lines out of place, nothing acknowledged is lost, pruning takes nothing that is shown |
| `update_dialog` | 2 releases, 3 clicks | 210 thousand | real offers, verified installs, an idle worker behind a closed dialog, a start-up that connects |
| `update_install` | 2 platforms, 3 builds, 3 attempts, 2 faults, a user who quits and starts the application at any time | 64 thousand | a build that is lost in two named ways only, true results, refinement of `InstalledVersion`, an application that comes back |
| `sc2_channels` | 3 channels, 2 indices, 2 presses, 1 line, 1 move of others, 1 reconnect | 3.3 million | three views that agree, lines heard and shown where they were typed, channels that come back |

The type invariants of `ProductSessions`, `LiveService`, `UpdateDialog` and
`Sc2Channels` are not among the properties of a run: they hold in the same
instances and say little.  That of `UpdateInstall` is proved.

Two more configurations are instances of the same questions and not among the
runs; TLC finds no error in either.  `UplinkShared.cfg` has two connections that
share a channel of one place, with one observation and one flip (560 thousand
states), and checks `NoLossUncounted`.  `Sc2ChannelsPublic.cfg` has two public
channels, one of which the catalogue may have lost when a connection comes up, and
neither lines nor other users (110 thousand states), and checks `TabsAgree` and
`RejoinsAll` where General takes the place of a channel that is gone.  All three
properties are proved for every such instance.

### Bounds

- **Two accounts** are the expected one and another; nothing compares more than
  two at a time.  Runs that are not about identity take one.
- **`MaxCommands` = 2.**  One command brings a session up and a second meets it
  in the middle of the bring-up, idle or live; a third would meet the same
  states of `pc`, `att` and `cell`, all of which the second can reach.  The
  proofs have no bound.
- **`Patience` = 3** tells the first beat, one in the middle and the last apart.
- **`MaxActions` = 2.**  Each press of the user acts on what the one before left
  while the workers are anywhere.  Starting and stopping to type is not counted.
- **`Silent`** is every product in the queue run, where it matters whether a read
  returns, and none where it only leaves states out.
- **`MaxTries`** bounds the pages and restarts of one bring-up: one page, in the
  queue run a second, and in the careful run none, where the attempts differ by the
  presses.  `AttemptEnds` shows that they
  do not go on for ever.
- **`MaxBacklog` = 0** lets a worker run ahead of the application by one batch of
  events: it sends the next when its channel has been drained.  The application
  polls every frame, so this is the case that happens, but for a product in the
  background while somebody types, whose worker may run on in the code and waits in
  the model: what it has sent is handled in the same order later.  The commands of
  the application are not bounded, and the proofs hold for any
  backlog.
- **Two products** are the authority and a secondary one.  What needs two
  secondary products, one held up behind the other, is the business of the
  queue run, which has three.
- **`Capacity`, `MaxPending` and `MaxBatch`** stand for 1024, 4096 and 64.  A
  channel of one or two places and a buffer of three are full after a join and
  its announcement, so every overflow happens; a batch of three holds the sync
  of one channel.  That a batch holds a whole sync is `SyncFits`, a condition of
  `SinksGo` and of nothing else: `ready_count` does not ask for it, and it is met
  because a connection has at most `CHANNEL_INDEX_COUNT` = 7 channels
  (`native/protocol.rs:61`) and 7 + 2 events fit into 64.
- **`MaxObserved`** is two: a join and its roster, or a join and a heartbeat, which
  is what the initial sync waits for.
- **`MaxToggles` = 2** is off and on again.
- **`LiveService`**: one fault makes a request fail, or be given up and commit
  late; a second request is its retry.  `MCAnywhere` lets a batch end after any
  event, so a sync is cut everywhere; the nights run cuts only around the sync
  and has a second session to be the newer one.  The lines of its transcript may
  go out all together or the last one in a batch of its own, and the one fault lets
  the shorter batch commit late, behind the longer one that repeated it.  (Larger
  ones, three lines in any order, batches that end anywhere and two faults, were
  checked too.)  One time of silence
  (`MaxAges`) makes everything written before it old.
- **`Releases` = {1, 2}, `MaxClicks` = 3**: a check, an action and a dismissal,
  or an action pressed twice; the second release is published in between.
- **`UpdateInstall`**: a second attempt finds what the first left and a third
  what both left; a fault in each of two attempts.  One session of the updater at
  a time (`AllOver`) is a bound of the model, also of what is proved: an
  application that was started in the middle of an installation asks for its own
  update when that one is over.
- **`Sc2Channels`**: the two private channels are alike (symmetry) and their join
  replies do not name them; General's do.  Two indices, and two channels that
  may be joined, so that both run out.  Two presses make two joins overlap, or a
  join meet a close; the reconnect and the loss of the connection are not
  presses.  The retry of a reconnect that failed takes a second
  one; that, and larger instances (4 presses, 2 lines, 2 reconnects), were
  simulated only.  `Sc2ChannelsPublic` has two public channels, one of which the
  catalogue may have lost, and neither lines nor other users.  With one line `MaxEchoes` = 1 (32 in the code) is never
  exceeded; an instance with two lines, where it is, was checked for `ShownOnce`,
  which is proved for every value.

### Fairness

- The worker thread runs (`WF` of its steps) unless it is `blocked`.  A read over
  TLS that gets no answer stays blocked, whatever the deadline of the socket
  (`websocket.rs:385-388`), so every such call may hang for good, at any time,
  but those of StarCraft II's sign-in between the watchdog's arming and its
  disarming, if its thread could be started: there `SignInEnds` shows that the
  read is cut.  `AttemptEnds` and `WorkerFinishes` except a thread blocked in an
  unwatched read, and show that nothing else keeps an attempt or a thread from
  ending; `AttemptEnds` also excepts a login page nobody answers, since a browser
  callback waits for the application and nothing makes it answer.
  `WorkerFinishes` does not, because dropping the handle drops the reply channel.
- Both threads of `LogonWatchdog` are scheduled.  Nothing is assumed of the
  service or of the person: `SignInEnds` excepts a page that stays open and a
  watchdog thread that could not be started.
- The application drains the events of the product on screen, those of the
  others while nobody types (`polling.rs:41-57`), and advances the queue.  Nothing
  is assumed of the user, who may type for ever and leave a login page open, or of
  the service, which may fall silent.  `QueueMovesUntilHeld` names what may hold
  the queue up: a session that was lost, a sign-in in a read without answer, a
  user who types again and again in another product than the one signing in, a
  page that stays open.
- The threads of `Uplink` run and time passes.  Registration, taking a batch and
  its acceptance are strongly fair: the network may fail any number of times and
  is not down for good.  Nobody has to flip the switch, end a connection or quit.
- `LiveService`: the uplink's loop goes on, the service runs what it has taken,
  the second batch of the night follows the first.  A fault is never fair.
- `UpdateDialog`: only the application is fair.  The updater's HTTP agent has no
  timeout, so a check may hang for good; `StartupConnects` shows that the
  application connects all the same.
- `UpdateInstall`: a process that is neither killed nor failing goes on, and the
  application quits when it is asked to.  What the user does has no fairness, nor
  has `Sc2Channels`.

Deadlock is checked for `SessionWorker` and `LogonWatchdog`, which stutter
explicitly once their threads have ended: anything else that stops is an error.
Elsewhere the system may stop: a credential store is left unused, a user stops
acting while every worker is idle or every connection is over, a feed has
published everything, an update is installed.  Those configurations switch the
check off.

## Where code and documentation disagree

Claims of a comment, a test or a README that the code does not keep.  For each
there is a definition that states the claim, with "does not hold" in its comment,
and for five of them a configuration that lets TLC show why; these are not among
the runs.

| Claim | Stated by | Configuration |
| --- | --- | --- |
| `file.rs:50`: the un-keyed file is read "exactly once" | `LegacyReadOnce` | `FileCredentialStoreLegacy.cfg` |
| the queue is not held by "a product that failed" | `QueueMoves` | `ProductSessionsStuck.cfg` |
| the sign-out gate "rejects late events from the session being signed out" | `SameAccount` | `ProductSessionsSignOut.cfg` |
| "Live came back on: re-announce" | `LiveComesBack` | `UplinkRestart.cfg` |
| `live/test/read.spec.ts:100`: "reports explicit disconnects offline" | `EndIsSeen` | `LiveServiceEnd.cfg` |
| `updater/README.md:5`: the agent "relaunches the app" | `RelaunchFollows` | |
| what the buttons of the update dialog say | `ButtonDoesWhatItSays`, `TryAgainChecks` | |

- Nothing removes the legacy file, so a sign-out, which deletes the keyed one,
  makes the next `load` find the legacy credential again.
- The disconnect warning is one for all products; while it is up, the failure of
  another product is taken for a loss and not recorded with that product, which
  then never settles.  `QueueMovesUntilHeld` names this beside the three other
  things that hold the queue up.
- The next attempt opens the sign-out gate before the old one is over: a
  secondary product that was signing in reports its account through it, and two
  accounts are shown side by side.
- While Live is off the session ends and its sink is pruned.  When it comes back
  the tap sends `SessionStarted` but no new announcement, because `announced` is
  still set: all that follows finds no sink, and nothing is counted as dropped.
- When a session starts and ends in one batch, the row that `sessionUpkeep`
  inserts has no `ended_at`, and the statement of `session_started`, which comes
  after it, would clear one: the session stays online until it is stale.
- On Windows the process to wait for is opened by its number.  An application
  that has quit before that cannot be opened, and the installation is given up
  with nothing started again; `RelaunchUnlessRaced` shows that there is no other
  way.
- Two quick presses of UPDATE NOW are two commands, and the second, taken after
  the download, relaunches without being asked.  TRY AGAIN after a launch that
  failed finds the worker in `Ready`, which answers `Focus` and checks nothing.

Smaller ones are behaviours of the models.  Remastered's live loop counts `Quit`
among the commands that are "StarCraft II's" and drops it (`LiveQuit`);
`WorkerFinishes` shows that the thread still ends when the channel closes.  The
watchdog reads `at_login_page` three steps before it cuts, so a page that opens
on the last beat is cut under the person reading it; `SeveredIsExplained` holds
all the same.  `REFRESH` while a secondary product is at its sign-in lets two
workers stand in their browser callbacks at once, which `lifecycle.rs:77` rules
out; `NobodyWaitsUnseen` shows that the page that is replaced is answered.  On
macOS without an atomic swap, a process killed between the two renames leaves
nothing to start and a backup that nothing puts back; `NeverLost` says that this
is the only way (`interrupted`).  On Windows a user who starts the old version in
the middle of an installation can ask for the same update again, which then
removes and replaces the version that `current.json` names (`overwritten`).  Sc2Channels' slips are listed
with its module.

## The proofs

All theorems hold for every value of the constants under the assumptions the
modules state: the special values differ from one another and from credentials,
the products are among the three, the bounds are natural numbers and the
patience is positive.  Builds are positive numbers.  There is at least one channel
index.

- **`FileCredentialStoreProofs`**.  `IInv` is `TypeOK`, `CacheNeverTorn` and
  `StoreProgress`.  That no torn credential is visible is inductive only with
  what a store in progress guarantees: the temporary about to be renamed is
  whole and synced.  `FileStoreImplementsCell` maps each step to a step of the
  abstract cell or to a stutter: `StoreRename` is the abstract store, a crash
  the abstract crash, everything before the rename invisible.  It assumes that
  no legacy file exists; with one, the cell is not implemented
  (`file_store_legacy`).
- **`SessionWorkerProofs`**.  `Inv` adds to the types two facts that carry
  `ConnectedAsExpected` back to where it is established: past the comparison
  with the expected account, the account that signed in is that one
  (`ProvenIsExpected`), and from the service's acceptance on there is an account
  (`IdentifiedIsSomebody`).  `SignOutForgets` needs `Remembers`: a sign-out
  stands only while the worker is idle, so no bring-up can cache behind it.  It
  speaks of the product's own file and the cookie; of StarCraft II, whose `load`
  falls back to the un-keyed file, it does not say that nothing can be loaded.
  `OnlyProvenCredentialKept`, an action property, needs `Pending`: a credential
  that waits to be stored is the account's that signed in, because the second
  try never presents a cached credential while another is pending.  That the
  retry after a *rejected* credential leaves `pending_credential` in place is
  harmless for exactly this reason.
  Its last section is about `LogonWatchdog`, which runs beside the sign-in and
  whose specification (`WatchSpec`, from `WatchInit` and `WatchNext`) the module
  takes in next to the worker's.  `SeveredIsExplained` is inductive with the
  order of `fired` and the cut: a socket is cut only when `fired` is up
  (`FiredBeforeCut`), an outcome is severed only by a cut (`SeveredByCut`), and
  the beat count never passes the patience (`ClockRuns`).
- **`UpdateInstallProofs`**, for a user who may quit and start the application at
  any time.  `NeverLost` is not inductive: a step that clears the directory of the
  plan's build loses the installation if that build is one that `current.json`
  names.  `IInv` adds `Order` (what each step finds on the disk; the plan's build
  is never older than what the installation holds, and afterwards it is that,
  `Effect`), `Fresh` (until `overwritten`, a build to come is newer than both that
  are named) and `Roles` (what the agent and the worker do, and that they do not
  install at the same time).  `InstallImplementsVersion`: on Windows only
  `Activate` changes what starts, to a newer build (`WindowsUpgrades`); on macOS
  the bundle is replaced at once, or goes and comes (`MacReplaces`).
- **`UplinkProofs`**, for any sessions, capacity, batch size and buffer.  The
  order of a session's numbers and the account of its losses are inductive with
  two facts about a request: a batch is in hand exactly while its request is
  under way, and batch and buffer together keep to `MAX_PENDING_EVENTS`, so that
  `Restore` drops nothing uncounted.  Each action is a change to the account of
  one session (`AccountOf`): it numbers, sends, receives or settles an event.  The account is a
  bound: `counted` also holds calls that were given up before their event had a
  number, so a loss could hide behind one; and what came to a sink that is not
  there (`nowhere`) the code counts nowhere.
- **`ProductSessionsProofs`**, for any accounts, catalogues and number of presses.
  `NobodyWaitsUnseen` and `QueueSound` are inductive with the types.
  `QuietMeansDisconnected` is not: between the end of a worker and the moment its
  events are handled anything may be shown.  `LastWord` says of every idle worker
  that, with the stage shown now and the events still to come, the product ends
  as disconnected (`Settles`), which handling an event, sending more, and all that
  the user does preserve.  `QueueStaysSound` rests on `RetainedProperties`, a
  lemma about `retain` for every queue; the least counterexample of a
  well-founded order stands in for induction (`LeastNumber`).
  `SameAccount` does not hold of every behaviour (see the table above), so
  `AccountsAgree` proves it of `CarefulSpec`: every step but a sign-out, and but a
  reconnect, cancel or refresh pressed while no account has been adopted.  (TLC
  finds two accounts on screen after each of the four without that condition: they
  put a `Connect` that expects nobody behind one that did.)  `OneAccount` is the
  invariant: either nothing in the system names an account yet and the first
  `Connect` is still open (`Fresh`), or all sessions, events, commands and attempts
  under way name the same one (`Pledged`).  A step of a worker is one of four
  `Move`s, one of the application an `AppStep`, whatever action it is.
- **`UpdateDialogProofs`**, for any releases and number of presses.  The dialog
  and the worker agree only when both queues are empty; `Story` says what holds
  while they are not, of any dialog, queue of events and worker.  A selected
  update is on screen, comes there, or is dismissed by a command under way; the
  last announcement is of the worker's release; the last word on the stage, if it
  is an offer, is what the worker would do, or is withdrawn by a dismissal that
  no `Focus` undoes.  A step that emits and a step that handles an event are then
  lemmas about sequences (`Emits*`, `HandlesEvent`), and everything the user and
  the deadlines do is one lemma (`DialogKeeps`).
- **`Sc2ChannelsProofs`**, for any channels, indices and bounds.  `SaidWhereTyped`
  and `CommandsSurvive` follow from one `IInv`, since a tab, a command, a
  request and an event all name a channel by its index and are read long after
  they were written.  `Course` says which stages of a connection can be under way
  with which commands: a reconnect finds no command, request or join of the
  connection before, which is why an index cannot be used for the wrong one.
  `TokensFit` says that a token means the same channel at both ends.  `Fit` and
  `Held` are what the indices keep: at the service each stands for the channel
  that whoever refers to it has in mind, or for none; in `LiveChat` it is open,
  one tab has it, and nothing refers to it behind the command to leave.  `Fit`
  holds until a slip "shared" or "unclaimed", `Held` until one of these or a
  "shifted".  Every action is an instance of one of a few classes
  (`Passes`, `Stops`, `Keeps`, `Moves`, `Serves`, `Admits`) with a lemma each.
  The search for `Held` showed that a tab closed while a join with its index was
  still to be handled leaves an index behind that `LiveChat` has let go, and the
  next line into it ends the connection: the second half of "shifted".
  `ShownOnce` needs a second invariant on top of `IInv`, `LinesInv`: a line is in a
  command, or on the wire, at most once (`SaidOnce`); an event that could show it
  goes to the tab it was typed into, or to none, and if it has been shown no other
  event can show it again (`ShownFits`); and the echo of a line on the wire is
  expected for as long as a tab has its index (`EchoesDue`).  Most steps are `Calm`
  (no line moves); the others are a line typed, sent, shown and echoed, and a join
  accepted.  `EchoesDue` showed the same close as above from another side: a leave
  drops the echoes of the channel, the join that is still to be handled brings the
  tab back, and its lines are shown twice, so `ShownOnce` excepts "shifted" too.
  `RejoinsAll` follows from `ReturnInv`: each channel that a reconnect is to bring
  back is in the call (which keeps no more than `normalized_channels` does), in the
  joins of the connection coming up, in a request or in an answer that names it
  (`Coming`), or it has a tab that no first stage is still to take away (`Back`);
  after the last error nothing is promised before the next RECONNECT.  The proof
  needs none of the slips "shared" and "shifted", so the property does not except
  them: an index given out again never costs a reconnect its channel, and a
  position that has shifted costs it only the tab that is closed there.
- **`Sc2ViewsProofs`**, on top of `IInv`.
  `TabsAgree` speaks of a quiet system, so `ViewsInv` says what holds while it is
  not.  A room of the service is in a leave under way, in a join that the
  application has not handled (`Comes`), or in a tab that no first stage is to take
  away and no dialog is to close (`Shown`); a tab, or a join, whose room is gone has
  its removal behind it in the queue, or its dialog is open (`TabsStand`,
  `JoinsStand`); nothing has the index of a leave that has reached the wire
  (`LetGo`).  Of the rosters, `LiveChat`'s slot is the room's as soon as the first
  has come (`SlotsFit`), and what it holds is the last word: in the queue
  (`Reported`), in the debounce, or in the tab (`Drawn`).  It rests on `IInv`: that
  a leave is the last use of its index decides that a room which is left has no tab.
  The removals need an order of their own: they come after the stage that closes
  the connection dialog (`UpBefore`), so the dialog they open is not closed by it.
  Establishing a connection and accepting a join bring in a room; for every other
  step it is enough that it says nothing new of the rooms (`NoNews`), or keeps the
  tabs (`TabsBack`, `TabsForth`), or the words (`WordsKept`).  A drag keeps the tabs
  and moves only their places (`DraggedTabs`), which matters to a dialog that holds
  one.  General in the place of a channel that the catalogue has lost leaves that
  channel without a tab and without a room, so the property needs no exception for
  "delisted".

Only model-checked: everything temporal beyond safety (`AttemptEnds`,
`WorkerFinishes`, `SignInEnds`, `QueueMovesUntilHeld`, `SinksGo`, `AllAccepted`,
`StartupConnects`, `RelaunchUnlessRaced`), since liveness under fairness is beyond
the proof system; and the invariants and action properties of `LiveService`, whose
statements are folds over a batch, of which the provers know nothing.

## What is not modelled

- Wire formats, cryptography and the generated schemas: `platform/wire`,
  `sc2/bsn`, `sc2/native/schema/wire.rs`, and the tables of `decode.rs`,
  `protocol.rs`, `inspect.rs` and `portrait_catalog.rs`.  These are data and
  encodings, a quarter of the implementation's lines: a translation would
  restate them.
- Rendering, layout and animation (`ui/`, most of `app/`), the live viewer, the
  packet inspector, schema tools, the site and scripts: another third of
  the lines, with little state that outlives a frame.  What is left, the
  program's own control, is a small share of the lines.
- Of the session worker: what chat commands do to a session beyond succeeding,
  being refused or breaking it.
- Of the application: friends, groups, whispers, the classic products' channels
  and the dialogs that do not reach a connection.
- Of StarCraft II's chat: parties, whispers, friends, clubs, presence and
  portraits, and the native stream below `LiveChat`.
- Of the live service: the JSON and the paging of the read routes, whose choice
  of session is modelled; limits of rate and size.
- Of the updater: archives, signatures and the appcast beyond whether they
  verify; the launcher and the agent of Windows, each replaced by one atomic
  move; publishing.
- Of the uplink: the classic products' taps (`classic.rs`, `scr.rs`, `wc3.rs`),
  which share the announcing, numbering and posting that is modelled, and what
  the events say.
- File modes, symlinks and directories of the credential cache are folded into
  operations that may fail.
- The components of the plan below.

## Plan

In this order, the most important first.

1. `BgsClient`: tokens, challenges and listener callbacks of one logon; then
   `SessionWorker`'s logon steps as its abstraction.
2. `ClassicChannel`: Remastered's and Warcraft III's channel, joins and rejoins,
   and the classic taps.
3. `Stimpak`: the life cycle of a handle and its pending sign-in.
4. `Gateway`: the login sequence of a classic client and the relay.
5. Parties and whispers in `Sc2Channels`.
6. A bit reader and writer of the BSN codec, as operators checked against each
   other.
7. Single-use credentials in `SessionWorker`, to say what a failed rotation in
   `authenticate_cached` leaves behind.
8. Proofs: that `SessionWorker` implements the abstract worker of
   `ProductSessions`.
