---------------------------- MODULE LiveService ----------------------------
(***************************************************************************)
(* The live service: live/worker.  The uplink of one feed POSTs the events *)
(* of its sessions, oldest first, and keeps what was not acknowledged; the *)
(* service reads the session's last_seq, and then stores what is newer in  *)
(* one batch.  The uplink gives a POST up after a timeout and sends the    *)
(* events again, while the request it gave up may still be running.        *)
(* Nightly, prune removes what the retention time has passed.              *)
(*                                                                         *)
(* Each session's events are a script chosen once: they depend on the game *)
(* and not on the service.  The sequence number of an event is its         *)
(* position; a row with last_seq 0 is no row.  Clocks are abstracted: the  *)
(* time stamp of an event is its session's started_at plus its number, and *)
(* rows are recent or older than the retention time.                       *)
(***************************************************************************)
EXTENDS Integers, Sequences, SequencesExt, FiniteSetsExt

CONSTANTS
  Sessions,      \* sessions that the feed publishes
  Channels,
  Users,
  StartedAt,     \* started_at of each session
  Scripts,       \* what the sessions may publish: functions from Sessions to events
  Ends,          \* bound: the numbers of events that a batch may end with
  Requests,      \* requests that can be running at one time
  MaxFaults,     \* bound on failures and timeouts
  MaxAges        \* bound on how often the retention time passes in silence

NoChannel == "none"
Kinds == {"session_started", "sync_started", "session_synced", "heartbeat", "joined", "left",
          "message", "member_joined", "member_left", "roster", "roster_delta", "session_ended"}
Events == [kind : Kinds, channel : Channels \cup {NoChannel}, users : SUBSET Users]

ASSUME ScriptsAssumption == \A f \in Scripts : f \in [Sessions -> Seq(Events)]
ASSUME ClockAssumption == StartedAt \in [Sessions -> Nat]
ASSUME BoundAssumption == MaxFaults \in Nat /\ MaxAges \in Nat

VARIABLES
  script,        \* the events of each session
  acked,         \* how many of them the uplink has seen accepted
  waiting,       \* the request whose answer the uplink awaits
  request,       \* the requests under way
  db,            \* the tables
  cached,        \* whether the isolate's token cache knows the feed
  pruning,       \* whether the night's second batch is to come
  faults,
  ages,
  doubt          \* per session, the last event of which the rows may tell another story

uplink == <<script, acked, waiting>>
vars == <<script, acked, waiting, request, db, cached, pruning, faults, ages, doubt>>

Nobody == "nobody"
Idle == [stage |-> "idle", session |-> Nobody, from |-> 0, upto |-> 0, last_seq |-> 0]
NoSession == [last_seq |-> 0, sync_seq |-> 0, synced_at |-> 0, ended |-> FALSE, recent |-> FALSE]
NoRow == [open |-> FALSE, last_seq |-> 0]
NoRoster == [u \in Users |-> 0]

\* The tables of a feed that was just registered.
EmptyTables ==
  [feed |-> "recent",
   latest |-> Nobody,
   sessions |-> [s \in Sessions |-> NoSession],
   channels |-> [s \in Sessions |-> [c \in Channels |-> NoRow]],
   roster |-> [s \in Sessions |-> [c \in Channels |-> NoRoster]],
   messages |-> [s \in Sessions |-> <<>>]]

Init ==
  /\ script \in Scripts
  /\ acked = [s \in Sessions |-> 0]
  /\ waiting = Nobody
  /\ request = [r \in Requests |-> Idle]
  /\ db = EmptyTables
  /\ cached = FALSE
  /\ pruning = FALSE
  /\ faults = 0
  /\ ages = [times |-> 0, passed |-> [s \in Sessions |-> 0]]
  /\ doubt = [s \in Sessions |-> 0]

------------------------------------------------------------------------------
(* The statements of a batch, each a function of the tables.                *)

Event(s, n) == script[s][n]
LongestScript == Max({Len(script[s]) : s \in Sessions})
Exists(d, s) == d.sessions[s].last_seq > 0

\* Mutant: the row takes the number of the batch at hand, an older one too.
SessionUpkeepUnordered(d, s, newest) ==
  [d EXCEPT !.latest = s,
            !.sessions[s] = [@ EXCEPT !.recent = TRUE, !.last_seq = newest]]

\* The session's row, written first; only a row that was there can end.
SessionUpkeep(d, s, newest) ==
  LET row == d.sessions[s]
  IN [d EXCEPT !.latest = s,
               !.sessions[s] =
                 [@ EXCEPT !.recent = TRUE,
                           !.last_seq = IF newest > row.last_seq THEN newest ELSE @,
                           !.ended = \/ @
                                     \/ /\ Exists(d, s)
                                        /\ newest > row.last_seq
                                        /\ Event(s, newest).kind = "session_ended"]]

FeedUpkeep(d) == [d EXCEPT !.feed = IF @ = "gone" THEN @ ELSE "recent"]

ChannelTouch(d, s, n) ==
  [d EXCEPT !.channels[s][Event(s, n).channel] =
     [open |-> TRUE, last_seq |-> IF n > @.last_seq THEN n ELSE @.last_seq]]

\* rosterUpsert and rosterBulkUpsert.
RosterUpsert(d, s, c, users, n) ==
  [d EXCEPT !.roster[s][c] =
     [u \in Users |-> IF u \in users /\ d.channels[s][c].open /\ n > @[u] THEN n ELSE @[u]]]

\* Mutant: INSERT OR REPLACE, which gives the line a new place.
TranscriptRowReplaced(d, s, n) ==
  [d EXCEPT !.messages[s] = Append(SelectSeq(@, LAMBDA m : m # n), n)]

\* INSERT OR IGNORE under UNIQUE (feed_id, session_id, seq), in rowid order.
TranscriptRow(d, s, n) ==
  [d EXCEPT !.messages[s] = IF \E i \in DOMAIN @ : @[i] = n THEN @ ELSE Append(@, n)]

LeftStatements(d, s, n) ==
  LET c == Event(s, n).channel
  IN [d EXCEPT !.roster[s][c] = NoRoster,
               !.channels[s][c] = [open |-> FALSE, last_seq |-> n]]

MemberStatements(d, s, n) ==
  LET e == Event(s, n)
      line == TranscriptRow(d, s, n)
  IN IF e.kind = "member_left"
     THEN [line EXCEPT !.roster[s][e.channel] =
             [u \in Users |-> IF u \in e.users THEN 0 ELSE @[u]]]
     ELSE RosterUpsert(line, s, e.channel, e.users, n)

\* Mutant: a complete roster is added to the one there was.
RosterStatementsAdding(d, s, n) ==
  RosterUpsert(d, s, Event(s, n).channel, Event(s, n).users, n)

RosterStatements(d, s, n) ==
  LET c == Event(s, n).channel
  IN RosterUpsert([d EXCEPT !.roster[s][c] = NoRoster], s, c, Event(s, n).users, n)

\* Mutant: a sync opens channels and never closes one.
SyncedStatementsKeeping(d, s, n) ==
  [d EXCEPT !.sessions[s].synced_at = IF d.sessions[s].ended THEN @ ELSE StartedAt[s] + n]

SyncedStatements(d, s, n) ==
  [d EXCEPT !.channels[s] =
              [c \in Channels |->
                 [@[c] EXCEPT !.open = @ /\ d.channels[s][c].last_seq >= d.sessions[s].sync_seq]],
            !.sessions[s].synced_at = IF d.sessions[s].ended THEN @ ELSE StartedAt[s] + n]

StatementsFor(d, s, n) ==
  LET e == Event(s, n)
      t == IF e.channel = NoChannel THEN d ELSE ChannelTouch(d, s, n)
  IN CASE e.kind = "session_started" ->
            [t EXCEPT !.sessions[s].ended = FALSE, !.sessions[s].synced_at = 0,
                      !.sessions[s].sync_seq = 0]
       [] e.kind = "sync_started" ->
            [t EXCEPT !.sessions[s].sync_seq = IF t.sessions[s].ended THEN @ ELSE n]
       [] e.kind = "session_synced" -> SyncedStatements(t, s, n)
       [] e.kind = "left" -> LeftStatements(t, s, n)
       [] e.kind = "message" -> TranscriptRow(t, s, n)
       [] e.kind \in {"member_joined", "member_left"} -> MemberStatements(t, s, n)
       [] e.kind = "roster" -> RosterStatements(t, s, n)
       [] e.kind = "roster_delta" -> RosterUpsert(t, s, e.channel, e.users, n)
       [] OTHER -> t

\* The events of an envelope that are newer than what was read.
Newer(q) == SelectSeq([i \in 1 .. (q.upto - q.from + 1) |-> q.from + i - 1],
                      LAMBDA n : n > q.last_seq)

StoreEnvelope(d, q) ==
  LET news == Newer(q)
      upkept == FeedUpkeep(SessionUpkeep(d, q.session, Last(news)))
  IN IF news = <<>> THEN d
     ELSE FoldLeft(LAMBDA t, n : StatementsFor(t, q.session, n), upkept, news)

------------------------------------------------------------------------------
(* The uplink.                                                              *)

\* One POST at a time: a session's oldest unacknowledged events.
Post(s, upto) ==
  LET r == CHOOSE q \in Requests : request[q] = Idle IN
  /\ waiting = Nobody
  /\ \E q \in Requests : request[q] = Idle
  /\ acked[s] < upto
  /\ waiting' = r
  /\ request' = [request EXCEPT ![r] = [Idle EXCEPT !.stage = "sent", !.session = s,
                                                    !.from = acked[s] + 1, !.upto = upto]]
  /\ UNCHANGED <<script, acked, db, cached, pruning, faults, ages, doubt>>

\* The answer: the events of an accepted envelope leave the uplink's buffer,
\* those of a refused one stay.
Answer(r) ==
  /\ waiting = r
  /\ request[r].stage \in {"accepted", "failed"}
  /\ waiting' = Nobody
  /\ acked' = IF request[r].stage = "accepted"
              THEN [acked EXCEPT ![request[r].session] = request[r].upto] ELSE acked
  /\ request' = [request EXCEPT ![r] = Idle]
  /\ UNCHANGED <<script, db, cached, pruning, faults, ages, doubt>>

\* Unauthorized: the uplink registers a new feed and goes on with it.  The
\* tables are then those of the new feed; what was told to the old one, and
\* what its late requests still write, nobody sees any more.
Register(r) ==
  /\ waiting = r
  /\ request[r].stage = "unauthorized"
  /\ waiting' = Nobody
  /\ request' = [q \in Requests |-> Idle]
  /\ db' = EmptyTables
  /\ cached' = FALSE
  /\ ages' = [ages EXCEPT !.passed = [s \in Sessions |-> Max({@[s], acked[s]})]]
  /\ doubt' = [s \in Sessions |-> Max({doubt[s], acked[s]})]
  /\ UNCHANGED <<script, acked, pruning, faults>>

\* The POST times out, answered or not; what the service does with it is not known.
GiveUp(r) ==
  /\ waiting = r
  /\ faults < MaxFaults
  /\ waiting' = Nobody
  /\ request' = IF request[r].stage \in {"accepted", "failed", "unauthorized"}
                THEN [request EXCEPT ![r] = Idle] ELSE request
  /\ faults' = faults + 1
  /\ UNCHANGED <<script, acked, db, cached, pruning, ages, doubt>>

------------------------------------------------------------------------------
(* The service.                                                             *)

\* An answer to a request that was given up reaches nobody.
Answered(r, how) ==
  [request EXCEPT ![r] = IF waiting = r THEN [@ EXCEPT !.stage = how] ELSE Idle]

\* feedIdForToken: the cache of this isolate first, then the table.
Authenticate(r) ==
  /\ request[r].stage = "sent"
  /\ LET known == cached \/ db.feed # "gone"
     IN /\ request' = IF known THEN [request EXCEPT ![r].stage = "authenticated"]
                      ELSE Answered(r, "unauthorized")
        /\ cached' = known
  /\ UNCHANGED <<uplink, db, pruning, faults, ages, doubt>>

\* storeEnvelope up to its first await.
ReadLastSeq(r) ==
  /\ request[r].stage = "authenticated"
  /\ request' = [request EXCEPT ![r].stage = "read",
                                ![r].last_seq = db.sessions[request[r].session].last_seq]
  /\ UNCHANGED <<uplink, db, cached, pruning, faults, ages, doubt>>

\* An envelope that commits after one that was read later tells events again.
Spoilt(q) ==
  LET stored == db.sessions[q.session].last_seq
  IN IF \E i \in DOMAIN Newer(q) : Newer(q)[i] <= stored
     THEN [doubt EXCEPT ![q.session] = Max({stored, q.upto})] ELSE doubt

\* Mutant: an envelope that brings nothing new is an error.
CommitNewsOnly(r) ==
  /\ request[r].stage = "read"
  /\ db' = StoreEnvelope(db, request[r])
  /\ request' = Answered(r, IF Newer(request[r]) = <<>> THEN "failed" ELSE "accepted")
  /\ doubt' = Spoilt(request[r])
  /\ UNCHANGED <<uplink, cached, pruning, faults, ages>>

\* Its batch, which is one transaction.
Commit(r) ==
  LET q == request[r]
  IN /\ q.stage = "read"
     /\ db' = StoreEnvelope(db, q)
     /\ doubt' = Spoilt(q)
     /\ request' = Answered(r, "accepted")
     /\ UNCHANGED <<uplink, cached, pruning, faults, ages>>

\* Over the rate limit, or the database failed: nothing was stored.
Fail(r) ==
  /\ request[r].stage \in {"authenticated", "read"}
  /\ faults < MaxFaults
  /\ request' = Answered(r, "failed")
  /\ faults' = faults + 1
  /\ UNCHANGED <<uplink, db, cached, pruning, ages, doubt>>

\* The cached entry is used for CACHE_TTL_MS at most.  While the feed exists
\* its absence makes no difference: the table gives the same answer.
CacheExpire ==
  /\ cached
  /\ db.feed = "gone"
  /\ cached' = FALSE
  /\ UNCHANGED <<uplink, request, db, pruning, faults, ages, doubt>>

\* The retention time passes and nothing is stored; the events that were not
\* stored by then are younger.
Silence ==
  /\ ages.times < MaxAges
  /\ waiting = Nobody /\ \A r \in Requests : request[r] = Idle
  /\ ~pruning
  /\ ages' = [times |-> ages.times + 1,
              passed |-> [s \in Sessions |-> Max({acked[s], db.sessions[s].last_seq})]]
  /\ db' = [db EXCEPT !.feed = IF @ = "gone" THEN @ ELSE "old",
                      !.sessions = [s \in Sessions |-> [@[s] EXCEPT !.recent = FALSE]]]
  /\ cached' = FALSE
  /\ UNCHANGED <<uplink, request, pruning, faults, doubt>>

------------------------------------------------------------------------------
(* Reading, for every product together.                                     *)

Synced(d) == {s \in Sessions : /\ d.sessions[s].synced_at > 0
                               /\ \E c \in Channels : d.channels[s][c].open}
SnapshotSession(d) ==
  IF Synced(d) = {} THEN Nobody
  ELSE CHOOSE s \in Synced(d) :
         \A t \in Synced(d) : \/ d.sessions[t].synced_at < d.sessions[s].synced_at
                              \/ /\ d.sessions[t].synced_at = d.sessions[s].synced_at
                                 /\ StartedAt[t] <= StartedAt[s]
LatestSession(d) == d.latest

\* Mutant: only the session that was heard last is spared.
PruneOldLatestOnly(d) ==
  [d EXCEPT
     !.messages = [s \in Sessions |-> SelectSeq(@[s], LAMBDA n : n > ages.passed[s])],
     !.sessions = [s \in Sessions |->
                     IF @[s].recent \/ s = LatestSession(d) THEN @[s] ELSE NoSession],
     !.feed = IF @ = "old" THEN "gone" ELSE @]

\* prune's batches.
PruneOld(d) ==
  [d EXCEPT
     !.messages = [s \in Sessions |-> SelectSeq(@[s], LAMBDA n : n > ages.passed[s])],
     !.sessions = [s \in Sessions |->
                     IF @[s].recent \/ s \in {LatestSession(d), SnapshotSession(d)}
                     THEN @[s] ELSE NoSession],
     !.feed = IF @ = "old" THEN "gone" ELSE @]

PruneOrphans(d) ==
  LET kept(s) == d.feed # "gone" /\ Exists(d, s)
  IN [d EXCEPT
        !.roster = [s \in Sessions |-> IF kept(s) THEN @[s] ELSE [c \in Channels |-> NoRoster]],
        !.channels = [s \in Sessions |-> IF kept(s) THEN @[s] ELSE [c \in Channels |-> NoRow]],
        !.sessions = [s \in Sessions |-> IF kept(s) THEN @[s] ELSE NoSession],
        !.latest = IF d.feed = "gone" THEN Nobody ELSE @]

\* A session whose row goes has to be told from the start again.
Doubted(d) == [s \in Sessions |-> IF Exists(d, s) THEN doubt[s]
                                  ELSE IF Exists(db, s) THEN db.sessions[s].last_seq ELSE doubt[s]]

Prune ==
  /\ ages.times > 0
  /\ ~pruning
  /\ db' = PruneOld(db)
  /\ doubt' = Doubted(db')
  /\ pruning' = TRUE
  /\ UNCHANGED <<uplink, request, cached, faults, ages>>

PruneRest ==
  /\ pruning
  /\ db' = PruneOrphans(db)
  /\ doubt' = Doubted(db')
  /\ pruning' = FALSE
  /\ UNCHANGED <<uplink, request, cached, faults, ages>>

Service(r) == Authenticate(r) \/ ReadLastSeq(r) \/ Commit(r)
Next ==
  \/ \E s \in Sessions : \E upto \in DOMAIN script[s] \cap (Ends \cup {Len(script[s])}) : Post(s, upto)
  \/ \E r \in Requests : Answer(r) \/ Register(r) \/ GiveUp(r) \/ Fail(r) \/ Service(r)
  \/ CacheExpire
  \/ Silence
  \/ Prune
  \/ PruneRest

Spec == Init /\ [][Next]_vars

\* The uplink's loop goes on while it has events, the service runs what it
\* has taken, the night's second batch follows the first.
FairSpec ==
  /\ Spec
  /\ WF_vars(\E s \in Sessions : \E upto \in DOMAIN script[s] \cap (Ends \cup {Len(script[s])}) : Post(s, upto))
  /\ \A r \in Requests : WF_vars(Service(r) \/ Answer(r) \/ Register(r))
  /\ WF_vars(PruneRest)

------------------------------------------------------------------------------
(* What the stored events say.                                              *)

Stored(s) == db.sessions[s].last_seq
Told(s) == doubt[s] + 1 .. Stored(s)
Kind(s, n) == Event(s, n).kind
On(s, c) == {n \in 1 .. Stored(s) : Event(s, n).channel = c}
Ended(s) == \E n \in 1 .. Stored(s) : Kind(s, n) = "session_ended"

\* Where the sync that ends at j began.
SyncStart(s, j) == Max({0} \cup {k \in 1 .. j : Kind(s, k) = "sync_started"})

\* The last event on the channel is not its leaving, and no later sync left it out.
LogOpen(s, c) ==
  \E n \in On(s, c) :
    /\ \A m \in On(s, c) : m <= n
    /\ Kind(s, n) # "left"
    /\ \A j \in n + 1 .. Stored(s) : Kind(s, j) = "session_synced" => SyncStart(s, j) <= n

\* The last event that says anything of the user says that he is there.
LogMember(s, c, u) ==
  LET about == {n \in On(s, c) :
                  \/ Kind(s, n) \in {"roster", "left"}
                  \/ /\ Kind(s, n) \in {"roster_delta", "member_joined", "member_left"}
                     /\ u \in Event(s, n).users}
  IN \E n \in about : /\ \A m \in about : m <= n
                      /\ Kind(s, n) \notin {"left", "member_left"}
                      /\ u \in Event(s, n).users

TypeOK ==
  /\ \A s \in Sessions : acked[s] \in 0 .. Len(script[s]) /\ doubt[s] \in 0 .. Len(script[s])
  /\ waiting \in Requests \cup {Nobody}
  /\ request \in [Requests -> [stage : {"idle", "sent", "authenticated", "read", "accepted",
                                       "failed", "unauthorized"},
                               session : Sessions \cup {Nobody},
                               from : 0 .. LongestScript, upto : 0 .. LongestScript,
                               last_seq : 0 .. LongestScript]]
  /\ db.feed \in {"recent", "old", "gone"}
  /\ db.latest \in Sessions \cup {Nobody}
  /\ \A s \in Sessions : db.sessions[s].last_seq \in 0 .. Len(script[s])
  /\ cached \in BOOLEAN /\ pruning \in BOOLEAN
  /\ faults \in 0 .. MaxFaults /\ ages.times \in 0 .. MaxAges

\* Which channels a viewer sees open is what the events say, however they
\* were cut into requests and however often each was sent.  A request that
\* was given up and commits late, or a pruned row, can spoil that only until
\* the channel's next event or the next whole sync (store.ts: storeEnvelope).
OpenMatches ==
  \A s \in Sessions, c \in Channels :
    (/\ Stored(s) > 0 /\ ~Ended(s)
     /\ \/ doubt[s] = 0
        \/ On(s, c) \cap Told(s) # {}
        \/ \E j \in Told(s) : Kind(s, j) = "session_synced" /\ SyncStart(s, j) > doubt[s])
    => (db.channels[s][c].open <=> LogOpen(s, c))

\* The same for the members of a channel, which a roster or leaving the
\* channel puts right again.
RosterMatches ==
  \A s \in Sessions, c \in Channels, u \in Users :
    (/\ Stored(s) > 0
     /\ \/ doubt[s] = 0
        \/ \E n \in On(s, c) \cap Told(s) : Kind(s, n) \in {"roster", "left"})
    => (db.roster[s][c][u] > 0 <=> LogMember(s, c, u))

\* The transcript has each event that belongs to it once and lacks only what
\* the retention time has passed, and viewers page through the rest in the
\* order of the session.  Late requests do not matter here: they can only
\* bring back, behind younger lines, one that the retention time has passed.
TranscriptMatches ==
  \A s \in Sessions :
    LET lines == db.messages[s]
    IN /\ \A i, j \in DOMAIN lines :
            /\ i # j => lines[i] # lines[j]
            /\ i < j /\ lines[j] > ages.passed[s] => lines[i] < lines[j]
       /\ \A n \in ages.passed[s] + 1 .. Stored(s) :
            Kind(s, n) \in {"message", "member_joined", "member_left"} =>
              \E i \in DOMAIN lines : lines[i] = n

\* What the uplink saw accepted, and so forgot, is stored while the feed and
\* the session's row are there.
AckedIsStored ==
  \A s \in Sessions : (db.feed # "gone" /\ Stored(s) > 0) => acked[s] <= Stored(s)

\* A night's pruning never takes away what a viewer of the feed is being
\* shown: the session that status speaks of and the snapshot with its
\* channels and members, for as long as the feed itself is kept.
PruneKeepsShown ==
  [][(pruning' # pruning /\ db'.feed # "gone") =>
       /\ LatestSession(db') = LatestSession(db)
       /\ \A s \in {LatestSession(db), SnapshotSession(db)} \ {Nobody} :
            /\ db'.sessions[s] = db.sessions[s]
            /\ db'.channels[s] = db.channels[s]
            /\ db'.roster[s] = db.roster[s]]_vars

\* Whatever fails or comes late, everything a session publishes is in the
\* end accepted: a retry of what is already stored is accepted too.
AllAccepted == <>(\A s \in Sessions : acked[s] = Len(script[s]))

\* read.spec.ts: "reports explicit disconnects offline".  Once the end of a
\* session is stored, its row says so.  Does not hold for an end in the same
\* batch as the start: the row is inserted without it, and the start clears it.
EndIsSeen == \A s \in Sessions : Ended(s) => db.sessions[s].ended
=============================================================================
