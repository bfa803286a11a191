------------------------------- MODULE Uplink -------------------------------
(***************************************************************************)
(* Live sharing: app/src/uplink.  A tap on each connection's network       *)
(* thread turns chat events into numbered wire events and puts them into   *)
(* one bounded channel; the uplink thread sorts them into one buffer per   *)
(* session and POSTs each buffer in batches.                               *)
(*                                                                         *)
(* A tap's handler computes the calls it will make and then makes them one *)
(* at a time (outbox), since the uplink thread may empty the channel       *)
(* between two of them.  Time is abstracted: a buffer may be due by age    *)
(* whenever it is looked at, and waiting says that next_attempt lies       *)
(* ahead.  What a chat event carries is abstracted to whether its channel  *)
(* is one the projector knows.                                             *)
(***************************************************************************)
EXTENDS Naturals, Sequences, FiniteSets, FiniteSetsExt

CONSTANTS
  Sessions,      \* Battle.net connections of this run of the application
  Channels,      \* the chat channels a connection asks for
  Capacity,      \* CHANNEL_CAPACITY
  MaxBatch,      \* MAX_BATCH_EVENTS
  MaxPending,    \* MAX_PENDING_EVENTS
  MaxObserved,   \* bound on what each connection tells its tap
  MaxToggles     \* bound on the flips of the master switch

ASSUME CapacityAssumption == Capacity \in Nat \ {0} /\ MaxPending \in Nat \ {0}
ASSUME BatchAssumption == MaxBatch \in Nat \ {0} /\ IsFiniteSet(Channels)
ASSUME BoundAssumption == MaxObserved \in [Sessions -> Nat] /\ MaxToggles \in Nat

VARIABLES
  \* the connection and its tap
  life,          \* whether the connection is to come, up or over
  joined,        \* the channels that the connection is in
  tap,           \* announced, ended, next_seq and pending_dropped
  projector,     \* the channels the projector knows, and those with a roster
  sync,          \* resolved_channels, initial_sync_complete, pending_channels_resolved
  observed,      \* what the connection has told its tap so far
  outbox,        \* the calls the tap's handler has still to make
  \* between the threads
  channel,       \* the bounded channel
  enabled,       \* UplinkConfig.enabled
  token,         \* whether there is a feed token
  counted,       \* UplinkStats: the events sent and dropped, by the session they are of
  \* the uplink thread
  pc,            \* where it is in run_worker
  sinks,         \* its sessions
  todo,          \* sinks that flush_all has still to visit
  hand,          \* the batch of the POST in flight
  waiting,       \* next_attempt is in the future
  nowhere,       \* events of each session that found no sink, for the accounts
  toggles        \* flips of the master switch so far

connection == <<life, joined, projector, sync, observed>>
worker == <<pc, sinks, todo, hand, waiting, nowhere>>
vars == <<connection, tap, outbox, channel, enabled, token, counted, worker, toggles>>

NoBatch == [session |-> "none", events |-> <<>>]
Kinds == {"session_started", "sync_started", "session_synced", "roster", "chat",
          "heartbeat", "dropped", "session_ended"}
Dto(n, kind) == [seq |-> n, kind |-> kind]
Dtos == [seq : Nat \ {0}, kind : Kinds]
Session(s) == [session |-> s, dto |-> Dto(0, "session")]
Event(s, n, kind) == [session |-> s, dto |-> Dto(n, kind)]
Messages == {Session(s) : s \in Sessions} \cup [session : Sessions, dto : Dtos]

\* The calls of a handler: announce, announce_and_emit, emit (with and past
\* its marker) and heartbeat.
Call(op, kind) == [op |-> op, kind |-> kind]
Calls == [op : {"announce", "announce_and_emit", "emit", "event", "heartbeat"}, kind : Kinds]
Sinks == [there : BOOLEAN, ended : BOOLEAN, pending : Seq(Dtos)]
NoSink == [there |-> FALSE, ended |-> FALSE, pending |-> <<>>]

TypeOK ==
  /\ life \in [Sessions -> {"fresh", "up", "over"}]
  /\ joined \in [Sessions -> SUBSET Channels]
  /\ tap \in [Sessions -> [announced : BOOLEAN, ended : BOOLEAN, next_seq : Nat \ {0},
                           pending_dropped : Nat]]
  /\ projector \in [Sessions -> [channels : SUBSET Channels, roster_sent : SUBSET Channels]]
  /\ sync \in [Sessions -> [resolved : SUBSET Channels, complete : BOOLEAN, once : BOOLEAN]]
  /\ observed \in [Sessions -> Nat] /\ \A s \in Sessions : observed[s] <= MaxObserved[s]
  /\ outbox \in [Sessions -> Seq(Calls)]
  /\ channel \in Seq(Messages)
  /\ Len(channel) <= Capacity
  /\ enabled \in BOOLEAN
  /\ token \in BOOLEAN
  /\ counted \in [Sessions -> Nat]
  /\ pc \in {"recv", "flush", "post", "shutdown", "done"}
  /\ sinks \in [Sessions -> Sinks] /\ \A s \in Sessions : Len(sinks[s].pending) <= MaxPending
  /\ todo \subseteq Sessions
  /\ hand \in [session : Sessions \cup {"none"}, events : Seq(Dtos)]
  /\ waiting \in BOOLEAN
  /\ nowhere \in [Sessions -> Nat]
  /\ toggles \in 0 .. MaxToggles

Init ==
  /\ life = [s \in Sessions |-> "fresh"]
  /\ joined = [s \in Sessions |-> {}]
  /\ tap = [s \in Sessions |->
              [announced |-> FALSE, ended |-> FALSE, next_seq |-> 1, pending_dropped |-> 0]]
  /\ projector = [s \in Sessions |-> [channels |-> {}, roster_sent |-> {}]]
  /\ sync = [s \in Sessions |-> [resolved |-> {}, complete |-> FALSE, once |-> FALSE]]
  /\ observed = [s \in Sessions |-> 0]
  /\ outbox = [s \in Sessions |-> <<>>]
  /\ channel = <<>>
  /\ enabled \in BOOLEAN
  /\ token \in BOOLEAN
  /\ counted = [s \in Sessions |-> 0]
  /\ pc = "recv"
  /\ sinks = [s \in Sessions |-> NoSink]
  /\ todo = {}
  /\ hand = NoBatch
  /\ waiting = FALSE
  /\ nowhere = [s \in Sessions |-> 0]
  /\ toggles = 0

-----------------------------------------------------------------------------
\* UplinkStats::note_sent and note_dropped.  The code adds to one sum for all
\* sessions; here each session has its part of it.
Counts(s, n) == counted' = [counted EXCEPT ![s] = @ + n]

-----------------------------------------------------------------------------
(* What the connection tells its tap.  A handler starts when the last one  *)
(* has made its calls.                                                     *)

Observes(s) ==
  /\ life[s] = "up"
  /\ outbox[s] = <<>>
  /\ observed[s] < MaxObserved[s]
  /\ observed' = [observed EXCEPT ![s] = @ + 1]
  /\ UNCHANGED <<life, tap, channel, enabled, token, counted, worker, toggles>>
Does(s, calls) == outbox' = [outbox EXCEPT ![s] = calls]
Shares(calls) == IF enabled THEN calls ELSE <<>>
Chat == <<Call("announce_and_emit", "chat")>>

\* SessionTap::reconcile: every channel with a roster, between two marks.
Reconcile(channels) ==
  IF channels = {} THEN <<>>
  ELSE <<Call("announce_and_emit", "sync_started")>>
         \o [i \in 1 .. Cardinality(channels) |-> Call("emit", "roster")]
         \o <<Call("emit", "session_synced")>>
Rosters(s) == projector[s].channels \cap projector[s].roster_sent

BeginSession(s) ==
  /\ pc \notin {"shutdown", "done"}
  /\ life[s] = "fresh"
  /\ life' = [life EXCEPT ![s] = "up"]
  /\ Does(s, Shares(<<Call("announce", "session_started")>>))
  /\ UNCHANGED <<joined, projector, sync, observed, tap, channel, enabled, token, counted, worker, toggles>>

ObserveJoined(s) ==
  /\ Observes(s)
  /\ \E c \in Channels :
       /\ joined' = [joined EXCEPT ![s] = @ \cup {c}]
       /\ projector' = [projector EXCEPT ![s].channels = @ \cup {c}, ![s].roster_sent = @ \ {c}]
  /\ Does(s, Shares(Chat))
  /\ UNCHANGED sync

\* Messages, members, names and changes to a roster; and what does not project.
ObserveChat(s) ==
  /\ Observes(s)
  /\ \E c \in joined[s] : Does(s, IF c \in projector[s].channels THEN Shares(Chat) ELSE <<>>)
  /\ UNCHANGED <<joined, projector, sync>>

\* The first complete roster of a channel.
ObserveRoster(s) ==
  /\ Observes(s)
  /\ enabled
  /\ \E c \in (joined[s] \cap projector[s].channels) \ projector[s].roster_sent :
       LET resolved == sync[s].resolved \cup {c}
           whole == sync[s].complete \/ resolved = Channels
       IN /\ projector' = [projector EXCEPT ![s].roster_sent = @ \cup {c}]
          /\ sync' = [sync EXCEPT ![s].resolved = resolved, ![s].complete = whole]
          /\ Does(s, IF whole THEN Reconcile(Rosters(s) \cup {c}) ELSE <<>>)
  /\ UNCHANGED joined

Forgets(s, c) ==
  projector' = [projector EXCEPT ![s].channels = @ \ {c}, ![s].roster_sent = @ \ {c}]

\* The user left: the projector forgets the channel in any case.
ObserveLeft(s) ==
  /\ Observes(s)
  /\ \E c \in joined[s] :
       /\ joined' = [joined EXCEPT ![s] = @ \ {c}]
       /\ Does(s, IF c \in projector[s].channels THEN Shares(Chat) ELSE <<>>)
       /\ Forgets(s, c)
  /\ UNCHANGED sync

\* The service removed the user: project returns before it while sharing is off.
ObserveRemoved(s) ==
  /\ Observes(s)
  /\ \E c \in joined[s] :
       /\ joined' = [joined EXCEPT ![s] = @ \ {c}]
       /\ IF enabled
            THEN /\ Does(s, IF c \in projector[s].channels THEN Chat ELSE <<>>)
                 /\ Forgets(s, c)
            ELSE UNCHANGED <<outbox, projector>>
  /\ UNCHANGED sync

RejectChannel(s) ==
  /\ Observes(s)
  /\ \E c \in Channels \ joined[s] :
       LET resolved == sync[s].resolved \cup {c}
           completes == ~sync[s].complete /\ resolved = Channels
       IN /\ sync' = [sync EXCEPT ![s].resolved = resolved, ![s].complete = @ \/ completes]
          /\ Does(s, IF completes THEN Reconcile(Rosters(s)) ELSE <<>>)
  /\ UNCHANGED <<joined, projector>>

\* maintain_live_state, when the heartbeat is due: what is still pending is
\* resolved, once; the connection's rosters, complete or not, are projected;
\* then the heartbeat.
Maintain(s) ==
  /\ Observes(s)
  /\ \E rosters \in SUBSET joined[s] : \E complete \in SUBSET rosters :
       LET resolves == ~sync[s].once /\ ~sync[s].complete /\ sync[s].resolved # Channels
           known == IF enabled THEN complete \cap projector[s].channels ELSE {}
       IN /\ sync' = [sync EXCEPT ![s] =
               [resolved |-> IF resolves THEN Channels ELSE @.resolved,
                complete |-> @.complete \/ resolves, once |-> TRUE]]
          /\ projector' = [projector EXCEPT ![s].roster_sent = @ \cup known]
          /\ Does(s, (IF resolves THEN Reconcile(Rosters(s)) ELSE <<>>)
                       \o (IF enabled /\ rosters # {} THEN Reconcile(Rosters(s) \cup known) ELSE <<>>)
                       \o <<Call("heartbeat", "heartbeat")>>)
  /\ UNCHANGED joined

\* end_session, then the drop of the tap, which ends a session once.
EndSession(s) ==
  /\ life[s] = "up"
  /\ outbox[s] = <<>>
  /\ life' = [life EXCEPT ![s] = "over"]
  /\ LET ends == tap[s].announced /\ ~tap[s].ended
     IN /\ tap' = [tap EXCEPT ![s].ended = @ \/ ends]
        /\ Does(s, IF ends THEN <<Call("emit", "session_ended")>> ELSE <<>>)
  /\ UNCHANGED <<joined, projector, sync, observed, channel, enabled, token, counted, worker, toggles>>

-----------------------------------------------------------------------------
(* The calls of a tap: at most one try_send each.                          *)

Calling(s, ops) ==
  /\ outbox[s] # <<>>
  /\ Head(outbox[s]).op \in ops
  /\ UNCHANGED <<connection, enabled, token, worker, toggles>>
Kind(s) == Head(outbox[s]).kind
Full == Len(channel) >= Capacity
Then(s, calls) == outbox' = [outbox EXCEPT ![s] = calls \o Tail(@)]

\* announce_session.  A call that does not fit is dropped with its event.
Announce(s) ==
  /\ Calling(s, {"announce", "announce_and_emit"})
  /\ LET event == IF Head(outbox[s]).op = "announce" THEN <<>> ELSE <<Call("emit", Kind(s))>>
     IN \/ /\ tap[s].announced
           /\ Then(s, event)
           /\ UNCHANGED <<tap, channel, counted>>
        \/ /\ ~tap[s].announced /\ Full
           /\ Counts(s, 1)
           /\ Then(s, <<>>)
           /\ UNCHANGED <<tap, channel>>
        \/ /\ ~tap[s].announced /\ ~Full
           /\ channel' = Append(channel, Session(s))
           /\ tap' = [tap EXCEPT ![s].announced = TRUE]
           /\ Then(s, <<Call("emit", "session_started")>> \o event)
           /\ UNCHANGED counted

\* Mutant: a full channel loses the event without a word.
NumbersUncounted(s, kind, fitting) ==
  /\ tap' = [tap EXCEPT ![s].next_seq = @ + 1,
                        ![s].pending_dropped = IF Full THEN @ + 1 ELSE fitting]
  /\ channel' = IF Full THEN channel ELSE Append(channel, Event(s, tap[s].next_seq, kind))
  /\ UNCHANGED counted

\* A number is used up whether or not the event fits.
Numbers(s, kind, fitting) ==
  IF Full
    THEN /\ tap' = [tap EXCEPT ![s].next_seq = @ + 1, ![s].pending_dropped = @ + 1]
         /\ Counts(s, 1)
         /\ UNCHANGED channel
    ELSE /\ tap' = [tap EXCEPT ![s].next_seq = @ + 1, ![s].pending_dropped = fitting]
         /\ channel' = Append(channel, Event(s, tap[s].next_seq, kind))
         /\ UNCHANGED counted

\* emit_event: the marker for what was lost, then the event.
EmitMarker(s) ==
  /\ Calling(s, {"emit"})
  /\ tap[s].pending_dropped > 0
  /\ Numbers(s, "dropped", 0)
  /\ Then(s, <<Call("event", Kind(s))>>)

EmitEvent(s) ==
  /\ Calling(s, {"emit", "event"})
  /\ Head(outbox[s]).op = "event" \/ tap[s].pending_dropped = 0
  /\ Numbers(s, Kind(s), tap[s].pending_dropped)
  /\ Then(s, <<>>)

Heartbeat(s) ==
  /\ Calling(s, {"heartbeat"})
  /\ \/ /\ ~enabled /\ tap[s].announced /\ ~tap[s].ended
        /\ tap' = [tap EXCEPT ![s].ended = TRUE]
        /\ Then(s, <<Call("emit", "session_ended")>>)
     \/ /\ enabled /\ tap[s].ended
        /\ tap' = [tap EXCEPT ![s].ended = FALSE]
        /\ Then(s, <<Call("emit", "session_started")>> \o Reconcile(Rosters(s)))
     \/ /\ enabled /\ ~tap[s].ended /\ tap[s].announced
        /\ Then(s, <<Call("emit", "heartbeat")>>)
        /\ UNCHANGED tap
     \/ /\ IF enabled THEN ~tap[s].announced /\ ~tap[s].ended
                      ELSE ~tap[s].announced \/ tap[s].ended
        /\ Then(s, <<>>)
        /\ UNCHANGED tap
  /\ UNCHANGED <<channel, counted>>

TapCalls(s) == Announce(s) \/ EmitMarker(s) \/ EmitEvent(s) \/ Heartbeat(s)

-----------------------------------------------------------------------------
(* The uplink thread: run_worker.                                          *)

Working(at) == pc = at /\ UNCHANGED <<connection, tap, outbox, enabled, toggles>>

\* Mutant: the buffer may grow by one event more than it should.
PushOneMore(pending, dto) ==
  Append(SubSeq(pending, Max({1, Len(pending) - MaxPending + 1}), Len(pending)), dto)

\* Batcher::push
Push(pending, dto) ==
  Append(SubSeq(pending, Max({1, Len(pending) - MaxPending + 2}), Len(pending)), dto)

\* Mutant: the sessions that are over stay in the map.
RetainAll(after) == after

\* flush_all visits the sinks, then retain drops those ended and empty.  A
\* sink with nothing pending has nothing due.
Retain(after) ==
  [s \in Sessions |-> IF after[s].ended /\ after[s].pending = <<>> THEN NoSink ELSE after[s]]
Visits(after) ==
  LET left == {s \in Sessions : after[s].pending # <<>>}
  IN /\ todo' = left
     /\ IF left = {} THEN pc' = "recv" /\ sinks' = Retain(after)
                     ELSE pc' = "flush" /\ sinks' = after
Visited(s, after) ==
  /\ todo' = todo \ {s}
  /\ IF todo = {s} THEN pc' = "recv" /\ sinks' = Retain(after)
                   ELSE pc' = "flush" /\ sinks' = after

Recv ==
  /\ Working("recv")
  /\ channel # <<>>
  /\ LET s == Head(channel).session
         dto == Head(channel).dto
         kept == Push(sinks[s].pending, dto)
     IN \/ /\ dto.kind = "session"
           /\ Visits([sinks EXCEPT ![s].there = TRUE])
           /\ UNCHANGED <<counted, nowhere>>
        \/ /\ dto.kind # "session" /\ sinks[s].there
           /\ Visits([sinks EXCEPT ![s].ended = @ \/ dto.kind = "session_ended",
                                   ![s].pending = kept])
           /\ Counts(s, Len(sinks[s].pending) + 1 - Len(kept))
           /\ UNCHANGED nowhere
        \/ /\ dto.kind # "session" /\ ~sinks[s].there
           /\ nowhere' = [nowhere EXCEPT ![s] = @ + 1]
           /\ Visits(sinks)
           /\ UNCHANGED counted
  /\ channel' = Tail(channel)
  /\ UNCHANGED <<token, hand, waiting>>

RecvTimeout ==
  /\ Working("recv")
  /\ channel = <<>>
  /\ Visits(sinks)
  /\ UNCHANGED <<channel, token, counted, hand, waiting, nowhere>>

\* maybe_register mints a feed when there is none.  It runs after recv, which
\* does not read the token.
Register ==
  /\ Working("recv")
  /\ enabled
  /\ ~token
  /\ token' = TRUE
  /\ UNCHANGED <<channel, counted, worker>>

\* Batcher::ready_count: a batch stops before a sync it would not hold.
ReadyCount(pending) ==
  LET limit == Min({Len(pending), MaxBatch})
      starts == {i \in 1 .. limit : pending[i].kind = "sync_started"}
      ends == {i \in Min(starts) .. Len(pending) : pending[i].kind = "session_synced"}
  IN IF starts = {} \/ (ends # {} /\ Min(ends) <= limit) THEN limit ELSE Min(starts) - 1
Batch(pending) == SubSeq(pending, 1, ReadyCount(pending))
Rest(pending) == SubSeq(pending, ReadyCount(pending) + 1, Len(pending))
\* Mutant: a batch that failed goes to the back of the buffer.
RestoreAtBack(pending, batch) == pending \o batch
\* Batcher::restore
Restore(pending, batch) == batch \o pending

\* take_batch finds nothing, or nothing that is due; age is left open.
FlushNothing(s) ==
  /\ Working("flush")
  /\ s \in todo
  /\ LET pending == sinks[s].pending
     IN \/ waiting
        \/ ReadyCount(pending) = 0
        \/ /\ Len(pending) < MaxBatch
           /\ \A i \in DOMAIN pending : pending[i].kind # "session_synced"
  /\ Visited(s, sinks)
  /\ UNCHANGED <<channel, token, counted, hand, waiting, nowhere>>

\* flush: the batch is dropped while sharing is off, kept while there is no
\* token, and sent otherwise.
FlushBatch(s) ==
  /\ Working("flush")
  /\ s \in todo
  /\ ~waiting
  /\ ReadyCount(sinks[s].pending) > 0
  /\ LET batch == Batch(sinks[s].pending)
         taken == [sinks EXCEPT ![s].pending = Rest(@)]
     IN \/ /\ ~enabled
           /\ Counts(s, Len(batch))
           /\ Visited(s, taken)
           /\ UNCHANGED <<hand, waiting>>
        \/ /\ enabled /\ ~token
           /\ Visited(s, [taken EXCEPT ![s].pending = Restore(@, batch)])
           /\ waiting' = TRUE
           /\ UNCHANGED <<counted, hand>>
        \/ /\ enabled /\ token
           /\ sinks' = taken
           /\ hand' = [session |-> s, events |-> batch]
           /\ pc' = "post"
           /\ UNCHANGED <<counted, todo, waiting>>
  /\ UNCHANGED <<channel, token, nowhere>>

Answered(after) ==
  /\ Working("post")
  /\ Visited(hand.session, after)
  /\ hand' = NoBatch
  /\ UNCHANGED <<channel, nowhere>>

PostAccepted ==
  /\ Answered(sinks)
  /\ Counts(hand.session, Len(hand.events))
  /\ waiting' = FALSE
  /\ UNCHANGED token

\* Retryable, whether or not the service got the batch; and Unauthorized,
\* which forgets the feed.
PostDeferred ==
  /\ pc = "post"
  /\ Answered([sinks EXCEPT ![hand.session].pending = Restore(@, hand.events)])
  /\ waiting' = TRUE
  /\ token' \in {token, FALSE}
  /\ UNCHANGED counted

\* Rejected and Fatal, a bad endpoint among them.
PostRejected ==
  /\ Answered(sinks)
  /\ Counts(hand.session, Len(hand.events))
  /\ UNCHANGED <<token, waiting>>

\* The taps are gone and the application has dropped its Publisher.
RecvDisconnected ==
  /\ Working("recv")
  /\ channel = <<>>
  /\ \A s \in Sessions : life[s] # "up" /\ outbox[s] = <<>>
  /\ pc' = "shutdown"
  /\ UNCHANGED <<channel, token, counted, sinks, todo, hand, waiting, nowhere>>

\* shutdown_flush_all: a batch goes, or all that is left of the sink is
\* dropped, with the feed if the service refused its token.
ShutdownSends(s) ==
  /\ Working("shutdown")
  /\ enabled /\ token
  /\ ReadyCount(sinks[s].pending) > 0
  /\ Counts(s, ReadyCount(sinks[s].pending))
  /\ sinks' = [sinks EXCEPT ![s].pending = Rest(@)]
  /\ UNCHANGED <<channel, token, pc, todo, hand, waiting, nowhere>>

ShutdownDrops(s) ==
  /\ Working("shutdown")
  /\ sinks[s].pending # <<>>
  /\ Counts(s, Len(sinks[s].pending))
  /\ sinks' = [sinks EXCEPT ![s].pending = <<>>]
  /\ \/ token' = token
     \/ enabled /\ ReadyCount(sinks[s].pending) > 0 /\ token' = FALSE
  /\ UNCHANGED <<channel, pc, todo, hand, waiting, nowhere>>

ShutdownDone ==
  /\ Working("shutdown")
  /\ \A s \in Sessions : sinks[s].pending = <<>>
  /\ pc' = "done"
  /\ UNCHANGED <<channel, token, counted, sinks, todo, hand, waiting, nowhere>>

WorkerSteps ==
  \/ Recv \/ RecvTimeout
  \/ Register
  \/ \E s \in Sessions : FlushNothing(s) \/ FlushBatch(s) \/ ShutdownSends(s) \/ ShutdownDrops(s)
  \/ PostAccepted \/ PostDeferred \/ PostRejected
  \/ ShutdownDone

-----------------------------------------------------------------------------
\* next_attempt comes.
ClockPasses ==
  /\ waiting
  /\ waiting' = FALSE
  /\ UNCHANGED <<connection, tap, outbox, channel, enabled, token, counted,
                 pc, sinks, todo, hand, nowhere, toggles>>

\* The user flips the master switch.
Toggle ==
  /\ toggles < MaxToggles
  /\ toggles' = toggles + 1
  /\ enabled' = ~enabled
  /\ UNCHANGED <<connection, tap, outbox, channel, token, counted, worker>>

Next ==
  \/ \E s \in Sessions :
       \/ BeginSession(s) \/ ObserveJoined(s) \/ ObserveChat(s) \/ ObserveRoster(s)
       \/ ObserveLeft(s) \/ ObserveRemoved(s) \/ RejectChannel(s) \/ Maintain(s) \/ EndSession(s)
       \/ TapCalls(s)
  \/ WorkerSteps
  \/ RecvDisconnected
  \/ ClockPasses
  \/ Toggle

Spec == Init /\ [][Next]_vars

\* The threads run (nobody has to quit), time passes, and the network is not down for good: a
\* feed that is asked for again and again is minted, and a batch that is
\* sent again and again is taken.
Fairness ==
  /\ \A s \in Sessions : WF_vars(TapCalls(s))
  /\ WF_vars(WorkerSteps)
  /\ WF_vars(ClockPasses)
  /\ SF_vars(Register)
  /\ \A s \in Sessions : SF_vars(FlushBatch(s))
  /\ SF_vars(PostAccepted)
FairSpec == Spec /\ Fairness

-----------------------------------------------------------------------------
(* Properties.                                                             *)

\* What the uplink thread has of a session's events, from the oldest to the
\* newest, and the places of the channel that hold the ones still to come.
Held(s) == (IF hand.session = s THEN hand.events ELSE <<>>) \o sinks[s].pending
InChannel(s) == {i \in DOMAIN channel : channel[i].session = s /\ channel[i].dto.kind # "session"}

(* Restoring a batch, dropping the oldest and taking a batch keep the order *)
(* by which the service tells a repetition: a session's numbers rise from  *)
(* the batch in flight to the buffer and to the channel, below the tap's   *)
(* next one.                                                               *)
InOrder ==
  \A s \in Sessions :
    LET held == Held(s)
        number(i) == channel[i].dto.seq
    IN /\ \A i, j \in DOMAIN held : i < j => held[i].seq < held[j].seq
       /\ \A i, j \in InChannel(s) : i < j => number(i) < number(j)
       /\ \A i \in DOMAIN held, j \in InChannel(s) : held[i].seq < number(j)
       /\ \A i \in DOMAIN held : held[i].seq < tap[s].next_seq
       /\ \A i \in InChannel(s) : number(i) < tap[s].next_seq

(* No loss goes uncounted: an event that a tap numbered is under way, was  *)
(* acknowledged, is among the dropped ones that the settings show, or came *)
(* to a sink that was not there, which the code counts nowhere; and this   *)
(* of each session.  The dropped ones include calls given up before their  *)
(* event had a number (announce_session), so the bound may leave room.     *)
NoLossUncounted ==
  \A s \in Sessions :
    tap[s].next_seq - 1
      <= counted[s] + nowhere[s] + Len(Held(s)) + Cardinality(InChannel(s))

\* A batch holds the sync of all channels, which ready_count does not ask
\* for: it holds since a connection has at most CHANNEL_INDEX_COUNT = 7 of
\* them (native/protocol.rs:61-62), the keys of the projector, and 7 + 2 <= 64.
SyncFits == Cardinality(Channels) + 2 <= MaxBatch

(* "dropping it keeps the map bounded": where a batch holds a whole sync,  *)
(* and unless the channel overflowed, the sink of a session that is over   *)
(* goes in the end, or the thread ends.                                    *)
SinksGo ==
  SyncFits =>
  \/ <>(\E s \in Sessions : tap[s].pending_dropped > 0)
  \/ \A s \in Sessions : <>[](life[s] = "over" => ~sinks[s].there \/ pc = "done")

(* "Live came back on: re-announce": once the uplink thread has taken all  *)
(* that a sharing tap has sent, there is a sink for what it sends next.    *)
(* Does not hold: a sink pruned while Live was off is not announced again. *)
LiveComesBack ==
  \A s \in Sessions :
    /\ life[s] = "up" /\ outbox[s] = <<>>
    /\ tap[s].announced /\ ~tap[s].ended
    /\ \A i \in DOMAIN channel : channel[i].session # s
    => sinks[s].there
=============================================================================
