---------------------------- MODULE Sc2Channels ----------------------------
(***************************************************************************)
(* StarCraft II's channels from the tab strip to the service and back.     *)
(* Three parties hold a view of the same channels:                         *)
(*  - the application: its tabs, the joins it waits for, the rosters it    *)
(*    has not drawn yet, and the warning dialog;                           *)
(*  - the worker: LiveChat with its channel slots, the joins it has asked  *)
(*    for and the echoes it expects (core/.../chat/session.rs), driven by  *)
(*    run_live (core/src/session/worker.rs);                               *)
(*  - the service: which room each channel index of this connection stands *)
(*    for, and who else is there.                                          *)
(* The application and the worker talk over two queues (cmds, events);     *)
(* the worker's requests travel in `wire`. What the service sends reaches  *)
(* LiveChat in the step that sends it.                                     *)
(*                                                                         *)
(* Left out: parties, whispers, friends, clubs and presence; the order of  *)
(* a roster; which tab is in front (a line is typed into any joined tab);  *)
(* and the other products, but for what they do to StarCraft II's dialogs: *)
(* there is one warning for all, drawn over whichever is in front.         *)
(***************************************************************************)
EXTENDS Integers, Sequences, SequencesExt, FiniteSetsExt

CONSTANTS Channels,     \* what can be joined
          Public,       \* those whose join reply names the channel
          General,      \* DEFAULT_PUBLIC_CHANNEL
          Indices,      \* channel indices of a connection (u8)
          MaxJoined,    \* MAX_JOINED_CHANNELS
          MaxEchoes,    \* the lines of one's own whose echo is expected (32)
          MaxPresses,   \* bound: what the user does
          MaxLines,     \* bound: lines typed
          MaxNews,      \* bound: what others do at the service
          MaxReconnects \* bound: connections after the first

NoChannel == "no channel"

ASSUME ChannelsAssumption ==
  /\ General \in Public /\ Public \subseteq Channels /\ NoChannel \notin Channels
  /\ Indices \subseteq Nat \ {0} /\ Indices # {} /\ IsFiniteSet(Indices)
  /\ {MaxJoined, MaxEchoes, MaxPresses, MaxLines, MaxNews, MaxReconnects} \subseteq Nat

People == {"me", "peer"}

VARIABLES
  tabs,            \* ChannelComponent::tabs; channel_index 0 is None
  awaiting_joins,  \* JoinComponent::awaiting_joins
  pending_rosters, \* RosterComponent::pending_rosters
  warning,         \* WarningComponent::warning_dialog
  tab_close,       \* ChannelComponent::tab_close: a position, 0 is None
  connecting,      \* the connection dialog: "no", "yes", or "failed"
  cmds, events,    \* the worker's two queues
  live,            \* the worker is in run_live
  joining,         \* the channels a connection coming up is to join
  channels,        \* LiveChat::channels
  pending_joins,   \* LiveChat::pending_joins
  echoes,          \* LiveChat::pending_local_echoes, which is in the order of the lines
  last_token,      \* tokens are random in the code, and new for each join
  wire,            \* requests on their way to the service
  room,            \* the service: what an index stands for
  owed,            \* the service: indices whose first roster is still to come
  present,         \* the service: channels the other user is in
  typed,           \* history: the tab each line was typed into
  heard,           \* history: the room each line was delivered to
  lines,           \* history: the tabs each line was shown in
  wanted,          \* history: the channels a reconnect is to bring back
  slips,           \* history: see the section on slips
  dropped,         \* history: the service or the network ended the connection
  presses, news, reconnects

appVars == <<tabs, awaiting_joins, pending_rosters, warning, tab_close, connecting>>
chatVars == <<live, joining, channels, pending_joins, echoes, last_token>>
serviceVars == <<wire, room, owed, present>>
history == <<typed, heard, lines, wanted, slips, dropped>>
bounds == <<presses, news, reconnects>>
vars == <<appVars, cmds, events, chatVars, serviceVars, history, bounds>>

-----------------------------------------------------------------------------
(* Shapes. *)

Tab(c, i) == [channel |-> c, channel_index |-> i, users |-> {}, complete |-> FALSE]
pending_live(c) == Tab(c, 0)
Absent == [there |-> FALSE, channel |-> NoChannel, mine |-> FALSE,
           roster |-> {}, complete |-> FALSE]
NoRoster == [there |-> FALSE, users |-> {}, complete |-> FALSE]
NoWarning == [kind |-> "none", close_tab |-> 0]

Event(type, i, c, users, complete, line) ==
  [type |-> type, channel_index |-> i, channel |-> c, users |-> users,
   complete |-> complete, line |-> line]
Joined(i, c) == Event("Joined", i, c, {}, FALSE, 0)
JoinRejected(c) == Event("JoinRejected", 0, c, {}, FALSE, 0)
Removed(i) == Event("Removed", i, NoChannel, {}, FALSE, 0)
Message(i, n) == Event("Message", i, NoChannel, {}, FALSE, n)
Roster(i, entry) == Event("Roster", i, NoChannel, entry.roster, entry.complete, 0)
Stage(s) == Event(s, 0, NoChannel, {}, FALSE, 0)

Request(type, c, i, k) == [type |-> type, channel |-> c, channel_index |-> i, key |-> k]
Connect(cs) == [type |-> "Connect", channels |-> cs]

Emit(es) == events' = events \o es

(* The tab an event of index i goes to: the first one with that index. *)
Position(i) == SelectInSeq(tabs, LAMBDA t : t.channel_index = i)
TabOf(c) == SelectInSeq(tabs, LAMBDA t : t.channel = c)

(* Everybody in the room of channel c while this connection is in it. *)
Members(c) == {"me"} \union IF c \in present THEN {"peer"} ELSE {}

-----------------------------------------------------------------------------
(***************************************************************************)
(* Slips. The ways in which the three views can part for good, each named  *)
(* where it happens; the properties say that there are no others.          *)
(*   "replaced"  a dialog that was to close a tab, or to offer RECONNECT,  *)
(*               is replaced by another dialog, or goes while another      *)
(*               product is in front                                       *)
(*   "shifted"   a close animation or a dialog holds a position in the tab *)
(*               strip, and a tab before it goes or is carried past it, or *)
(*               its own channel is joined again, before it goes or in     *)
(*               what is under way                                         *)
(*   "unclaimed" a join is accepted after its request was given up, and    *)
(*               the reply does not name the channel, or its token         *)
(*   "shared"    the service gives out an index again, which a tab, or a   *)
(*               request or event under way, uses for the room before      *)
(*   "forgotten" RECONNECT is pressed when the channels of the connection  *)
(*               before are not all back, or are more than MAX_JOINED      *)
(*   "unnamed"   a refusal comes after its request was given up, or is     *)
(*               taken for the refusal of another request                  *)
(*   "unready"   a line is sent before the first roster of its channel     *)
(*   "ambiguous" a reply without a token fits two requests                 *)
(*   "late echo" an echo is given up, after ten seconds or because of      *)
(*               MaxEchoes later ones                                      *)
(*   "delisted"  the first channel of a connection is a public one that    *)
(*               the catalogue has no more, and General is joined instead  *)
(***************************************************************************)
Slip(name, happened) == IF happened THEN {name} ELSE {}

Uses(q, i) == q.type # "Connect" /\ q.channel_index = i
Shares(c, i) == Slip("shared",
  \/ \E p \in DOMAIN tabs : tabs[p].channel_index = i /\ tabs[p].channel # c
  \/ \E k \in DOMAIN cmds : Uses(cmds[k], i)
  \/ \E k \in DOMAIN wire : Uses(wire[k], i)
  \/ \E k \in DOMAIN events : Uses(events[k], i))
Replaces == Slip("replaced", warning.kind = "disconnected" \/ warning.close_tab # 0)

-----------------------------------------------------------------------------
(* The application. *)

show_channel_warning(close_tab) ==
  warning' = [kind |-> "channel", close_tab |-> close_tab]

(* A tab goes without a word to the worker; the last one leaves General    *)
(* behind, which nothing joins.                                            *)
WithoutTab(p) ==
  LET rest == RemoveAt(tabs, p)
  IN IF rest = <<>> THEN <<pending_live(General)>> ELSE rest

(* Mutant: the tab of a refused join stays. *)
RejectKeepingTab(c) ==
  /\ awaiting_joins' = awaiting_joins \ {c} /\ wanted' = wanted \ {c}
  /\ show_channel_warning(0)
  /\ slips' = slips \union Replaces
  /\ UNCHANGED tabs

(* Only a tab that has no index goes; one that has keeps it. *)
reject_pending_join(c) ==
  LET p == SelectInSeq(tabs, LAMBDA t : t.channel = c /\ t.channel_index = 0)
  IN /\ awaiting_joins' = awaiting_joins \ {c} /\ wanted' = wanted \ {c}
     /\ show_channel_warning(0)
     /\ tabs' = IF p = 0 THEN tabs ELSE WithoutTab(p)
     /\ slips' = slips \union Replaces
          \union Slip("shifted", p # 0 /\ tab_close >= p)

(* The overlays swallow the mouse and the keyboard. *)
CanPress ==
  /\ warning = NoWarning /\ connecting = "no"
  /\ presses < MaxPresses /\ presses' = presses + 1

join_channel_target(c) ==
  /\ CanPress
  /\ TabOf(c) = 0
  /\ \/ /\ Len(tabs) >= MaxJoined
        /\ show_channel_warning(0)
        /\ UNCHANGED <<tabs, awaiting_joins, cmds>>
     \/ /\ Len(tabs) < MaxJoined
        /\ tabs' = Append(tabs, pending_live(c))
        /\ awaiting_joins' = awaiting_joins \union {c}
        /\ cmds' = Append(cmds, Request("Join", c, 0, 0))
        /\ UNCHANGED warning
  /\ UNCHANGED <<pending_rosters, tab_close, connecting, events, chatVars,
                 serviceVars, history, news, reconnects>>

begin_tab_close(p) ==
  /\ CanPress
  /\ tab_close = 0 /\ tab_close' = p
  /\ UNCHANGED <<tabs, awaiting_joins, pending_rosters, warning, connecting, cmds,
                 events, chatVars, serviceVars, history, news, reconnects>>

(* The animation is over. A tab that was never joined goes quietly. *)
finish_tab_close ==
  /\ tab_close # 0 /\ tab_close' = 0
  /\ IF tab_close > Len(tabs)
     THEN UNCHANGED <<tabs, cmds, wanted, slips>>
     ELSE LET i == tabs[tab_close].channel_index
          IN /\ tabs' = RemoveAt(tabs, tab_close)
             /\ wanted' = wanted \ {tabs[tab_close].channel}
             /\ cmds' = IF i = 0 THEN cmds
                        ELSE Append(cmds, Request("Leave", NoChannel, i, 0))
             /\ slips' = slips \union Slip("shifted",
                  \/ warning.close_tab >= tab_close
                  \/ \E k \in DOMAIN events :
                       events[k].type = "Joined" /\ events[k].channel_index = i)
  /\ UNCHANGED <<awaiting_joins, pending_rosters, warning, connecting, events,
                 chatVars, serviceVars, typed, heard, lines, dropped, bounds>>

(* Mutant: the line goes out under the index of the first tab. *)
SendMessageFirst(p) ==
  /\ CanPress
  /\ Len(typed) < MaxLines
  /\ tabs[p].channel_index # 0 /\ tabs[1].channel_index # 0
  /\ typed' = Append(typed, tabs[p].channel)
  /\ heard' = Append(heard, NoChannel)
  /\ lines' = Append(lines, <<>>)
  /\ cmds' = Append(cmds, Request("Say", NoChannel, tabs[1].channel_index, Len(typed) + 1))
  /\ UNCHANGED <<appVars, events, chatVars, serviceVars, wanted, slips, dropped, news,
                 reconnects>>

send_message(p) ==
  /\ CanPress
  /\ Len(typed) < MaxLines
  /\ tabs[p].channel_index # 0
  /\ typed' = Append(typed, tabs[p].channel)
  /\ heard' = Append(heard, NoChannel)
  /\ lines' = Append(lines, <<>>)
  /\ cmds' = Append(cmds, Request("Say", NoChannel, tabs[p].channel_index, Len(typed) + 1))
  /\ UNCHANGED <<appVars, events, chatVars, serviceVars, wanted, slips, dropped, news,
                 reconnects>>

(* CLOSE and the end of its animation, with StarCraft II in front. *)
begin_warning_close ==
  /\ warning.kind = "channel"
  /\ warning' = NoWarning
  /\ LET p == warning.close_tab
     IN IF p \in DOMAIN tabs
        THEN /\ tabs' = WithoutTab(p) /\ wanted' = wanted \ {tabs[p].channel}
             /\ slips' = slips \union Slip("shifted", tab_close >= p)
        ELSE UNCHANGED <<tabs, wanted, slips>>
  /\ UNCHANGED <<awaiting_joins, pending_rosters, tab_close, connecting, cmds, events,
                 chatVars, serviceVars, typed, heard, lines, dropped, bounds>>

(* The dialog goes without a word to StarCraft II's session: it is closed, *)
(* or RECONNECT is pressed, with another product in front, or another      *)
(* product's Connected closes it.                                          *)
WarningGoesElsewhere ==
  /\ warning.kind # "none"
  /\ warning' = NoWarning
  /\ slips' = slips \union Replaces
  /\ UNCHANGED <<tabs, awaiting_joins, pending_rosters, tab_close, connecting, cmds, events,
                 chatVars, serviceVars, typed, heard, lines, wanted, dropped, bounds>>

(* The tab that is at position p once one was carried from `from` to `to`. *)
Carried(p, from, to) ==
  CASE p = to -> from
    [] from <= p /\ p < to -> p + 1
    [] to < p /\ p <= from -> p - 1
    [] OTHER -> p

(* A tab is dropped. No drag begins during a close animation, which ends   *)
(* the one that has begun; a dialog may open during a drag.                *)
finish_tab_drag(from, to) ==
  /\ presses < MaxPresses /\ presses' = presses + 1
  /\ tab_close = 0 /\ from # to
  /\ tabs' = [p \in DOMAIN tabs |-> tabs[Carried(p, from, to)]]
  /\ slips' = slips \union Slip("shifted",
       warning.close_tab # 0 /\ Carried(warning.close_tab, from, to) # warning.close_tab)
  /\ UNCHANGED <<awaiting_joins, pending_rosters, warning, tab_close, connecting, cmds, events,
                 chatVars, serviceVars, typed, heard, lines, wanted, dropped, news, reconnects>>

(* RECONNECT, and the retry of a connection that did not come up: the tabs *)
(* say what is to be joined. Both reach this worker with StarCraft II in   *)
(* front only, where a close animation that was held up runs on and is     *)
(* over in 150 milliseconds: before a person can answer a dialog.          *)
reconnect ==
  LET open == [p \in DOMAIN tabs |-> tabs[p].channel]
  IN /\ warning.kind = "disconnected" \/ connecting = "failed"
     /\ tab_close = 0
     /\ reconnects < MaxReconnects /\ reconnects' = reconnects + 1
     /\ warning' = IF warning.kind = "disconnected" THEN NoWarning ELSE warning
     /\ connecting' = "yes"
     /\ cmds' = Append(cmds, Connect(open))
     /\ wanted' = wanted \union ToSet(open)
     /\ slips' = slips \union Slip("forgotten",
          ~(wanted \subseteq ToSet(open)) \/ Len(open) > MaxJoined)
  /\ UNCHANGED <<tabs, awaiting_joins, pending_rosters, tab_close, events, chatVars,
                 serviceVars, typed, heard, lines, dropped, presses, news>>

(* JOIN_TIMEOUT has passed since the press. *)
expire_awaited_joins ==
  \E c \in awaiting_joins :
    /\ reject_pending_join(c)
    /\ UNCHANGED <<pending_rosters, tab_close, connecting, cmds, events, chatVars,
                   serviceVars, typed, heard, lines, dropped, bounds>>

apply_roster_snapshot(t, i) ==
  [t EXCEPT !.users = pending_rosters[i].users,
            !.complete = pending_rosters[i].complete]

(* The debounce is over: every snapshot goes to the first tab of its index. *)
flush_rosters ==
  /\ \E i \in Indices : pending_rosters[i].there
  /\ tabs' = [p \in DOMAIN tabs |->
                LET i == tabs[p].channel_index
                IN IF i # 0 /\ Position(i) = p /\ pending_rosters[i].there
                   THEN apply_roster_snapshot(tabs[p], i) ELSE tabs[p]]
  /\ pending_rosters' = [i \in Indices |-> NoRoster]
  /\ UNCHANGED <<awaiting_joins, warning, tab_close, connecting, cmds, events, chatVars,
                 serviceVars, history, bounds>>

-----------------------------------------------------------------------------
(* handle_live_chat, one event at a time. *)

OnJoined(e) ==
  LET c == e.channel  p == TabOf(c)  i == e.channel_index
  IN /\ awaiting_joins' = awaiting_joins \ {c}
     /\ tabs' = IF p = 0 THEN Append(tabs, Tab(c, i))
                ELSE [tabs EXCEPT ![p].channel_index = i]
     /\ UNCHANGED <<pending_rosters, warning, connecting, lines, wanted>>
     /\ slips' = slips \union Slip("shifted", p # 0 /\ warning.close_tab = p)

OnJoinRejected(e) ==
  /\ reject_pending_join(e.channel)
  /\ UNCHANGED <<pending_rosters, connecting, lines>>

OnRoster(e) ==
  /\ pending_rosters' = [pending_rosters EXCEPT ![e.channel_index] =
       [there |-> TRUE, users |-> e.users, complete |-> e.complete]]
  /\ UNCHANGED <<tabs, awaiting_joins, warning, connecting, lines, wanted, slips>>

OnRemoved(e) ==
  LET p == Position(e.channel_index)
  IN /\ IF p = 0 THEN UNCHANGED <<warning, slips>>
        ELSE /\ show_channel_warning(p)
             /\ slips' = slips \union Replaces
     /\ UNCHANGED <<tabs, awaiting_joins, pending_rosters, connecting, lines, wanted>>

OnMessage(e) ==
  LET p == Position(e.channel_index)
  IN /\ lines' = IF p = 0 THEN lines
                 ELSE [lines EXCEPT ![e.line] = Append(@, tabs[p].channel)]
     /\ UNCHANGED <<tabs, awaiting_joins, pending_rosters, warning, connecting, wanted, slips>>

(* The first stage of a connection empties the tab strip and opens the     *)
(* connection dialog; Connected closes every dialog. An error after it     *)
(* opens the disconnect warning, in place of whatever dialog was there; an *)
(* error before it stays in the connection dialog.                         *)
OnStage(e) ==
  /\ CASE e.type = "WebAuthentication" ->
            /\ tabs' = <<>> /\ connecting' = "yes"
            /\ UNCHANGED <<warning, slips>>
       [] e.type = "Connected" ->
            /\ connecting' = "no" /\ warning' = NoWarning
            /\ UNCHANGED <<tabs, slips>>
       [] e.type = "Error" /\ (connecting = "no" \/ warning.kind = "disconnected") ->
            /\ warning' = [kind |-> "disconnected", close_tab |-> 0]
            /\ slips' = slips \union Replaces
            /\ UNCHANGED <<tabs, connecting>>
       [] OTHER ->
            /\ connecting' = "failed"
            /\ UNCHANGED <<tabs, warning, slips>>
  /\ UNCHANGED <<awaiting_joins, pending_rosters, lines, wanted>>

handle_client_event ==
  /\ events # <<>>
  /\ events' = Tail(events)
  /\ LET e == Head(events)
     IN CASE e.type = "Joined" -> OnJoined(e)
          [] e.type = "JoinRejected" -> OnJoinRejected(e)
          [] e.type = "Roster" -> OnRoster(e)
          [] e.type = "Removed" -> OnRemoved(e)
          [] e.type = "Message" -> OnMessage(e)
          [] OTHER -> OnStage(e)
  /\ UNCHANGED <<tab_close, cmds, chatVars, serviceVars, typed, heard, dropped, bounds>>

-----------------------------------------------------------------------------
(* The worker: commands. *)

(* An error leaves run_live: the connection is closed. *)
Ends ==
  /\ live' = FALSE
  /\ channels' = [i \in Indices |-> Absent]
  /\ pending_joins' = {} /\ echoes' = {} /\ last_token' = 0
  /\ wire' = <<>>
  /\ room' = [i \in Indices |-> NoChannel] /\ owed' = {}
  /\ Emit(<<Stage("Error")>>)
  /\ UNCHANGED <<joining, present>>

(* JOIN_ANSWER_WINDOW: the joins asked for longest ago are given up first. *)
expire_pending_joins(cut) == {j \in pending_joins : j.token > cut}

ChatJoin(c) ==
  /\ \E cut \in 0..last_token :
       pending_joins' = expire_pending_joins(cut)
                          \union {[token |-> last_token + 1, channel |-> c]}
  /\ last_token' = last_token + 1
  /\ wire' = Append(wire, Request("Join", c, 0, last_token + 1))
  /\ UNCHANGED <<events, live, joining, channels, echoes, room, owed, present, slips>>

leave_channel(i) ==
  IF channels[i].there
  THEN /\ wire' = Append(wire, Request("Leave", NoChannel, i, 0))
       /\ channels' = [channels EXCEPT ![i] = Absent]
       /\ echoes' = {e \in echoes : e.channel_index # i}
       /\ UNCHANGED <<events, live, joining, pending_joins, last_token, room, owed, present,
                      slips>>
  ELSE Ends /\ UNCHANGED slips

(* Mutant: the echo is not expected. *)
ChatSayNoEcho(i, n) ==
  IF channels[i].there /\ channels[i].complete /\ channels[i].mine
  THEN /\ wire' = Append(wire, Request("Say", NoChannel, i, n))
       /\ Emit(<<Message(i, n)>>)
       /\ UNCHANGED <<live, joining, channels, pending_joins, echoes, last_token, room,
                      owed, present, slips>>
  ELSE /\ Ends
       /\ slips' = slips \union Slip("unready", channels[i].there /\ ~channels[i].complete)

(* The queue is cut from the front. *)
NewestEchoes(sent) ==
  {e \in sent : Cardinality({f \in sent : f.line >= e.line}) <= MaxEchoes}

ChatSay(i, n) ==
  IF channels[i].there /\ channels[i].complete /\ channels[i].mine
  THEN /\ wire' = Append(wire, Request("Say", NoChannel, i, n))
       /\ Emit(<<Message(i, n)>>)
       /\ LET sent == echoes \union {[channel_index |-> i, line |-> n]}
          IN /\ echoes' = NewestEchoes(sent)
             /\ slips' = slips \union Slip("late echo", echoes' # sent)
       /\ UNCHANGED <<live, joining, channels, pending_joins, last_token, room, owed, present>>
  ELSE /\ Ends
       /\ slips' = slips \union Slip("unready", channels[i].there /\ ~channels[i].complete)

(* The loop over the commands. *)
run_live ==
  /\ live /\ cmds # <<>>
  /\ cmds' = Tail(cmds)
  /\ LET c == Head(cmds)
     IN \/ c.type = "Join" /\ ChatJoin(c.channel)
        \/ c.type = "Leave" /\ leave_channel(c.channel_index)
        \/ c.type = "Say" /\ ChatSay(c.channel_index, c.key)
  /\ UNCHANGED <<appVars, typed, heard, lines, wanted, dropped, bounds>>

Idle == ~live /\ joining = <<>> /\ cmds # <<>>

(* run_worker between two connections knows none of the chat commands. *)
IdleIgnores ==
  /\ Idle /\ Head(cmds).type # "Connect"
  /\ cmds' = Tail(cmds)
  /\ UNCHANGED <<appVars, events, chatVars, serviceVars, history, bounds>>

(* Mutant: only the channel in front is joined again. *)
NormalizedFirst(cs) == IF cs = <<>> THEN <<General>> ELSE <<Head(cs)>>

normalized_channels(cs) ==
  IF cs = <<>> THEN <<General>> ELSE SubSeq(cs, 1, Min({Len(cs), MaxJoined}))

Begin ==
  /\ Idle /\ Head(cmds).type = "Connect"
  /\ cmds' = Tail(cmds)
  /\ joining' = normalized_channels(Head(cmds).channels)
  /\ Emit(<<Stage("WebAuthentication")>>)
  /\ UNCHANGED <<appVars, live, channels, pending_joins, echoes, last_token, serviceVars,
                 history, bounds>>

(* Any of the layers below the chat can fail. *)
EstablishFails ==
  /\ joining # <<>> /\ joining' = <<>>
  /\ Emit(<<Stage("Error")>>)
  /\ UNCHANGED <<appVars, cmds, live, channels, pending_joins, echoes, last_token,
                 serviceVars, history, bounds>>

(* A public channel may be in the catalogue no more. *)
Listed(c) == {c} \union IF c \in Public THEN {General} ELSE {}

(* LiveChat::establish waits for its first channel and that channel's      *)
(* roster, and falls back to General; connect_once asks for the others.    *)
Establish ==
  /\ joining # <<>> /\ joining' = <<>>
  /\ LET others == Tail(joining)
         token(k) == last_token + k
     IN \E asked \in Listed(Head(joining)), i \in Indices :
        \E refused \in {FALSE} \union {asked # General} :
          LET first == IF refused THEN General ELSE asked
              entry == [there |-> TRUE, channel |-> first, mine |-> TRUE,
                        roster |-> Members(first), complete |-> TRUE]
          IN /\ live' = TRUE
             /\ dropped' = FALSE
             /\ channels' = [channels EXCEPT ![i] = entry]
             /\ room' = [room EXCEPT ![i] = first]
             /\ pending_joins' = {[token |-> token(k), channel |-> others[k]] :
                                    k \in DOMAIN others}
             /\ wire' = [k \in DOMAIN others |-> Request("Join", others[k], 0, token(k))]
             /\ last_token' = last_token + Len(others)
             /\ Emit((IF refused THEN <<JoinRejected(asked)>> ELSE <<>>)
                      \o <<Joined(i, first), Roster(i, entry), Stage("Connected")>>)
             /\ slips' = slips \union Slip("delisted", asked # Head(joining))
  /\ UNCHANGED <<appVars, cmds, echoes, owed, present, typed, heard, lines, wanted, bounds>>

-----------------------------------------------------------------------------
(* The worker: what LiveChat::receive does with a record. *)

(* The request a reply belongs to: by its token, or without one by the     *)
(* kind of channel that it names.                                          *)
take_requested_join(live_joins, token, kind) ==
  IF token # 0 THEN {j \in live_joins : j.token = token}
  ELSE {j \in live_joins : j.channel \in kind}

(* "omitted the join token for multiple matching requests": an error. *)
Ambiguous(cut, token, kind) ==
  /\ Cardinality(take_requested_join(expire_pending_joins(cut), token, kind)) > 1
  /\ Ends
  /\ slips' = slips \union {"ambiguous"}

ReceiveRejection(cut, token, kind, refused) ==
  LET left == expire_pending_joins(cut)
      found == take_requested_join(left, token, kind)
      c == IF found = {} THEN NoChannel ELSE (CHOOSE j \in found : TRUE).channel
  IN /\ Cardinality(found) <= 1
     /\ pending_joins' = left \ found
     /\ Emit(<<JoinRejected(c)>>)
     /\ slips' = slips \union Slip("unnamed", c # refused)
     /\ UNCHANGED <<live, joining, channels, echoes, last_token>>

(* Mutant: one's own identity in the channel is not kept. *)
BeginJoinNameless(i, c) ==
  channels' = [channels EXCEPT ![i] =
    [there |-> TRUE, channel |-> c, mine |-> FALSE, roster |-> {}, complete |-> FALSE]]

begin_join(i, c) ==
  channels' = [channels EXCEPT ![i] =
    [there |-> TRUE, channel |-> c, mine |-> TRUE, roster |-> {}, complete |-> FALSE]]

(* The service has let us into c under index i. *)
ReceiveJoin(cut, token, kind, c, i) ==
  LET left == expire_pending_joins(cut)
      found == take_requested_join(left, token, kind)
      joined == IF found # {} THEN (CHOOSE j \in found : TRUE).channel
                ELSE IF c \in Public THEN c
                ELSE channels[i].channel
  IN /\ Cardinality(found) <= 1
     /\ pending_joins' = left \ found
     /\ IF joined # NoChannel
        THEN begin_join(i, joined) /\ Emit(<<Joined(i, joined)>>)
        ELSE /\ channels' = [channels EXCEPT ![i].there = TRUE, ![i].mine = TRUE]
             /\ UNCHANGED events
     /\ slips' = slips \union Shares(c, i) \union Slip("unclaimed", joined # c /\ (token = 0 \/ found = {}))
     /\ UNCHANGED <<live, joining, echoes, last_token>>

(* A membership record opens a slot that is not there. *)
apply_membership(i, roster, end) ==
  [channels[i] EXCEPT !.there = TRUE, !.roster = roster,
                      !.complete = @ \/ end]

ReceiveMembership(i, roster, end, mine_left) ==
  LET entry == apply_membership(i, roster, end)
  IN /\ channels' = [channels EXCEPT ![i] = entry]
     /\ Emit((IF mine_left /\ channels[i].mine /\ channels[i].complete
              THEN <<Removed(i)>> ELSE <<>>) \o <<Roster(i, entry)>>)
     /\ UNCHANGED <<live, joining, pending_joins, echoes, last_token>>

(* consume_local_echo: the line was shown when it was sent. Those sent up  *)
(* to line `late` are more than ten seconds old.                           *)
ReceiveMessage(i, n, late) ==
  LET kept == {e \in echoes : e.line > late}
      echo == [channel_index |-> i, line |-> n]
  IN /\ echoes' = kept \ {echo}
     /\ Emit(IF echo \in kept THEN <<>> ELSE <<Message(i, n)>>)
     /\ slips' = slips \union Slip("late echo", kept # echoes)
     /\ UNCHANGED <<live, joining, channels, pending_joins, last_token>>

-----------------------------------------------------------------------------
(* The service. *)

InRoom(c) == \E i \in Indices : room[i] = c

(* It answers with the token of the request or without one. *)
Tokens(q) == {q.key, 0}
Kind(c) == IF c \in Public THEN Public ELSE Channels \ Public
Named(c) == IF c \in Public THEN {c} ELSE Channels \ Public

Refuse(cut, token, c) ==
  \/ Ambiguous(cut, token, Kind(c))
  \/ /\ ReceiveRejection(cut, token, Kind(c), c)
     /\ wire' = Tail(wire)
     /\ UNCHANGED <<room, owed, present>>

Accept(cut, token, c, i) ==
  /\ ~InRoom(c) /\ room[i] = NoChannel
  /\ \/ Ambiguous(cut, token, Named(c))
     \/ /\ ReceiveJoin(cut, token, Named(c), c, i)
        /\ wire' = Tail(wire)
        /\ room' = [room EXCEPT ![i] = c]
        /\ owed' = owed \union {i}
        /\ UNCHANGED present

AnswerJoin ==
  /\ wire # <<>> /\ Head(wire).type = "Join"
  /\ LET q == Head(wire)
     IN \E cut \in 0..last_token, token \in Tokens(q) :
          \/ Refuse(cut, token, q.channel)
          \/ \E i \in Indices : Accept(cut, token, q.channel, i)
  /\ UNCHANGED <<appVars, cmds, typed, heard, lines, wanted, dropped, bounds>>

FirstRoster ==
  /\ \E i \in owed :
       /\ owed' = owed \ {i}
       /\ ReceiveMembership(i, Members(room[i]), TRUE, FALSE)
  /\ UNCHANGED <<appVars, cmds, wire, room, present, history, bounds>>

(* Whether the service confirms a leave with a membership record of its    *)
(* own is not known; both are possible.                                    *)
TakeLeave ==
  /\ wire # <<>> /\ Head(wire).type = "Leave"
  /\ wire' = Tail(wire)
  /\ LET i == Head(wire).channel_index
     IN /\ room' = [room EXCEPT ![i] = NoChannel]
        /\ owed' = owed \ {i}
        /\ \/ UNCHANGED <<events, chatVars>>
           \/ /\ room[i] # NoChannel
              /\ ReceiveMembership(i, channels[i].roster \ {"me"}, FALSE, TRUE)
  /\ UNCHANGED <<appVars, cmds, present, history, bounds>>

TakeSay ==
  /\ wire # <<>> /\ Head(wire).type = "Say"
  /\ wire' = Tail(wire)
  /\ LET i == Head(wire).channel_index  n == Head(wire).key
     IN /\ heard' = [heard EXCEPT ![n] = room[i]]
        /\ IF room[i] = NoChannel
           THEN UNCHANGED <<events, chatVars, slips>>
           ELSE \E late \in 0..Len(typed) : ReceiveMessage(i, n, late)
  /\ UNCHANGED <<appVars, cmds, room, owed, present, typed, lines, wanted, dropped, bounds>>

News == live /\ news < MaxNews /\ news' = news + 1

(* The other user comes or goes; the members of the room are told. *)
PeerMoves(c) ==
  /\ News
  /\ present' = IF c \in present THEN present \ {c} ELSE present \union {c}
  /\ LET told == {i \in Indices \ owed : room[i] = c}
         roster(i) == IF c \in present THEN channels[i].roster \ {"peer"}
                      ELSE channels[i].roster \union {"peer"}
     IN IF told = {} THEN UNCHANGED <<events, chatVars>>
        ELSE \E i \in told : ReceiveMembership(i, roster(i), FALSE, FALSE)
  /\ UNCHANGED <<appVars, cmds, wire, room, owed, history, presses, reconnects>>

(* We are removed from a room. *)
Kick(i) ==
  /\ News
  /\ room[i] # NoChannel /\ i \notin owed
  /\ room' = [room EXCEPT ![i] = NoChannel]
  /\ ReceiveMembership(i, channels[i].roster \ {"me"}, FALSE, TRUE)
  /\ UNCHANGED <<appVars, cmds, wire, owed, present, history, presses, reconnects>>

Lose ==
  /\ live
  /\ Ends
  /\ dropped' = TRUE
  /\ UNCHANGED <<appVars, cmds, typed, heard, lines, wanted, slips, bounds>>

-----------------------------------------------------------------------------
(* Connected to General alone, the roster drawn. *)
Init ==
  /\ present = {General}
  /\ LET i == CHOOSE i \in Indices : TRUE
     IN /\ tabs = <<[Tab(General, i) EXCEPT !.users = Members(General), !.complete = TRUE]>>
        /\ channels = [[j \in Indices |-> Absent] EXCEPT ![i] =
             [there |-> TRUE, channel |-> General, mine |-> TRUE,
              roster |-> Members(General), complete |-> TRUE]]
        /\ room = [[j \in Indices |-> NoChannel] EXCEPT ![i] = General]
  /\ awaiting_joins = {} /\ pending_rosters = [i \in Indices |-> NoRoster]
  /\ warning = NoWarning /\ tab_close = 0 /\ connecting = "no"
  /\ cmds = <<>> /\ events = <<>> /\ wire = <<>> /\ owed = {}
  /\ live = TRUE /\ joining = <<>> /\ pending_joins = {} /\ echoes = {} /\ last_token = 0
  /\ typed = <<>> /\ heard = <<>> /\ lines = <<>>
  /\ wanted = {} /\ slips = {}
  /\ presses = 0 /\ news = 0 /\ reconnects = 0 /\ dropped = FALSE

User ==
  \/ \E c \in Channels : join_channel_target(c)
  \/ \E p \in DOMAIN tabs : begin_tab_close(p)
  \/ \E p \in DOMAIN tabs : send_message(p)
  \/ begin_warning_close
  \/ WarningGoesElsewhere
  \/ \E from, to \in DOMAIN tabs : finish_tab_drag(from, to)
  \/ reconnect

App == finish_tab_close \/ expire_awaited_joins \/ flush_rosters \/ handle_client_event

Worker == run_live \/ IdleIgnores \/ Begin \/ Establish \/ EstablishFails

Service ==
  \/ AnswerJoin \/ FirstRoster \/ TakeLeave \/ TakeSay
  \/ \E c \in Channels : PeerMoves(c)
  \/ \E i \in Indices : Kick(i)
  \/ Lose

Next == User \/ App \/ Worker \/ Service

Spec == Init /\ [][Next]_vars
-----------------------------------------------------------------------------
(* The types; the tab strip has one tab for a channel.                     *)
TypeOK ==
  /\ tabs \in Seq([channel : Channels, channel_index : Indices \union {0},
                    users : SUBSET People, complete : BOOLEAN])
  /\ \A p, q \in DOMAIN tabs : tabs[p].channel = tabs[q].channel => p = q
  /\ awaiting_joins \subseteq Channels
  /\ pending_rosters \in [Indices -> [there : BOOLEAN, users : SUBSET People,
                                      complete : BOOLEAN]]
  /\ warning \in [kind : {"none", "channel", "disconnected"}, close_tab : Nat]
  /\ tab_close \in Nat /\ connecting \in {"no", "yes", "failed"} /\ live \in BOOLEAN
  /\ channels \in [Indices -> [there : BOOLEAN, channel : Channels \union {NoChannel},
                               mine : BOOLEAN, roster : SUBSET People, complete : BOOLEAN]]
  /\ pending_joins \subseteq [token : 1..last_token, channel : Channels]
  /\ echoes \subseteq [channel_index : Indices, line : DOMAIN typed]
  /\ room \in [Indices -> Channels \union {NoChannel}]
  /\ owed \subseteq Indices /\ present \subseteq Channels /\ wanted \subseteq Channels

(* Nothing is under way between the three parties, and no dialog is open. *)
Quiet ==
  /\ live /\ cmds = <<>> /\ events = <<>> /\ wire = <<>> /\ owed = {}
  /\ \A i \in Indices : ~pending_rosters[i].there
  /\ warning = NoWarning /\ tab_close = 0 /\ awaiting_joins = {}

(* The three views agree: every room we are in has one tab, with its       *)
(* index and its members, and every tab with an index shows such a room;   *)
(* a tab without one is the General that a last tab leaves behind.         *)
TabsAgree ==
  Quiet /\ slips \intersect {"replaced", "shifted", "unclaimed", "shared"} = {} =>
    /\ \A i \in Indices : room[i] # NoChannel =>
         \E p \in DOMAIN tabs :
           /\ tabs[p] = [channel |-> room[i], channel_index |-> i,
                         users |-> Members(room[i]), complete |-> TRUE]
           /\ \A q \in DOMAIN tabs \ {p} : tabs[q].channel # room[i]
    /\ \A p \in DOMAIN tabs :
         IF tabs[p].channel_index = 0 THEN tabs[p].channel = General
         ELSE room[tabs[p].channel_index] = tabs[p].channel

(* No command that the application sends ends the connection, but for a    *)
(* line typed before the first roster (unready), a command whose index has *)
(* been given out again (shared) or stands for a channel that only the     *)
(* service knows of (unclaimed), one to a tab that was taken for another   *)
(* (shifted), and a join whose answer fits two requests (ambiguous).       *)
CommandsSurvive ==
  ~live /\ ~dropped =>
    slips \intersect {"shifted", "shared", "unclaimed", "unready", "ambiguous"} # {}

(* A line is heard in the room of the tab it was typed into, and nowhere   *)
(* else.                                                                   *)
SaidWhereTyped ==
  slips \intersect {"shared", "unclaimed"} = {} =>
    \A n \in DOMAIN heard : heard[n] \in {NoChannel, typed[n]}

(* A line of one's own is shown once, in the tab it was typed into,        *)
(* although the service repeats it.                                        *)
ShownOnce ==
  slips \intersect {"shared", "unclaimed", "shifted", "late echo"} = {} =>
    \A n \in DOMAIN lines : lines[n] \in {<<>>, <<typed[n]>>}

(* After a reconnect every channel that was open is back, unless its join  *)
(* was refused, or it was closed in between; or General took its place.    *)
RejoinsAll ==
  Quiet /\ slips \intersect {"forgotten", "unnamed", "unclaimed", "delisted"} = {} =>
    \A c \in wanted : TabOf(c) # 0
=============================================================================
