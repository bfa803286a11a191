--------------------------- MODULE Sc2ViewsProofs ---------------------------
(***************************************************************************)
(* The three views of a channel agree when nothing is under way.  While    *)
(* something is, a room of the service is in a tab, in a join still to be  *)
(* handled, or in a leave; a tab or a join that has no room any more will  *)
(* be told so, or its dialog is open; and the last word on a roster is     *)
(* what LiveChat holds.  That is ViewsInv, on top of IInv of               *)
(* Sc2ChannelsProofs: Shore (what it takes of the rest of the state),      *)
(* Dialogs, Rooms and Rosters.                                             *)
(*                                                                         *)
(* A step is reduced to what it says of the rooms: nothing new (NoNews),   *)
(* tabs kept (TabsBack, TabsForth), a room as it was at the worker and the *)
(* service (Unmoved), the last words kept (WordsKept).                     *)
(***************************************************************************)
EXTENDS Sc2ChannelsProofs

\* Until one of the slips that TabsAgree excepts.
Agreed == slips \cap {"replaced", "shifted", "unclaimed", "shared"} = {}
JoinedAs(e, i) == e.type = "Joined" /\ e.channel_index = i
JoinedTo(e, c) == e.type = "Joined" /\ e.channel = c
RosterOf(e, i) == e.type = "Roster" /\ e.channel_index = i
RemovedFrom(e, i) == e.type = "Removed" /\ e.channel_index = i

\* A room on its way out,
Leaves(q, i) == \E k \in DOMAIN q : q[k].type = "Leave" /\ q[k].channel_index = i
Leaving(i) == Leaves(cmds, i) \/ Leaves(wire, i)
\* on its way in: in the last join of its channel,
Comes(i, c) ==
  \E k \in DOMAIN events :
    /\ JoinedAs(events[k], i) /\ JoinedTo(events[k], c)
    /\ \A l \in DOMAIN events : l > k => ~JoinedTo(events[l], c)
\* or in a tab that is not to be closed.
Unjoined(c) == \A k \in DOMAIN events : ~JoinedTo(events[k], c)
Stands(i, c) ==
  \E p \in DOMAIN tabs : tabs[p].channel = c /\ tabs[p].channel_index = i /\ warning.close_tab # p
Shown(i, c) == ~Has(events, "WebAuthentication") /\ Unjoined(c) /\ Stands(i, c)

\* A room is on its way out, on its way in, or in its tab.
RoomsShown ==
  \A i \in Indices : room[i] # NoChannel => Leaving(i) \/ Comes(i, room[i]) \/ Shown(i, room[i])
RemovalAfter(k, i) == \E l \in DOMAIN events : l > k /\ RemovedFrom(events[l], i)
RemovalComes(i) == \E k \in DOMAIN events : RemovedFrom(events[k], i)
\* A tab with an index has its room, or its removal comes, or its dialog is open.
TabsStand ==
  ~Has(events, "WebAuthentication") =>
    \A p \in DOMAIN tabs : tabs[p].channel_index # 0 =>
      \/ room[tabs[p].channel_index] = tabs[p].channel
      \/ RemovalComes(tabs[p].channel_index)
      \/ warning.close_tab = p
\* A join has its room, or its removal comes after it.
JoinsStand ==
  \A k \in DOMAIN events : events[k].type = "Joined" =>
    \/ room[events[k].channel_index] = events[k].channel
    \/ RemovalAfter(k, events[k].channel_index)
\* What has reached the wire on its way out is in no tab and in no join.
LetGo(i) ==
  /\ \A p \in DOMAIN tabs : tabs[p].channel_index # i
  /\ \A l \in DOMAIN events : ~JoinedAs(events[l], i)
WireLeft == \A i \in Indices : Leaves(wire, i) => LetGo(i)
Rooms == RoomsShown /\ TabsStand /\ JoinsStand /\ WireLeft

\* What LiveChat holds of a room, and the last word on its roster.
SlotsFit ==
  \A i \in Indices : room[i] # NoChannel /\ ~Leaves(wire, i) =>
    /\ channels[i].mine
    /\ i \notin owed => channels[i].complete /\ channels[i].roster = Members(room[i])
Full(x, u) == x.users = u /\ x.complete
Reported(i, u) ==
  \E k \in DOMAIN events :
    /\ RosterOf(events[k], i) /\ Full(events[k], u)
    /\ \A l \in DOMAIN events : l > k => ~RosterOf(events[l], i) /\ ~JoinedAs(events[l], i)
Drawn(i, u) ==
  /\ ~Has(events, "WebAuthentication")
  /\ \A l \in DOMAIN events : ~RosterOf(events[l], i) /\ ~JoinedAs(events[l], i)
  /\ IF pending_rosters[i].there THEN Full(pending_rosters[i], u)
     ELSE \A p \in DOMAIN tabs : tabs[p].channel_index = i => Full(tabs[p], u)
\* The last word is the room's, in the queue, in the debounce or in the tab.
RostersFit ==
  \A i \in Indices : room[i] # NoChannel /\ i \notin owed /\ ~Leaves(wire, i) =>
    Reported(i, Members(room[i])) \/ Drawn(i, Members(room[i]))
Rosters == SlotsFit /\ RostersFit

\* A tab without an index is waiting, or the General that the last tab leaves behind.
Waits ==
  \A p \in DOMAIN tabs : tabs[p].channel_index = 0 => tabs[p].channel \in awaiting_joins \cup {General}
\* The tabs of a connection, and its removals, come after the stage that ends its dialog.
UpBefore ==
  /\ live => connecting = "no" \/ Has(events, "Connected")
  /\ \A k \in DOMAIN events : events[k].type = "Removed" =>
       connecting = "no" \/ \E l \in DOMAIN events : l < k /\ events[l].type = "Connected"
RoomsDiffer == \A i, j \in Indices : room[i] = room[j] /\ room[i] # NoChannel => i = j
RoomsEmpty == ~live => \A i \in Indices : room[i] = NoChannel
Shore == Waits /\ UpBefore /\ RoomsDiffer /\ RoomsEmpty

\* A dialog that is to close a tab has one to close, and a removal means a room we are not in.
Warned ==
  warning.close_tab # 0 =>
    warning.kind = "channel" /\ connecting = "no" /\ warning.close_tab \in DOMAIN tabs
RemovedGone == \A i \in Indices : RemovalComes(i) => room[i] = NoChannel
Dialogs == Warned /\ RemovedGone

ViewsInv == Shore /\ (Agreed => Dialogs) /\ (live /\ Agreed => Rooms /\ Rosters)

-----------------------------------------------------------------------------
(* Events that tell of no join and no connection.                          *)

\* What is said of the rooms is still said.
NoNews ==
  /\ \A i, c : Comes(i, c) => Comes(i, c)'
  /\ \A c : Unjoined(c) => Unjoined(c)'
  /\ Has(events', "WebAuthentication") = Has(events, "WebAuthentication")
  /\ \A i : RemovalComes(i) => RemovalComes(i)'
  /\ \A k \in DOMAIN events' : events'[k].type = "Joined" =>
       \E l \in DOMAIN events :
         events[l] = events'[k] /\ \A i : RemovalAfter(l, i) => RemovalAfter(k, i)'

\* The events are the same.
LEMMA SameNews ==
  ASSUME events' = events
  PROVE  NoNews
  BY DEF NoNews, Comes, Unjoined, Has, RemovalComes, RemovalAfter

\* Events that are emitted come after all others.
LEMMA LaterNews ==
  ASSUME events \in Seq(Events), NEW es \in Seq(Events), events' = events \o es,
         \A k \in DOMAIN es : es[k].type \notin {"Joined", "WebAuthentication"}
  PROVE  NoNews
<1>1. /\ \A k \in DOMAIN events : k \in DOMAIN events' /\ events'[k] = events[k]
      /\ \A k \in DOMAIN events' :
           \/ k \in DOMAIN events /\ events'[k] = events[k]
           \/ events'[k].type \notin {"Joined", "WebAuthentication"}
  BY Emission
<1>2. \A i, c : Comes(i, c) => Comes(i, c)'
  <2> SUFFICES ASSUME NEW i, NEW c, NEW k \in DOMAIN events,
                      JoinedAs(events[k], i), JoinedTo(events[k], c),
                      \A l \in DOMAIN events : l > k => ~JoinedTo(events[l], c)
               PROVE  Comes(i, c)'
    BY DEF Comes
  <2>1. k \in DOMAIN events' /\ events'[k] = events[k]
    BY <1>1
  <2>2. \A l \in DOMAIN events' : l > k => ~JoinedTo(events'[l], c)
    BY <1>1 DEF JoinedTo
  <2> QED
    BY <2>1, <2>2 DEF Comes
<1>3. \A c : Unjoined(c) => Unjoined(c)'
  BY <1>1 DEF Unjoined, JoinedTo
<1>4. Has(events', "WebAuthentication") = Has(events, "WebAuthentication")
  BY <1>1 DEF Has
<1>5. \A i : RemovalComes(i) => RemovalComes(i)'
  BY <1>1 DEF RemovalComes
<1>6. ASSUME NEW k \in DOMAIN events', events'[k].type = "Joined"
      PROVE  \E l \in DOMAIN events :
               events[l] = events'[k] /\ \A i : RemovalAfter(l, i) => RemovalAfter(k, i)'
  <2>1. k \in DOMAIN events /\ events'[k] = events[k]
    BY <1>1, <1>6
  <2>2. \A i : RemovalAfter(k, i) => RemovalAfter(k, i)'
    BY <1>1 DEF RemovalAfter
  <2> QED
    BY <2>1, <2>2
<1> QED
  BY <1>2, <1>3, <1>4, <1>5, <1>6 DEF NoNews

\* What is left when an event is taken.
LEMMA TakenNews ==
  ASSUME events \in Seq(Events), events # <<>>, events' = Tail(events), NEW e, e = Head(events)
  PROVE  /\ \A i, c : Comes(i, c) => Comes(i, c)' \/ (JoinedAs(e, i) /\ JoinedTo(e, c) /\ Unjoined(c)')
         /\ \A c : Unjoined(c) => Unjoined(c)'
         /\ e.type # "WebAuthentication" => Has(events', "WebAuthentication") = Has(events, "WebAuthentication")
         /\ \A i : RemovalComes(i) => RemovalComes(i)' \/ RemovedFrom(e, i)
         /\ \A k \in DOMAIN events' :
              /\ k + 1 \in DOMAIN events /\ events[k + 1] = events'[k]
              /\ \A i : RemovalAfter(k + 1, i) => RemovalAfter(k, i)'
<1>1. /\ e = events[1] /\ 1 \in DOMAIN events
      /\ \A k \in DOMAIN events' : k \in Nat \ {0} /\ k + 1 \in DOMAIN events /\ events'[k] = events[k + 1]
      /\ \A k \in DOMAIN events : k # 1 =>
           k \in Nat \ {0} /\ k - 1 \in DOMAIN events' /\ events'[k - 1] = events[k]
      /\ \A k \in DOMAIN events : k \in Nat \ {0}
  BY TakenPlaces
<1>2. ASSUME NEW i, NEW c, Comes(i, c)
      PROVE  Comes(i, c)' \/ (JoinedAs(e, i) /\ JoinedTo(e, c) /\ Unjoined(c)')
  <2>1. PICK k \in DOMAIN events :
          /\ JoinedAs(events[k], i) /\ JoinedTo(events[k], c)
          /\ \A l \in DOMAIN events : l > k => ~JoinedTo(events[l], c)
    BY <1>2 DEF Comes
  <2>2. ASSUME NEW l \in DOMAIN events', l + 1 > k
        PROVE  ~JoinedTo(events'[l], c)
    BY <1>1, <2>1, <2>2
  <2>3. CASE k = 1
    <3>1. \A l \in DOMAIN events' : l + 1 > k
      BY <1>1, <2>3
    <3> QED
      BY <1>1, <2>1, <2>2, <2>3, <3>1 DEF Unjoined
  <2>4. CASE k # 1
    <3>1. k - 1 \in DOMAIN events' /\ events'[k - 1] = events[k] /\ k \in Nat
      BY <1>1, <2>4
    <3>2. \A l \in DOMAIN events' : l > k - 1 => l + 1 > k
      BY <1>1, <3>1
    <3>3. \A l \in DOMAIN events' : l > k - 1 => ~JoinedTo(events'[l], c)
      BY <2>2, <3>2
    <3> QED
      BY <2>1, <3>1, <3>3 DEF Comes
  <2> QED
    BY <2>3, <2>4
<1>3. \A c : Unjoined(c) => Unjoined(c)'
  BY <1>1 DEF Unjoined
<1>4. e.type # "WebAuthentication" => Has(events', "WebAuthentication") = Has(events, "WebAuthentication")
  <2>1. Has(events', "WebAuthentication") => Has(events, "WebAuthentication")
    BY <1>1 DEF Has
  <2>2. e.type # "WebAuthentication" /\ Has(events, "WebAuthentication") => Has(events', "WebAuthentication")
    BY <1>1 DEF Has
  <2>3. Has(events', "WebAuthentication") \in BOOLEAN /\ Has(events, "WebAuthentication") \in BOOLEAN
    BY DEF Has
  <2> QED
    BY <2>1, <2>2, <2>3
<1>5. \A i : RemovalComes(i) => RemovalComes(i)' \/ RemovedFrom(e, i)
  BY <1>1 DEF RemovalComes
<1>6. ASSUME NEW k \in DOMAIN events', NEW i, RemovalAfter(k + 1, i)
      PROVE  RemovalAfter(k, i)'
  <2>1. PICK l \in DOMAIN events : l > k + 1 /\ RemovedFrom(events[l], i)
    BY <1>6 DEF RemovalAfter
  <2>2. l - 1 \in DOMAIN events' /\ events'[l - 1] = events[l] /\ l - 1 > k
    <3>1. k \in Nat \ {0} /\ l \in Nat
      BY <1>1
    <3>2. l # 1 /\ l - 1 > k
      BY <2>1, <3>1
    <3> QED
      BY <1>1, <3>2
  <2> QED
    BY <2>1, <2>2 DEF RemovalAfter
<1> QED
  BY <1>1, <1>2, <1>3, <1>4, <1>5, <1>6

\* An event that is no join, no removal and not the first stage.
LEMMA PassedNews ==
  ASSUME events \in Seq(Events), events # <<>>, events' = Tail(events),
         Head(events).type \notin {"Joined", "Removed", "WebAuthentication"}
  PROVE  NoNews
<1> DEFINE e == Head(events)
<1>1. e.type \notin {"Joined", "Removed", "WebAuthentication"}
  OBVIOUS
<1>2. e = Head(events)
  OBVIOUS
<1> HIDE DEF e
<1>3. \A i, c : ~JoinedAs(e, i) /\ ~RemovedFrom(e, i)
  BY <1>1 DEF JoinedAs, RemovedFrom
<1> QED
  BY <1>1, <1>2, <1>3, TakenNews DEF NoNews

-----------------------------------------------------------------------------
(* What a step does to the tabs and the rooms.                             *)

\* A tab with an index was there before, and to be closed only if it was before;
TabsBack ==
  \A q \in DOMAIN tabs' : tabs'[q].channel_index # 0 =>
    \E p \in DOMAIN tabs : SameTab(q, p) /\ (warning.close_tab = p => warning'.close_tab = q)
\* and it stays, or a leave goes out for it.
TabsForth ==
  \A p \in DOMAIN tabs : tabs[p].channel_index # 0 /\ warning.close_tab # p =>
    \/ Leaves(cmds', tabs[p].channel_index)
    \/ \E q \in DOMAIN tabs' : SameTab(q, p) /\ warning'.close_tab # q
\* The last that is said of a room is that we are out of it.
LastRemoved(i) ==
  \E k \in DOMAIN events' :
    RemovedFrom(events'[k], i) /\ \A l \in DOMAIN events' : JoinedAs(events'[l], i) => l < k
\* A room of the service goes when we have left it, or we are told.
RoomsGo ==
  \A i \in Indices :
    \/ room'[i] = room[i]
    \/ room'[i] = NoChannel /\ (Leaves(wire, i) \/ LastRemoved(i))

\* All the same.
LEMMA TabsSame ==
  ASSUME UNCHANGED <<tabs, warning>>
  PROVE  TabsBack /\ TabsForth
  BY DEF TabsBack, TabsForth, SameTab

\* No tab and no join has the index of a leave that is under way.
LEMMA LeavingLetGo ==
  ASSUME IInv, Agreed, live, WireLeft, NEW i \in Indices, Leaving(i)
  PROVE  LetGo(i)
<1>1. LeftForGood
  BY DEF IInv, Held, Sound, Agreed
<1>2. CASE Leaves(cmds, i)
  BY <1>1, <1>2 DEF Leaves, LeftForGood, LetGo, JoinedAs
<1>3. CASE Leaves(wire, i)
  BY <1>3 DEF WireLeft
<1> QED
  BY <1>2, <1>3 DEF Leaving

\* What a step keeps that brings in no room.
LEMMA RoomsKept ==
  ASSUME IInv, Agreed, live, Rooms, NoNews, TabsBack, TabsForth, RoomsGo,
         \A i \in Indices : room'[i] # NoChannel /\ Leaving(i) => Leaving(i)',
         \A i \in Indices : Leaves(wire', i) => Leaving(i)
  PROVE  Rooms'
<1>1. /\ tabs \in Seq(TabSet) /\ \A p \in DOMAIN tabs : tabs[p].channel_index \in Indices \cup {0}
      /\ events \in Seq(Events) /\ 0 \notin Indices
  BY ChannelsAssumption, TabTypes DEF IInv, Types, AppType, ChatType
<1>2. RoomsShown'
  <2> SUFFICES ASSUME NEW i \in Indices, room'[i] # NoChannel
               PROVE  (Leaving(i) \/ Comes(i, room[i]) \/ Shown(i, room[i]))'
    BY DEF RoomsShown
  <2>1. PICK c : c = room[i] /\ c = room'[i]
    BY DEF RoomsGo
  <2>2. Leaving(i) \/ Comes(i, c) \/ Shown(i, c)
    BY <2>1 DEF Rooms, RoomsShown
  <2>3. Comes(i, c) => Comes(i, c)'
    BY DEF NoNews
  <2>4. Shown(i, c) => Shown(i, c)' \/ Leaving(i)'
    <3> SUFFICES ASSUME Shown(i, c) PROVE Shown(i, c)' \/ Leaving(i)'
      OBVIOUS
    <3>1. PICK p \in DOMAIN tabs : tabs[p].channel = c /\ tabs[p].channel_index = i /\ warning.close_tab # p
      BY DEF Shown, Stands
    <3>2. \/ Leaves(cmds', i)
          \/ \E q \in DOMAIN tabs' : SameTab(q, p) /\ warning'.close_tab # q
      BY <1>1, <3>1 DEF TabsForth
    <3>3. ~Has(events', "WebAuthentication") /\ Unjoined(c)'
      BY DEF Shown, NoNews
    <3> QED
      BY <3>1, <3>2, <3>3 DEF Shown, Stands, SameTab, Leaving
  <2> QED
    BY <2>1, <2>2, <2>3, <2>4
<1>3. \A i \in Indices : ~LetGo(i) => room'[i] = room[i] \/ (room'[i] = NoChannel /\ LastRemoved(i))
  BY DEF RoomsGo, Rooms, WireLeft
<1>4. TabsStand'
  <2> SUFFICES ASSUME ~Has(events', "WebAuthentication"), NEW q \in DOMAIN tabs', tabs'[q].channel_index # 0
               PROVE  \/ room'[tabs'[q].channel_index] = tabs'[q].channel
                      \/ RemovalComes(tabs[q].channel_index)'
                      \/ warning'.close_tab = q
    BY DEF TabsStand
  <2>1. PICK p \in DOMAIN tabs : SameTab(q, p) /\ (warning.close_tab = p => warning'.close_tab = q)
    BY DEF TabsBack
  <2>2. PICK i, c : i = tabs'[q].channel_index /\ c = tabs'[q].channel
    OBVIOUS
  <2>3. i = tabs[p].channel_index /\ c = tabs[p].channel /\ i \in Indices
    BY <1>1, <2>1, <2>2 DEF SameTab
  <2>4. room[i] = c \/ RemovalComes(i) \/ warning.close_tab = p
    BY <1>1, <2>3 DEF Rooms, TabsStand, NoNews
  <2>5. room[i] = c => room'[i] = c \/ RemovalComes(i)'
    <3>1. ~LetGo(i)
      BY <2>3 DEF LetGo
    <3> QED
      BY <1>3, <2>3, <3>1 DEF LastRemoved, RemovalComes
  <2>6. RemovalComes(i) => RemovalComes(i)'
    BY DEF NoNews
  <2> QED
    BY <2>1, <2>2, <2>4, <2>5, <2>6
<1>5. JoinsStand'
  <2> SUFFICES ASSUME NEW k \in DOMAIN events', events'[k].type = "Joined"
               PROVE  \/ room'[events'[k].channel_index] = events'[k].channel
                      \/ RemovalAfter(k, events[k].channel_index)'
    BY DEF JoinsStand
  <2>1. PICK l \in DOMAIN events :
          events[l] = events'[k] /\ \A i : RemovalAfter(l, i) => RemovalAfter(k, i)'
    BY DEF NoNews
  <2>2. PICK i, c : i = events'[k].channel_index /\ c = events'[k].channel
    OBVIOUS
  <2>3. i \in Indices /\ i = events[l].channel_index /\ c = events[l].channel /\ JoinedAs(events[l], i)
    <3>1. events[l] \in Events
      BY <1>1
    <3> QED
      BY <2>1, <2>2, <3>1 DEF Events, JoinedAs
  <2>4. room[i] = c \/ RemovalAfter(l, i)
    BY <2>1, <2>3 DEF Rooms, JoinsStand
  <2>5. room[i] = c => room'[i] = c \/ RemovalAfter(k, i)'
    <3>1. ~LetGo(i) /\ JoinedAs(events'[k], i)
      BY <2>1, <2>3 DEF LetGo
    <3>2. LastRemoved(i) => RemovalAfter(k, i)'
      <4> SUFFICES ASSUME NEW m \in DOMAIN events', RemovedFrom(events'[m], i), k < m
                   PROVE  m > k
        BY <3>1 DEF LastRemoved, RemovalAfter
      <4> QED
        OBVIOUS
    <3> QED
      BY <1>3, <2>3, <3>1, <3>2
  <2> QED
    BY <2>1, <2>2, <2>4, <2>5
<1>6. WireLeft'
  <2> SUFFICES ASSUME NEW i \in Indices, Leaves(wire', i)
               PROVE  LetGo(i)'
    BY DEF WireLeft
  <2>1. LetGo(i)
    BY LeavingLetGo DEF Rooms
  <2>2. \A q \in DOMAIN tabs' : tabs'[q].channel_index # i
    BY <1>1, <2>1 DEF LetGo, TabsBack, SameTab
  <2>3. \A k \in DOMAIN events' : ~JoinedAs(events'[k], i)
    BY <2>1 DEF LetGo, NoNews, JoinedAs
  <2> QED
    BY <2>2, <2>3 DEF LetGo
<1> QED
  BY <1>2, <1>4, <1>5, <1>6 DEF Rooms

\* A room that stays, with those in it.
Unmoved(i) ==
  room'[i] # NoChannel /\ ~Leaves(wire', i) =>
    /\ room'[i] = room[i] /\ ~Leaves(wire, i)
    /\ i \notin owed' => i \notin owed /\ Members(room[i])' = Members(room[i])

LEMMA UnmovedRooms ==
  ASSUME UNCHANGED <<owed, present>>,
         \A i \in Indices : room'[i] \in {room[i], NoChannel},
         \A i \in Indices : room'[i] # NoChannel /\ Leaves(wire, i) => Leaves(wire', i)
  PROVE  \A i \in Indices : Unmoved(i)
  BY DEF Unmoved, Members

\* The rosters that LiveChat holds of the rooms that stay.
LEMMA SlotsKept ==
  ASSUME SlotsFit, UNCHANGED channels, \A i \in Indices : Unmoved(i)
  PROVE  SlotsFit'
<1> SUFFICES ASSUME NEW i \in Indices, room'[i] # NoChannel, ~Leaves(wire', i)
             PROVE  /\ channels'[i].mine
                    /\ i \notin owed' => channels'[i].complete /\ channels'[i].roster = Members(room[i])'
  BY DEF SlotsFit
<1>1. /\ room'[i] = room[i] /\ ~Leaves(wire, i)
      /\ i \notin owed' => i \notin owed /\ Members(room[i])' = Members(room[i])
  BY DEF Unmoved
<1>2. /\ channels[i].mine
      /\ i \notin owed => channels[i].complete /\ channels[i].roster = Members(room[i])
  BY <1>1 DEF SlotsFit
<1> QED
  BY <1>1, <1>2

\* The last word on the roster of a room that stays.
LEMMA RostersKept ==
  ASSUME RostersFit, \A i \in Indices : Unmoved(i),
         \A i \in Indices : \A u : Reported(i, u) \/ Drawn(i, u) => Reported(i, u)' \/ Drawn(i, u)'
  PROVE  RostersFit'
<1> SUFFICES ASSUME NEW i \in Indices, room'[i] # NoChannel, i \notin owed', ~Leaves(wire', i)
             PROVE  (Reported(i, Members(room[i])) \/ Drawn(i, Members(room[i])))'
  BY DEF RostersFit
<1>1. /\ room'[i] = room[i] /\ ~Leaves(wire, i) /\ i \notin owed
      /\ Members(room[i])' = Members(room[i])
  BY DEF Unmoved
<1>2. PICK u : u = Members(room[i]) /\ u = Members(room[i])'
  BY <1>1
<1>3. Reported(i, u) \/ Drawn(i, u)
  BY <1>1, <1>2 DEF RostersFit
<1>4. Reported(i, u)' \/ Drawn(i, u)'
  BY <1>3
<1> QED
  BY <1>2, <1>4

\* Events that have no word on it.
LEMMA RosterStill ==
  ASSUME events \in Seq(Events), NEW es \in Seq(Events), events' = events \o es,
         UNCHANGED <<tabs, pending_rosters>>, NEW i, NEW u,
         \A k \in DOMAIN es : /\ es[k].type # "WebAuthentication"
                              /\ ~RosterOf(es[k], i) /\ ~JoinedAs(es[k], i),
         Reported(i, u) \/ Drawn(i, u)
  PROVE  Reported(i, u)' \/ Drawn(i, u)'
<1>1. /\ \A k \in DOMAIN events : k \in DOMAIN events' /\ events'[k] = events[k]
      /\ \A k \in DOMAIN events' :
           \/ k \in DOMAIN events /\ events'[k] = events[k]
           \/ /\ events'[k].type # "WebAuthentication"
              /\ ~RosterOf(events'[k], i) /\ ~JoinedAs(events'[k], i)
  BY Emission
<1>2. \A k \in DOMAIN events' :
        \/ k \in DOMAIN events /\ events'[k] = events[k]
        \/ ~RosterOf(events'[k], i) /\ ~JoinedAs(events'[k], i)
  BY <1>1
<1>3. Reported(i, u) => Reported(i, u)'
  <2> SUFFICES ASSUME NEW k \in DOMAIN events, RosterOf(events[k], i), Full(events[k], u),
                      \A l \in DOMAIN events : l > k => ~RosterOf(events[l], i) /\ ~JoinedAs(events[l], i)
               PROVE  Reported(i, u)'
    BY DEF Reported
  <2>1. k \in DOMAIN events' /\ events'[k] = events[k]
    BY <1>1
  <2>2. \A l \in DOMAIN events' : l > k => ~RosterOf(events'[l], i) /\ ~JoinedAs(events'[l], i)
    BY <1>2
  <2> QED
    BY <2>1, <2>2 DEF Reported
<1>4. Drawn(i, u) => Drawn(i, u)'
  <2> SUFFICES ASSUME Drawn(i, u) PROVE Drawn(i, u)'
    OBVIOUS
  <2>1. ~Has(events', "WebAuthentication")
    BY <1>1 DEF Drawn, Has
  <2>2. \A l \in DOMAIN events' : ~RosterOf(events'[l], i) /\ ~JoinedAs(events'[l], i)
    BY <1>2 DEF Drawn
  <2> QED
    BY <2>1, <2>2 DEF Drawn
<1> QED
  BY <1>3, <1>4

\* The last event tells the roster.
LEMMA RosterLast ==
  ASSUME events' \in Seq(Events), NEW i, NEW u, NEW k \in DOMAIN events', k = Len(events'),
         RosterOf(events'[k], i), Full(events'[k], u)
  PROVE  Reported(i, u)'
<1>1. \A l \in DOMAIN events' : ~(l > k)
  OBVIOUS
<1> QED
  BY <1>1 DEF Reported

-----------------------------------------------------------------------------
(* What holds whether or not the connection is up.                         *)

\* Events that follow those there are.
LEMMA UpLater ==
  ASSUME events \in Seq(Events), NEW es \in Seq(Events), events' = events \o es, UpBefore,
         connecting' = connecting, live' => live, Has(es, "Removed") => live
  PROVE  UpBefore'
<1>1. /\ \A k \in DOMAIN events : k \in DOMAIN events' /\ events'[k] = events[k]
      /\ \A k \in DOMAIN events' :
           \/ k \in DOMAIN events /\ events'[k] = events[k]
           \/ /\ k \notin DOMAIN events /\ k - Len(events) \in DOMAIN es
              /\ events'[k] = es[k - Len(events)]
      /\ Len(events) \in Nat /\ events' \in Seq(Events)
  BY Emission
<1>2. Has(events, "Connected") => Has(events', "Connected")
  BY <1>1 DEF Has
<1>3. live' => connecting' = "no" \/ Has(events', "Connected")
  BY <1>2 DEF UpBefore
<1>4. ASSUME NEW k \in DOMAIN events', events'[k].type = "Removed"
      PROVE  connecting' = "no" \/ \E l \in DOMAIN events' : l < k /\ events'[l].type = "Connected"
  <2>1. CASE k \in DOMAIN events /\ events'[k] = events[k]
    BY <1>1, <1>4, <2>1 DEF UpBefore
  <2>2. CASE /\ k \notin DOMAIN events /\ k - Len(events) \in DOMAIN es
             /\ events'[k] = es[k - Len(events)]
    <3>1. live
      BY <1>4, <2>2 DEF Has
    <3>2. connecting = "no" \/ \E l \in DOMAIN events : events[l].type = "Connected"
      BY <3>1 DEF UpBefore, Has
    <3>3. \A l \in DOMAIN events : l < k
      BY <1>1, <2>2
    <3> QED
      BY <1>1, <3>2, <3>3
  <2> QED
    BY <1>1, <2>1, <2>2
<1> QED
  BY <1>3, <1>4 DEF UpBefore

\* A step that takes no event and leaves the tabs alone, and gives out no room.
LEMMA ShoreKept ==
  ASSUME events \in Seq(Events), NEW es \in Seq(Events), events' = events \o es, Shore,
         UNCHANGED <<tabs, awaiting_joins, connecting>>, live' => live, Has(es, "Removed") => live,
         \A i \in Indices : room'[i] \in {room[i], NoChannel},
         live' = live \/ \A i \in Indices : room'[i] = NoChannel
  PROVE  Shore'
<1>1. UpBefore'
  BY UpLater DEF Shore
<1>2. Waits'
  BY DEF Shore, Waits
<1>3. RoomsDiffer' /\ RoomsEmpty'
  BY DEF Shore, RoomsDiffer, RoomsEmpty
<1> QED
  BY <1>1, <1>2, <1>3 DEF Shore

\* The connection is not up, or ends.
LEMMA DownViews ==
  ASSUME IInv, ViewsInv, ~live', slips \subseteq slips',
         UNCHANGED <<tabs, awaiting_joins, connecting, warning>>,
         NEW es \in Seq(Events), events' = events \o es, ~Has(es, "Removed"),
         \A i \in Indices : room'[i] \in {room[i], NoChannel},
         live' = live \/ \A i \in Indices : room'[i] = NoChannel
  PROVE  ViewsInv'
<1>1. events \in Seq(Events)
  BY DEF IInv, Types, ChatType
<1>2. Shore'
  BY <1>1, ShoreKept DEF ViewsInv
<1>3. ASSUME Agreed'
      PROVE  Dialogs'
  <2>1. Dialogs
    BY <1>3 DEF ViewsInv, Agreed
  <2>2. \A i : RemovalComes(i)' => RemovalComes(i)
    <3>1. \A k \in DOMAIN events' :
            \/ k \in DOMAIN events /\ events'[k] = events[k]
            \/ k - Len(events) \in DOMAIN es /\ events'[k] = es[k - Len(events)]
      BY <1>1, Emission
    <3>2. \A k \in DOMAIN es : es[k].type # "Removed"
      BY DEF Has
    <3> QED
      BY <3>1, <3>2 DEF RemovalComes, RemovedFrom
  <2>3. RemovedGone'
    BY <2>1, <2>2 DEF Dialogs, RemovedGone
  <2> QED
    BY <2>1, <2>3 DEF Dialogs, Warned
<1> QED
  BY <1>2, <1>3 DEF ViewsInv

\* A step of a connection that is up, in which nothing is joined.
LEMMA WorkViews ==
  ASSUME IInv, ViewsInv, live, live' = live, slips \subseteq slips',
         UNCHANGED <<tabs, awaiting_joins, connecting, warning>>,
         NEW es \in Seq(Events), events' = events \o es,
         \A k \in DOMAIN es : es[k].type \notin {"Joined", "WebAuthentication"},
         \A i \in Indices : RemovalComes(i)' => RemovalComes(i) \/ room'[i] = NoChannel,
         \A i \in Indices : room'[i] \in {room[i], NoChannel},
         Agreed' /\ Rooms /\ Rosters => RoomsGo,
         \A i \in Indices : room'[i] # NoChannel /\ Leaving(i) => Leaving(i)',
         \A i \in Indices : Leaves(wire', i) => Leaving(i),
         Agreed' /\ Rooms /\ Rosters => Rosters'
  PROVE  ViewsInv'
<1>1. events \in Seq(Events)
  BY DEF IInv, Types, ChatType
<1>2. Shore'
  BY <1>1, ShoreKept DEF ViewsInv
<1>3. SUFFICES ASSUME Agreed'
               PROVE  Dialogs' /\ Rooms' /\ Rosters'
  BY <1>2 DEF ViewsInv
<1>4. Agreed /\ Dialogs /\ Rooms /\ Rosters
  BY <1>3 DEF ViewsInv, Agreed
<1>5. Dialogs'
  BY <1>4 DEF Dialogs, Warned, RemovedGone
<1>6. NoNews
  BY <1>1, LaterNews
<1>7. TabsBack /\ TabsForth
  BY TabsSame
<1>8. Rooms'
  BY <1>3, <1>4, <1>6, <1>7, RoomsKept
<1> QED
  BY <1>3, <1>4, <1>5, <1>8

-----------------------------------------------------------------------------
(* The views under the steps of the worker.                                *)

\* Neither rooms nor rosters are told of.
LEMMA PlainViews ==
  ASSUME IInv, ViewsInv, live, live' = live, slips \subseteq slips',
         UNCHANGED <<tabs, awaiting_joins, connecting, warning, pending_rosters>>,
         UNCHANGED <<channels, room, owed, present>>,
         NEW es \in Seq(Events), events' = events \o es,
         \A k \in DOMAIN es : es[k].type \in {"Message", "JoinRejected"},
         \A i \in Indices : Leaving(i) => Leaving(i)',
         \A i \in Indices : Leaves(wire, i) <=> Leaves(wire', i)
  PROVE  ViewsInv'
<1>1. events \in Seq(Events)
  BY DEF IInv, Types, ChatType
<1>2. \A k \in DOMAIN es : es[k].type \notin {"Joined", "WebAuthentication", "Removed"}
  OBVIOUS
<1>3. \A i \in Indices : RemovalComes(i)' => RemovalComes(i)
  <2>1. \A k \in DOMAIN events' :
          \/ k \in DOMAIN events /\ events'[k] = events[k]
          \/ events'[k].type \notin {"Joined", "WebAuthentication", "Removed"}
    BY <1>1, <1>2, Emission
  <2> QED
    BY <2>1 DEF RemovalComes, RemovedFrom
<1>4. RoomsGo
  BY DEF RoomsGo
<1>13. \A i \in Indices : Unmoved(i)
  BY UnmovedRooms
<1>5. SlotsFit => SlotsFit'
  BY <1>13, SlotsKept
<1>6. \A i \in Indices : \A u : Reported(i, u) \/ Drawn(i, u) => Reported(i, u)' \/ Drawn(i, u)'
  <2> SUFFICES ASSUME NEW i \in Indices, NEW u, Reported(i, u) \/ Drawn(i, u)
               PROVE  Reported(i, u)' \/ Drawn(i, u)'
    OBVIOUS
  <2>1. \A k \in DOMAIN es :
          es[k].type # "WebAuthentication" /\ ~RosterOf(es[k], i) /\ ~JoinedAs(es[k], i)
    BY DEF RosterOf, JoinedAs
  <2> QED
    BY <1>1, <2>1, RosterStill
<1>7. RostersFit => RostersFit'
  BY <1>6, <1>13, RostersKept
<1>8. \A i \in Indices : Leaves(wire', i) => Leaving(i)
  BY DEF Leaving
<1>9. Rosters => Rosters'
  BY <1>5, <1>7 DEF Rosters
<1>10. \A i \in Indices : room'[i] # NoChannel /\ Leaving(i) => Leaving(i)'
  OBVIOUS
<1>11. \A k \in DOMAIN es : es[k].type \notin {"Joined", "WebAuthentication"}
  BY <1>2
<1>12. /\ \A i \in Indices : room'[i] \in {room[i], NoChannel}
       /\ \A i \in Indices : RemovalComes(i)' => RemovalComes(i) \/ room'[i] = NoChannel
  BY <1>3
<1> QED
  BY <1>4, <1>8, <1>9, <1>10, <1>11, <1>12, WorkViews

\* The connection ends.
LEMMA EndsViews ==
  ASSUME IInv, ViewsInv, Ends, slips \subseteq slips',
         UNCHANGED <<tabs, awaiting_joins, connecting, warning>>
  PROVE  ViewsInv'
<1> DEFINE es == <<Stage("Error")>>
<1>1. es \in Seq(Events) /\ ~Has(es, "Removed")
  BY EventShapes, EventFields DEF Has, StageNames
<1>2. events' = events \o es /\ ~live' /\ \A i \in Indices : room'[i] = NoChannel
  BY DEF Ends, Emit
<1> QED
  BY <1>1, <1>2, DownViews

\* A command is taken: what is left of a leave in cmds is in cmds or on the wire.
LEMMA LeavesTaken ==
  ASSUME cmds \in Seq(Requests \cup Connects), cmds # <<>>, cmds' = Tail(cmds), NEW q, q = Head(cmds),
         wire \in Seq(Requests), NEW w \in Requests, wire' = Append(wire, w), w.type = q.type,
         w.type = "Leave" => w.channel_index = q.channel_index
  PROVE  /\ \A i \in Indices : Leaving(i) => Leaving(i)'
         /\ \A i \in Indices : Leaves(wire', i) => Leaving(i)
         /\ \A i \in Indices : Leaves(wire, i) => Leaves(wire', i)
         /\ \A i \in Indices : Leaves(wire', i) => Leaves(wire, i) \/ (w.type = "Leave" /\ w.channel_index = i)
<1>1. /\ q = cmds[1] /\ 1 \in DOMAIN cmds
      /\ \A k \in DOMAIN cmds : k # 1 => k - 1 \in DOMAIN cmds' /\ cmds'[k - 1] = cmds[k]
  <2> DEFINE s == cmds
  <2>1. s \in Seq(Requests \cup Connects) /\ s # <<>>
    OBVIOUS
  <2> HIDE DEF s
  <2>2. /\ Head(s) = s[1] /\ 1 \in DOMAIN s
        /\ \A k \in DOMAIN s : k # 1 => k - 1 \in DOMAIN Tail(s) /\ Tail(s)[k - 1] = s[k]
    BY <2>1
  <2> QED
    BY <2>2 DEF s
<1>2. /\ \A k \in DOMAIN wire : k \in DOMAIN wire' /\ wire'[k] = wire[k]
      /\ \E k \in DOMAIN wire' : wire'[k] = w
      /\ \A k \in DOMAIN wire' : (k \in DOMAIN wire /\ wire'[k] = wire[k]) \/ wire'[k] = w
  OBVIOUS
<1>3. \A i : Leaves(wire, i) => Leaves(wire', i)
  BY <1>2 DEF Leaves
<1>4. \A i : w.type = "Leave" /\ w.channel_index = i => Leaves(wire', i)
  BY <1>2 DEF Leaves
<1>5. ASSUME NEW i, Leaves(cmds, i)
      PROVE  Leaves(cmds', i) \/ Leaves(wire', i)
  <2>1. PICK k \in DOMAIN cmds : cmds[k].type = "Leave" /\ cmds[k].channel_index = i
    BY <1>5 DEF Leaves
  <2>2. CASE k = 1
    BY <1>1, <1>4, <2>1, <2>2
  <2>3. CASE k # 1
    BY <1>1, <2>1, <2>3 DEF Leaves
  <2> QED
    BY <2>2, <2>3
<1>6. \A i : Leaves(wire', i) => Leaves(wire, i) \/ (w.type = "Leave" /\ w.channel_index = i)
  BY <1>2 DEF Leaves
<1>7. \A i : w.type = "Leave" /\ w.channel_index = i => Leaves(cmds, i)
  BY <1>1 DEF Leaves
<1> QED
  BY <1>3, <1>5, <1>6, <1>7 DEF Leaving

\* The worker asks for a channel.
LEMMA RunJoinViews ==
  ASSUME IInv, ViewsInv, run_live, Head(cmds).type = "Join", ChatJoin(Head(cmds).channel)
  PROVE  ViewsInv'
<1>1. /\ live /\ cmds # <<>> /\ cmds' = Tail(cmds) /\ Head(cmds) \in Requests
      /\ UNCHANGED <<appVars, typed, heard, dropped>>
      /\ events \in Seq(Events) /\ wire \in Seq(Requests) /\ Types
  BY RunLiveKeeps
<1> DEFINE w == Request("Join", Head(cmds).channel, 0, last_token + 1)
<1>2. w \in Requests /\ w.type = "Join"
  BY <1>1, RequestShapes DEF Types, ChatType
<1>3. wire' = Append(wire, w) /\ UNCHANGED <<events, live, channels, room, owed, present, slips>>
  BY DEF ChatJoin
<1> HIDE DEF w
<1>4. events' = events \o <<>> /\ <<>> \in Seq(Events) /\ DOMAIN <<>> = {}
  BY <1>1, <1>3, NoEmission
<1>5. PICK q : q = Head(cmds) /\ w.type = q.type
  BY <1>2
<1>6. /\ \A i \in Indices : Leaving(i) => Leaving(i)'
      /\ \A i \in Indices : Leaves(wire, i) <=> Leaves(wire', i)
  BY <1>1, <1>2, <1>3, <1>5, LeavesTaken DEF Types, ChatType
<1>7. UNCHANGED <<tabs, awaiting_joins, connecting, warning, pending_rosters>> /\ slips \subseteq slips'
  BY <1>1, <1>3 DEF appVars
<1>8. \A k \in DOMAIN <<>> : <<>>[k].type \in {"Message", "JoinRejected"}
  BY <1>4
<1> QED
  BY <1>1, <1>3, <1>4, <1>6, <1>7, <1>8, PlainViews

\* The worker leaves a channel.
LEMMA RunLeaveViews ==
  ASSUME IInv, ViewsInv, run_live, Head(cmds).type = "Leave", leave_channel(Head(cmds).channel_index)
  PROVE  ViewsInv'
<1>1. /\ live /\ cmds # <<>> /\ cmds' = Tail(cmds) /\ Head(cmds) \in Requests
      /\ UNCHANGED <<appVars, typed, heard, dropped>>
      /\ events \in Seq(Events) /\ wire \in Seq(Requests) /\ Types
  BY RunLiveKeeps
<1>2. UNCHANGED <<tabs, awaiting_joins, connecting, warning, pending_rosters>>
  BY <1>1 DEF appVars
<1>3. PICK i : i = Head(cmds).channel_index /\ i \in Indices
  BY <1>1, RequestShapes
<1> DEFINE w == Request("Leave", NoChannel, i, 0)
<1>4. w \in Requests /\ w.type = "Leave" /\ w.channel_index = i
  BY <1>3, RequestShapes
<1>5. CASE ~channels[i].there
  <2>1. Ends /\ slips' = slips
    BY <1>3, <1>5 DEF leave_channel
  <2> QED
    BY <1>2, <2>1, EndsViews
<1>6. CASE channels[i].there
  <2>1. /\ wire' = Append(wire, w) /\ channels' = [channels EXCEPT ![i] = Absent]
        /\ UNCHANGED <<events, live, room, owed, present, slips>>
    BY <1>3, <1>6 DEF leave_channel
  <2> HIDE DEF w
  <2>2. events' = events \o <<>> /\ <<>> \in Seq(Events) /\ DOMAIN <<>> = {}
    BY <1>1, <2>1, NoEmission
  <2>3. PICK q : q = Head(cmds) /\ w.type = q.type /\ w.channel_index = q.channel_index
    BY <1>3, <1>4
  <2>4. /\ \A j \in Indices : Leaving(j) => Leaving(j)'
        /\ \A j \in Indices : Leaves(wire', j) => Leaving(j)
        /\ \A j \in Indices : Leaves(wire, j) => Leaves(wire', j)
    BY <1>1, <1>4, <2>1, <2>3, LeavesTaken DEF Types, ChatType
  <2>5. Leaves(wire', i)
    <3>1. Len(wire) + 1 \in DOMAIN wire' /\ wire'[Len(wire) + 1] = w
      BY <1>1, <1>4, <2>1, AppendPlaces
    <3> QED
      BY <1>4, <3>1 DEF Leaves
  <2>6. \A j \in Indices : j # i => channels'[j] = channels[j]
    BY <1>1, <2>1 DEF Types, ChatType
  <2>7. Rosters => SlotsFit'
    <3> SUFFICES ASSUME SlotsFit, NEW j \in Indices, room'[j] # NoChannel, ~Leaves(wire', j)
                 PROVE  /\ channels'[j].mine
                        /\ j \notin owed' => channels'[j].complete /\ channels'[j].roster = Members(room[j])'
      BY DEF Rosters, SlotsFit
    <3>1. j # i /\ room'[j] = room[j] /\ ~Leaves(wire, j)
      BY <2>1, <2>4, <2>5
    <3>2. Members(room[j])' = Members(room[j])
      BY <2>1 DEF Members
    <3> QED
      BY <2>1, <2>6, <3>1, <3>2 DEF SlotsFit
  <2>8. Rosters => RostersFit'
    <3>1. \A j \in Indices : \A u : Reported(j, u) \/ Drawn(j, u) => Reported(j, u)' \/ Drawn(j, u)'
      BY <1>2, <2>1 DEF Reported, Drawn, Has
    <3>2. \A j \in Indices : Unmoved(j)
      BY <2>1, <2>4, UnmovedRooms
    <3>3. RostersFit => RostersFit'
      BY <3>1, <3>2, RostersKept
    <3> QED
      BY <3>3 DEF Rosters
  <2>9. Rosters => Rosters'
    BY <2>7, <2>8 DEF Rosters
  <2>10. RoomsGo
    BY <2>1 DEF RoomsGo
  <2>11. \A j \in Indices : RemovalComes(j)' => RemovalComes(j)
    BY <2>1 DEF RemovalComes
  <2>12. \A k \in DOMAIN <<>> : <<>>[k].type \notin {"Joined", "WebAuthentication"}
    BY <2>2
  <2>13. /\ slips \subseteq slips' /\ \A j \in Indices : room'[j] \in {room[j], NoChannel}
         /\ \A j \in Indices : RemovalComes(j)' => RemovalComes(j) \/ room'[j] = NoChannel
         /\ \A j \in Indices : room'[j] # NoChannel /\ Leaving(j) => Leaving(j)'
    BY <2>1, <2>4, <2>11
  <2> QED
    BY <1>1, <1>2, <2>1, <2>2, <2>4, <2>9, <2>10, <2>12, <2>13, WorkViews
<1> QED
  BY <1>5, <1>6

\* The worker sends a line.
LEMMA RunSayViews ==
  ASSUME IInv, ViewsInv, run_live, Head(cmds).type = "Say",
         ChatSay(Head(cmds).channel_index, Head(cmds).key)
  PROVE  ViewsInv'
<1>1. /\ live /\ cmds # <<>> /\ cmds' = Tail(cmds) /\ Head(cmds) \in Requests
      /\ UNCHANGED <<appVars, typed, heard, dropped>>
      /\ events \in Seq(Events) /\ wire \in Seq(Requests) /\ Types
  BY RunLiveKeeps
<1>2. UNCHANGED <<tabs, awaiting_joins, connecting, warning, pending_rosters>>
  BY <1>1 DEF appVars
<1>3. PICK i, n : i = Head(cmds).channel_index /\ i \in Indices /\ n = Head(cmds).key /\ n \in Nat
  BY <1>1, RequestShapes
<1> DEFINE w == Request("Say", NoChannel, i, n)
           e == Message(i, n)
<1>4. /\ w \in Requests /\ w.type = "Say" /\ e \in Events /\ e.type = "Message"
  BY <1>3, RequestShapes, EventShapes, EventFields
<1>5. ChatSay(i, n)
  BY <1>3
<1>6. CASE Ends
  <2>1. slips \subseteq slips'
    BY <1>5 DEF ChatSay
  <2> QED
    BY <1>2, <1>6, <2>1, EndsViews
<1>7. CASE ~Ends
  <2>1. /\ wire' = Append(wire, w) /\ events' = events \o <<e>>
        /\ UNCHANGED <<live, channels, room, owed, present>> /\ slips \subseteq slips'
    BY <1>5, <1>7 DEF ChatSay, Emit
  <2> HIDE DEF w, e
  <2>2. PICK q : q = Head(cmds) /\ w.type = q.type
    BY <1>4
  <2>3. /\ \A j \in Indices : Leaving(j) => Leaving(j)'
        /\ \A j \in Indices : Leaves(wire, j) <=> Leaves(wire', j)
    BY <1>1, <1>4, <2>1, <2>2, LeavesTaken DEF Types, ChatType
  <2>4. <<e>> \in Seq(Events) /\ \A k \in DOMAIN <<e>> : <<e>>[k].type \in {"Message", "JoinRejected"}
    BY <1>4
  <2> QED
    BY <1>1, <1>2, <2>1, <2>3, <2>4, PlainViews
<1> QED
  BY <1>6, <1>7

\* A command of a connection that is up.
LEMMA RunViews ==
  ASSUME IInv, ViewsInv, run_live
  PROVE  ViewsInv'
<1>1. \/ Head(cmds).type = "Join" /\ ChatJoin(Head(cmds).channel)
      \/ Head(cmds).type = "Leave" /\ leave_channel(Head(cmds).channel_index)
      \/ Head(cmds).type = "Say" /\ ChatSay(Head(cmds).channel_index, Head(cmds).key)
  BY DEF run_live
<1> QED
  BY <1>1, RunJoinViews, RunLeaveViews, RunSayViews

\* Between two connections nothing is told but stages.
LEMMA IdleViews ==
  ASSUME IInv, ViewsInv, IdleIgnores \/ Begin \/ EstablishFails
  PROVE  ViewsInv'
<1>1. events \in Seq(Events)
  BY DEF IInv, Types, ChatType
<1>2. /\ UNCHANGED <<tabs, awaiting_joins, connecting, warning, room, live>> /\ slips \subseteq slips'
      /\ ~live
  BY DialingEvents DEF IdleIgnores, Begin, EstablishFails, Idle, appVars, serviceVars, history, chatVars
<1>3. \E es \in Seq(Events) : events' = events \o es /\ ~Has(es, "Removed")
  <2>1. CASE events' = events
    <3>1. events' = events \o <<>> /\ <<>> \in Seq(Events) /\ ~Has(<<>>, "Removed")
      BY <1>1, <2>1, NoEmission DEF Has
    <3> QED
      BY <3>1
  <2>2. ASSUME NEW s \in {"WebAuthentication", "Error"}, events' = events \o <<Stage(s)>>
        PROVE  \E es \in Seq(Events) : events' = events \o es /\ ~Has(es, "Removed")
    <3>1. <<Stage(s)>> \in Seq(Events) /\ ~Has(<<Stage(s)>>, "Removed")
      BY EventShapes, EventFields DEF Has, StageNames
    <3> QED
      BY <2>2, <3>1
  <2> QED
    BY <2>1, <2>2 DEF IdleIgnores, Begin, EstablishFails, Emit
<1>4. \A i \in Indices : room'[i] \in {room[i], NoChannel}
  BY <1>2
<1> QED
  BY <1>2, <1>3, <1>4, DownViews

-----------------------------------------------------------------------------
(* The views under the steps of the service in which nothing is joined.    *)

\* A request is taken.
LEMMA LeavesPassed ==
  ASSUME wire \in Seq(Requests), wire # <<>>, wire' = Tail(wire), NEW q, q = Head(wire)
  PROVE  /\ \A i : Leaves(wire', i) => Leaves(wire, i)
         /\ \A i : Leaves(wire, i) => Leaves(wire', i) \/ (q.type = "Leave" /\ q.channel_index = i)
         /\ \A i : q.type = "Leave" /\ q.channel_index = i => Leaves(wire, i)
<1>1. /\ q = wire[1] /\ 1 \in DOMAIN wire
      /\ \A k \in DOMAIN wire' : k + 1 \in DOMAIN wire /\ wire'[k] = wire[k + 1]
      /\ \A k \in DOMAIN wire : k # 1 => k - 1 \in DOMAIN wire' /\ wire'[k - 1] = wire[k]
  <2> DEFINE s == wire
  <2>1. s \in Seq(Requests) /\ s # <<>>
    OBVIOUS
  <2> HIDE DEF s
  <2>2. /\ Head(s) = s[1] /\ 1 \in DOMAIN s
        /\ \A k \in DOMAIN Tail(s) : k + 1 \in DOMAIN s /\ Tail(s)[k] = s[k + 1]
        /\ \A k \in DOMAIN s : k # 1 => k - 1 \in DOMAIN Tail(s) /\ Tail(s)[k - 1] = s[k]
    BY <2>1
  <2> QED
    BY <2>2 DEF s
<1>2. ASSUME NEW i, Leaves(wire, i)
      PROVE  Leaves(wire', i) \/ (q.type = "Leave" /\ q.channel_index = i)
  <2>1. PICK k \in DOMAIN wire : wire[k].type = "Leave" /\ wire[k].channel_index = i
    BY <1>2 DEF Leaves
  <2>2. CASE k = 1
    BY <1>1, <2>1, <2>2
  <2>3. CASE k # 1
    BY <1>1, <2>1, <2>3 DEF Leaves
  <2> QED
    BY <2>2, <2>3
<1>3. \A i : Leaves(wire', i) => Leaves(wire, i)
  BY <1>1 DEF Leaves
<1>4. \A i : q.type = "Leave" /\ q.channel_index = i => Leaves(wire, i)
  BY <1>1 DEF Leaves
<1> QED
  BY <1>2, <1>3, <1>4

\* A request other than a leave is taken, and a line or a refusal told of.
LEMMA AnswerViews ==
  ASSUME IInv, ViewsInv, wire # <<>>, Head(wire).type # "Leave", wire' = Tail(wire),
         live' = live, slips \subseteq slips',
         UNCHANGED <<appVars, cmds, channels, room, owed, present>>,
         NEW es \in Seq(Events), events' = events \o es,
         \A k \in DOMAIN es : es[k].type \in {"Message", "JoinRejected"}
  PROVE  ViewsInv'
<1>1. live /\ wire \in Seq(Requests)
  BY Connected DEF IInv, Types, ServiceType
<1>2. PICK q : q = Head(wire) /\ q.type # "Leave"
  OBVIOUS
<1>3. \A i \in Indices : Leaves(wire, i) <=> Leaves(wire', i)
  BY <1>1, <1>2, LeavesPassed
<1>4. \A i \in Indices : Leaving(i) => Leaving(i)'
  BY <1>3 DEF Leaving, Leaves
<1>5. UNCHANGED <<tabs, awaiting_joins, connecting, warning, pending_rosters>>
  BY DEF appVars
<1> QED
  BY <1>1, <1>3, <1>4, <1>5, PlainViews

\* A line reaches the service, and those in the room hear it.
LEMMA TakeSayViews ==
  ASSUME IInv, ViewsInv, TakeSay
  PROVE  ViewsInv'
<1>1. PICK i, n : i = Head(wire).channel_index /\ n = Head(wire).key
  OBVIOUS
<1> DEFINE e == Message(i, n)
<1>2. /\ wire # <<>> /\ Head(wire).type = "Say" /\ wire' = Tail(wire)
      /\ UNCHANGED <<appVars, cmds, room, owed, present>>
      /\ \/ UNCHANGED <<events, chatVars, slips>>
         \/ \E late \in 0 .. Len(typed) : ReceiveMessage(i, n, late)
  BY <1>1 DEF TakeSay
<1>3. events \in Seq(Events) /\ wire \in Seq(Requests)
  BY ServiceTypes
<1>4. i \in Indices /\ n \in Nat
  <2>1. Head(wire) \in Requests
    BY <1>2, <1>3, TailPlaces
  <2> QED
    BY <1>1, <1>2, <2>1, RequestShapes
<1>5. /\ UNCHANGED <<live, channels>> /\ slips \subseteq slips'
      /\ events' = events \/ events' = events \o <<>> \/ events' = events \o <<e>>
  BY <1>2 DEF ReceiveMessage, Emit, chatVars
<1>6. e \in Events /\ e.type = "Message"
  BY <1>4, EventShapes, EventFields
<1> HIDE DEF e
<1>7. \E es \in Seq(Events) : events' = events \o es /\ \A k \in DOMAIN es : es[k].type \in {"Message", "JoinRejected"}
  <2>1. events = events \o <<>> /\ <<>> \in Seq(Events)
    BY <1>3, NoEmission
  <2>2. CASE events' = events \o <<>>
    <3>1. \A k \in DOMAIN <<>> : <<>>[k].type \in {"Message", "JoinRejected"}
      OBVIOUS
    <3> QED
      BY <2>1, <2>2, <3>1
  <2>3. CASE events' = events \o <<e>>
    <3>1. <<e>> \in Seq(Events) /\ \A k \in DOMAIN <<e>> : <<e>>[k].type \in {"Message", "JoinRejected"}
      BY <1>6
    <3> QED
      BY <2>3, <3>1
  <2> QED
    BY <1>5, <2>1, <2>2, <2>3
<1> QED
  BY <1>2, <1>5, <1>7, AnswerViews

\* A join is refused.
LEMMA RefuseViews ==
  ASSUME IInv, ViewsInv, wire # <<>>, Head(wire).type = "Join", UNCHANGED <<appVars, cmds>>,
         NEW cut, NEW token, NEW c, Refuse(cut, token, c)
  PROVE  ViewsInv'
<1>0. UNCHANGED <<tabs, awaiting_joins, connecting, warning>>
  BY DEF appVars
<1>1. CASE Ambiguous(cut, token, Kind(c))
  <2>1. Ends /\ slips \subseteq slips'
    BY <1>1 DEF Ambiguous
  <2> QED
    BY <1>0, <2>1, EndsViews
<1>2. CASE /\ ReceiveRejection(cut, token, Kind(c), c)
           /\ wire' = Tail(wire)
           /\ UNCHANGED <<room, owed, present>>
  <2> DEFINE left == expire_pending_joins(cut)
             found == take_requested_join(left, token, Kind(c))
             d == IF found = {} THEN NoChannel ELSE (CHOOSE j \in found : TRUE).channel
             e == JoinRejected(d)
  <2>1. events' = events \o <<e>> /\ slips \subseteq slips' /\ UNCHANGED <<live, channels>>
    BY <1>2 DEF ReceiveRejection, Emit
  <2>2. found # {} => (CHOOSE j \in found : TRUE).channel \in Channels
    BY ServiceTypes, RequestedJoin
  <2> HIDE DEF found
  <2>3. d \in Channels \cup {NoChannel}
    BY <2>2
  <2>4. e \in Events /\ e.type = "JoinRejected"
    BY <2>3, EventShapes, EventFields
  <2> HIDE DEF e
  <2>5. <<e>> \in Seq(Events) /\ \A k \in DOMAIN <<e>> : <<e>>[k].type \in {"Message", "JoinRejected"}
    BY <2>4
  <2>6. Head(wire).type # "Leave" /\ wire' = Tail(wire) /\ UNCHANGED <<room, owed, present>>
    BY <1>2
  <2> QED
    BY <2>1, <2>5, <2>6, AnswerViews
<1> QED
  BY <1>1, <1>2 DEF Refuse

\* What a membership record tells: the roster, after a removal of one's own.
Tells(i, roster, mine_left) ==
  \E es \in Seq(Events) :
    /\ events' = events \o es
    /\ \A k \in DOMAIN es : \/ RosterOf(es[k], i)
                            \/ RemovedFrom(es[k], i) /\ mine_left
    /\ mine_left /\ channels[i].mine /\ channels[i].complete => \E k \in DOMAIN es : RemovedFrom(es[k], i)
    /\ channels'[i].complete => Reported(i, roster)'

LEMMA RecordTold ==
  ASSUME Types, NEW i \in Indices, NEW roster \in SUBSET People, NEW end \in BOOLEAN,
         NEW mine_left \in BOOLEAN, ReceiveMembership(i, roster, end, mine_left)
  PROVE  /\ \A j \in Indices : j # i => channels'[j] = channels[j]
         /\ channels'[i].mine = channels[i].mine /\ channels'[i].roster = roster
         /\ channels'[i].complete <=> channels[i].complete \/ end
         /\ live' = live
         /\ Tells(i, roster, mine_left)
<1> DEFINE entry == apply_membership(i, roster, end)
           removed == mine_left /\ channels[i].mine /\ channels[i].complete
           a == Removed(i)
           b == Roster(i, entry)
           x == IF removed THEN <<a>> ELSE <<>>
           y == <<b>>
           es == x \o y
<1>1. channels \in [Indices -> Slots] /\ channels[i] \in Slots /\ events \in Seq(Events)
  BY DEF Types, ChatType
<1>2. /\ entry \in Slots /\ entry.mine = channels[i].mine /\ entry.roster = roster
      /\ entry.complete <=> channels[i].complete \/ end
  BY <1>1 DEF apply_membership, Slots
<1>3. channels' = [channels EXCEPT ![i] = entry] /\ events' = events \o es /\ live' = live
  BY DEF ReceiveMembership, Emit
<1>4. /\ a \in Events /\ b \in Events
      /\ RemovedFrom(a, i) /\ RosterOf(b, i) /\ b.users = roster /\ b.complete = entry.complete
  <2>1. /\ Removed(i).type = "Removed" /\ Removed(i).channel_index = i
        /\ b.type = "Roster" /\ b.channel_index = i /\ b.users = entry.roster /\ b.complete = entry.complete
    BY DEF Removed, Roster, Event
  <2> QED
    BY <1>2, <2>1, EventShapes DEF RemovedFrom, RosterOf
<1> HIDE DEF entry, a, b
<1>5. /\ \A j \in Indices : j # i => channels'[j] = channels[j]
      /\ channels'[i] = entry
  BY <1>1, <1>3
<1>6. /\ x \in Seq(Events) /\ y \in Seq(Events) /\ Len(y) = 1 /\ y[1] = b /\ DOMAIN y = {1}
      /\ \A k \in DOMAIN x : x[k] = a /\ removed
      /\ removed => 1 \in DOMAIN x /\ x[1] = a
  BY <1>4
<1> HIDE DEF x, y
<1>7. /\ es \in Seq(Events) /\ Len(es) = Len(x) + 1 /\ Len(x) \in Nat
      /\ \A k \in DOMAIN x : k \in DOMAIN es /\ es[k] = x[k]
      /\ Len(x) + 1 \in DOMAIN es /\ es[Len(x) + 1] = b
      /\ \A k \in DOMAIN es : (k \in DOMAIN x /\ es[k] = x[k]) \/ es[k] = b
  BY <1>6, ConcatPlaces
<1> HIDE DEF es
<1>8. \A k \in DOMAIN es : RosterOf(es[k], i) \/ (RemovedFrom(es[k], i) /\ mine_left)
  BY <1>4, <1>6, <1>7
<1>9. mine_left /\ channels[i].mine /\ channels[i].complete => \E k \in DOMAIN es : RemovedFrom(es[k], i)
  BY <1>4, <1>6, <1>7
<1>10. channels'[i].complete => Reported(i, roster)'
  <2>1. events' \in Seq(Events) /\ Len(events') \in DOMAIN events' /\ events'[Len(events')] = b
    <3>0. events \in Seq(Events) /\ es \in Seq(Events)
      BY <1>1, <1>7
    <3>1. /\ events \o es \in Seq(Events) /\ Len(events) \in Nat /\ Len(events \o es) = Len(events) + Len(es)
          /\ DOMAIN (events \o es) = 1 .. Len(events) + Len(es)
          /\ \A k \in 1 .. Len(es) : (events \o es)[Len(events) + k] = es[k]
      BY ONLY <3>0, ConcatPlaces
    <3>2. Len(es) \in 1 .. Len(es) /\ es[Len(es)] = b /\ Len(events) + Len(es) \in 1 .. Len(events) + Len(es)
      BY <1>7, <3>1
    <3> QED
      BY <1>3, <3>1, <3>2
  <2>2. channels'[i].complete => Full(b, roster)
    BY <1>2, <1>4, <1>5 DEF Full
  <2> QED
    BY <1>4, <2>1, <2>2, RosterLast
<1>11. Tells(i, roster, mine_left)
  BY <1>3, <1>7, <1>8, <1>9, <1>10 DEF Tells
<1> QED
  BY <1>2, <1>3, <1>5, <1>11

\* A membership record: a room goes, or its roster is what LiveChat has now.
LEMMA RecordViews ==
  ASSUME IInv, ViewsInv, live, slips \subseteq slips', UNCHANGED appVars, cmds' = cmds,
         NEW i \in Indices, NEW roster \in SUBSET People, NEW end \in BOOLEAN,
         NEW mine_left \in BOOLEAN, ReceiveMembership(i, roster, end, mine_left),
         \A j \in Indices : Leaves(wire', j) => Leaves(wire, j),
         \A j \in Indices : room'[j] # NoChannel /\ Leaves(wire, j) => Leaves(wire', j),
         \A j \in Indices : room'[j] \in {room[j], NoChannel},
         \A j \in Indices : j # i => room'[j] = room[j] /\ Unmoved(j),
         mine_left => room'[i] = NoChannel,
         Agreed /\ Rosters /\ room'[i] = NoChannel /\ room[i] # NoChannel =>
           Leaves(wire, i) \/ (mine_left /\ channels[i].mine /\ channels[i].complete),
         Agreed /\ Rosters /\ room'[i] # NoChannel /\ ~Leaves(wire', i) =>
           /\ channels[i].mine
           /\ i \notin owed' => roster = Members(room[i])' /\ (channels[i].complete \/ end)
  PROVE  ViewsInv'
<1>1. events \in Seq(Events) /\ Types
  BY DEF IInv, Types, ChatType
<1>2. PICK es \in Seq(Events) :
        /\ events' = events \o es
        /\ \A k \in DOMAIN es : \/ RosterOf(es[k], i)
                                \/ RemovedFrom(es[k], i) /\ mine_left
        /\ mine_left /\ channels[i].mine /\ channels[i].complete =>
             \E k \in DOMAIN es : RemovedFrom(es[k], i)
        /\ channels'[i].complete => Reported(i, roster)'
  <2>1. Tells(i, roster, mine_left)
    BY <1>1, RecordTold
  <2> QED
    BY <2>1 DEF Tells
<1>3. /\ \A j \in Indices : j # i => channels'[j] = channels[j]
      /\ channels'[i].mine = channels[i].mine /\ channels'[i].roster = roster
      /\ channels'[i].complete <=> channels[i].complete \/ end
      /\ live' = live
  BY <1>1, RecordTold
<1>4. /\ \A k \in DOMAIN events : k \in DOMAIN events' /\ events'[k] = events[k]
      /\ \A k \in DOMAIN es : Len(events) + k \in DOMAIN events' /\ events'[Len(events) + k] = es[k]
      /\ \A k \in DOMAIN events' :
           \/ k \in DOMAIN events /\ events'[k] = events[k]
           \/ /\ k \notin DOMAIN events /\ k - Len(events) \in DOMAIN es
              /\ events'[k] = es[k - Len(events)]
      /\ \A k \in DOMAIN events, l \in DOMAIN es : k < Len(events) + l
  <2>1. /\ \A k \in 1 .. Len(es) : (events \o es)[Len(events) + k] = es[k]
        /\ DOMAIN (events \o es) = 1 .. Len(events) + Len(es)
        /\ Len(events) \in Nat /\ Len(es) \in Nat /\ DOMAIN es = 1 .. Len(es) /\ DOMAIN events = 1 .. Len(events)
    BY <1>1, ConcatPlaces
  <2>2. \A k \in DOMAIN es : Len(events) + k \in DOMAIN events' /\ events'[Len(events) + k] = es[k]
    BY <1>2, <2>1
  <2>3. \A k \in DOMAIN events, l \in DOMAIN es : k < Len(events) + l
    BY <2>1
  <2> QED
    BY <1>1, <1>2, <2>2, <2>3, Emission
<1>5. \A k \in DOMAIN es : es[k].type \notin {"Joined", "WebAuthentication"}
  BY <1>2 DEF RosterOf, RemovedFrom
<1>6. ASSUME NEW j \in Indices, RemovalComes(j)'
      PROVE  RemovalComes(j) \/ room'[j] = NoChannel
  <2>1. PICK k \in DOMAIN events' : RemovedFrom(events'[k], j)
    BY <1>6 DEF RemovalComes
  <2>2. CASE k \in DOMAIN events /\ events'[k] = events[k]
    BY <2>1, <2>2 DEF RemovalComes
  <2>3. CASE k - Len(events) \in DOMAIN es /\ events'[k] = es[k - Len(events)]
    BY <1>2, <2>1, <2>3 DEF RosterOf, RemovedFrom
  <2> QED
    BY <1>4, <2>2, <2>3
<1>7. Agreed' /\ Rosters => RoomsGo
  <2> SUFFICES ASSUME Agreed', Rosters, NEW j \in Indices, room'[j] # room[j]
               PROVE  room'[j] = NoChannel /\ (Leaves(wire, j) \/ LastRemoved(j))
    BY DEF RoomsGo
  <2>1. j = i /\ room'[i] = NoChannel /\ room[i] # NoChannel /\ Agreed
    BY DEF Agreed
  <2>2. Leaves(wire, i) \/ (mine_left /\ channels[i].mine /\ channels[i].complete)
    BY <2>1
  <2>3. ASSUME mine_left /\ channels[i].mine /\ channels[i].complete
        PROVE  LastRemoved(i)
    <3>1. PICK k \in DOMAIN es : RemovedFrom(es[k], i)
      BY <1>2, <2>3
    <3>2. Len(events) + k \in DOMAIN events' /\ RemovedFrom(events'[Len(events) + k], i)
      BY <1>4, <3>1
    <3>3. \A l \in DOMAIN events' : JoinedAs(events'[l], i) => l < Len(events) + k
      BY <1>4, <1>5 DEF JoinedAs
    <3> QED
      BY <3>2, <3>3 DEF LastRemoved
  <2> QED
    BY <2>1, <2>2, <2>3
<1>8. Agreed' /\ Rosters => Rosters'
  <2> SUFFICES ASSUME Agreed', Rosters PROVE SlotsFit' /\ RostersFit'
    BY DEF Rosters
  <2>1. Agreed
    BY DEF Agreed
  <2>2. ASSUME room'[i] # NoChannel, ~Leaves(wire', i)
        PROVE  /\ channels[i].mine
               /\ i \notin owed' => roster = Members(room[i])' /\ (channels[i].complete \/ end)
    BY <2>1, <2>2
  <2>3. SlotsFit'
    <3> SUFFICES ASSUME NEW j \in Indices, room'[j] # NoChannel, ~Leaves(wire', j)
                 PROVE  /\ channels'[j].mine
                        /\ j \notin owed' => channels'[j].complete /\ channels'[j].roster = Members(room[j])'
      BY DEF SlotsFit
    <3>1. CASE j = i
      BY <1>3, <2>2, <3>1
    <3>2. CASE j # i
      <4>1. /\ room'[j] = room[j] /\ ~Leaves(wire, j) /\ channels'[j] = channels[j]
            /\ j \notin owed' => j \notin owed /\ Members(room[j])' = Members(room[j])
        BY <1>3, <3>2 DEF Unmoved
      <4>2. /\ channels[j].mine
            /\ j \notin owed => channels[j].complete /\ channels[j].roster = Members(room[j])
        BY <4>1 DEF Rosters, SlotsFit
      <4> QED
        BY <4>1, <4>2
    <3> QED
      BY <3>1, <3>2
  <2>4. RostersFit'
    <3> SUFFICES ASSUME NEW j \in Indices, room'[j] # NoChannel, j \notin owed', ~Leaves(wire', j)
                 PROVE  (Reported(j, Members(room[j])) \/ Drawn(j, Members(room[j])))'
      BY DEF RostersFit
    <3>1. CASE j = i
      <4>1. roster = Members(room[i])' /\ channels'[i].complete
        BY <1>3, <2>2, <3>1
      <4>2. Reported(i, roster)'
        BY <1>2, <4>1
      <4> QED
        BY <3>1, <4>1, <4>2
    <3>2. CASE j # i
      <4>1. /\ room'[j] = room[j] /\ ~Leaves(wire, j) /\ j \notin owed
            /\ Members(room[j])' = Members(room[j])
        BY <3>2 DEF Unmoved
      <4>2. PICK u : u = Members(room[j]) /\ u = Members(room[j])'
        BY <4>1
      <4>3. Reported(j, u) \/ Drawn(j, u)
        BY <4>1, <4>2 DEF Rosters, RostersFit
      <4>4. \A k \in DOMAIN es :
              es[k].type # "WebAuthentication" /\ ~RosterOf(es[k], j) /\ ~JoinedAs(es[k], j)
        BY <1>2, <1>5, <3>2 DEF RosterOf, RemovedFrom, JoinedAs
      <4>5. Reported(j, u)' \/ Drawn(j, u)'
        BY <1>1, <1>2, <4>3, <4>4, RosterStill DEF appVars
      <4> QED
        BY <4>2, <4>5
    <3> QED
      BY <3>1, <3>2
  <2> QED
    BY <2>3, <2>4
<1>9. \A j \in Indices : room'[j] # NoChannel /\ Leaving(j) => Leaving(j)'
  BY DEF Leaving
<1>10. \A j \in Indices : Leaves(wire', j) => Leaving(j)
  BY DEF Leaving
<1>11. UNCHANGED <<tabs, awaiting_joins, connecting, warning>>
  BY DEF appVars
<1> HIDE DEF ViewsInv
<1>12. Agreed' /\ Rooms /\ Rosters => RoomsGo
  BY <1>7
<1> QED
  BY <1>2, <1>3, <1>5, <1>6, <1>8, <1>9, <1>10, <1>11, <1>12, WorkViews

\* Nothing is told, and a leave that is taken is the only change of a room.
LEMMA SilentViews ==
  ASSUME IInv, ViewsInv, live, live' = live, slips \subseteq slips',
         UNCHANGED <<appVars, cmds, events, channels>>,
         \A j \in Indices : Leaves(wire', j) => Leaves(wire, j),
         \A j \in Indices : room'[j] # NoChannel /\ Leaves(wire, j) => Leaves(wire', j),
         \A j \in Indices : room'[j] = room[j] \/ (room'[j] = NoChannel /\ Leaves(wire, j)),
         \A j \in Indices : Unmoved(j)
  PROVE  ViewsInv'
<1>1. events \in Seq(Events)
  BY DEF IInv, Types, ChatType
<1>2. events' = events \o <<>> /\ <<>> \in Seq(Events)
  BY <1>1, NoEmission
<1>3. \A k \in DOMAIN <<>> : <<>>[k].type \notin {"Joined", "WebAuthentication"}
  OBVIOUS
<1>4. SlotsFit => SlotsFit'
  BY SlotsKept
<1>5. \A i \in Indices : \A u : Reported(i, u) \/ Drawn(i, u) => Reported(i, u)' \/ Drawn(i, u)'
  BY DEF Reported, Drawn, Has, appVars
<1>6. RostersFit => RostersFit'
  BY <1>5, RostersKept
<1>7. RoomsGo
  BY DEF RoomsGo
<1>8. Agreed' /\ Rooms /\ Rosters => Rosters'
  BY <1>4, <1>6 DEF Rosters
<1>9. /\ \A j \in Indices : RemovalComes(j)' => RemovalComes(j) \/ room'[j] = NoChannel
      /\ \A j \in Indices : room'[j] \in {room[j], NoChannel}
      /\ \A j \in Indices : room'[j] # NoChannel /\ Leaving(j) => Leaving(j)'
      /\ \A j \in Indices : Leaves(wire', j) => Leaving(j)
  BY DEF RemovalComes, Leaving
<1>10. UNCHANGED <<tabs, awaiting_joins, connecting, warning>>
  BY DEF appVars
<1> QED
  BY <1>2, <1>3, <1>7, <1>8, <1>9, <1>10, WorkViews

\* The first roster of a channel that was joined.
LEMMA FirstRosterViews ==
  ASSUME IInv, ViewsInv, FirstRoster
  PROVE  ViewsInv'
<1>1. PICK i \in owed : owed' = owed \ {i} /\ ReceiveMembership(i, Members(room[i]), TRUE, FALSE)
  BY DEF FirstRoster
<1>2. UNCHANGED <<appVars, cmds, wire, room, present, slips>>
  BY DEF FirstRoster, history
<1>3. live /\ i \in Indices
  BY <1>1, Connected, ServiceTypes
<1>4. PICK roster \in SUBSET People : roster = Members(room[i])
  BY MembersOfRoom
<1>5. ReceiveMembership(i, roster, TRUE, FALSE)
  BY <1>1, <1>4
<1>6. \A j \in Indices : Members(room[j])' = Members(room[j])
  BY <1>2 DEF Members
<1>7. \A j \in Indices : j # i => room'[j] = room[j] /\ Unmoved(j)
  BY <1>1, <1>2, <1>6 DEF Unmoved
<1>8. Agreed /\ Rosters /\ room'[i] # NoChannel /\ ~Leaves(wire', i) =>
        /\ channels[i].mine
        /\ i \notin owed' => roster = Members(room[i])' /\ (channels[i].complete \/ TRUE)
  BY <1>2, <1>3, <1>4, <1>6 DEF Rosters, SlotsFit
<1>9. /\ slips \subseteq slips' /\ UNCHANGED appVars /\ cmds' = cmds
      /\ \A j \in Indices : Leaves(wire', j) <=> Leaves(wire, j)
      /\ \A j \in Indices : room'[j] \in {room[j], NoChannel}
      /\ room'[i] = room[i]
  BY <1>2
<1> QED
  BY <1>3, <1>5, <1>7, <1>8, <1>9, RecordViews

\* A leave reaches the service: the index stands for nothing.
LEMMA TakeLeaveViews ==
  ASSUME IInv, ViewsInv, TakeLeave
  PROVE  ViewsInv'
<1>1. PICK i : i = Head(wire).channel_index
  OBVIOUS
<1>2. /\ wire # <<>> /\ Head(wire).type = "Leave" /\ wire' = Tail(wire)
      /\ room' = [room EXCEPT ![i] = NoChannel] /\ owed' = owed \ {i}
      /\ UNCHANGED <<appVars, cmds, present, slips>>
      /\ \/ UNCHANGED <<events, chatVars>>
         \/ ReceiveMembership(i, channels[i].roster \ {"me"}, FALSE, TRUE)
  BY <1>1 DEF TakeLeave, history
<1>3. /\ wire \in Seq(Requests) /\ room \in [Indices -> Channels \cup {NoChannel}] /\ live
      /\ \A j \in Indices : channels[j].roster \in SUBSET People
  BY <1>2, ServiceTypes, Connected
<1>4. PICK q : q = Head(wire) /\ q.type = "Leave" /\ q.channel_index = i
  BY <1>1, <1>2
<1>5. i \in Indices
  <2>1. q \in Requests
    BY <1>2, <1>3, <1>4, TailPlaces
  <2> QED
    BY <1>4, <2>1, RequestShapes
<1>6. /\ \A j : Leaves(wire', j) => Leaves(wire, j)
      /\ \A j : Leaves(wire, j) => Leaves(wire', j) \/ j = i
      /\ Leaves(wire, i)
  BY <1>2, <1>3, <1>4, LeavesPassed
<1>7. room'[i] = NoChannel /\ \A j \in Indices : j # i => room'[j] = room[j]
  BY <1>2, <1>3, <1>5
<1>8. \A j \in Indices : Unmoved(j)
  <2>1. \A j \in Indices : j # i => Members(room[j])' = Members(room[j])
    BY <1>2, <1>7 DEF Members
  <2> QED
    BY <1>2, <1>6, <1>7, <2>1 DEF Unmoved
<1>9. CASE UNCHANGED <<events, chatVars>>
  <2>1. UNCHANGED <<events, channels, live, appVars, cmds>> /\ slips \subseteq slips'
    BY <1>2, <1>9 DEF chatVars
  <2> QED
    BY <1>3, <1>6, <1>7, <1>8, <2>1, SilentViews
<1>10. CASE ReceiveMembership(i, channels[i].roster \ {"me"}, FALSE, TRUE)
  <2>1. PICK roster \in SUBSET People : roster = channels[i].roster \ {"me"}
    BY <1>3, <1>5
  <2>2. ReceiveMembership(i, roster, FALSE, TRUE)
    BY <1>10, <2>1
  <2>3. /\ slips \subseteq slips' /\ UNCHANGED appVars /\ cmds' = cmds
        /\ \A j \in Indices : Leaves(wire', j) => Leaves(wire, j)
        /\ \A j \in Indices : room'[j] # NoChannel /\ Leaves(wire, j) => Leaves(wire', j)
        /\ \A j \in Indices : room'[j] \in {room[j], NoChannel}
        /\ \A j \in Indices : j # i => room'[j] = room[j] /\ Unmoved(j)
    BY <1>2, <1>6, <1>7, <1>8
  <2> QED
    BY <1>3, <1>5, <1>6, <1>7, <2>2, <2>3, RecordViews
<1> QED
  BY <1>2, <1>9, <1>10

\* We are removed from a room: the index stands for nothing.
LEMMA KickViews ==
  ASSUME IInv, ViewsInv, NEW i \in Indices, Kick(i)
  PROVE  ViewsInv'
<1>1. /\ live /\ UNCHANGED <<appVars, cmds, wire, owed, present, slips>>
      /\ room[i] # NoChannel /\ i \notin owed /\ room' = [room EXCEPT ![i] = NoChannel]
      /\ ReceiveMembership(i, channels[i].roster \ {"me"}, FALSE, TRUE)
  BY DEF Kick, News, history
<1>2. /\ room \in [Indices -> Channels \cup {NoChannel}]
      /\ \A j \in Indices : channels[j].roster \in SUBSET People
  BY ServiceTypes
<1>3. PICK roster \in SUBSET People : roster = channels[i].roster \ {"me"}
  BY <1>2
<1>4. ReceiveMembership(i, roster, FALSE, TRUE)
  BY <1>1, <1>3
<1>5. room'[i] = NoChannel /\ \A j \in Indices : j # i => room'[j] = room[j]
  BY <1>1, <1>2
<1>6. \A j \in Indices : j # i => Unmoved(j)
  BY <1>1, <1>5 DEF Unmoved, Members
<1>7. Agreed /\ Rosters => Leaves(wire, i) \/ (channels[i].mine /\ channels[i].complete)
  BY <1>1 DEF Rosters, SlotsFit
<1>8. /\ slips \subseteq slips' /\ UNCHANGED appVars /\ cmds' = cmds
      /\ \A j \in Indices : Leaves(wire', j) <=> Leaves(wire, j)
      /\ \A j \in Indices : room'[j] \in {room[j], NoChannel}
      /\ \A j \in Indices : j # i => room'[j] = room[j] /\ Unmoved(j)
  BY <1>1, <1>5, <1>6
<1> QED
  BY <1>1, <1>4, <1>5, <1>7, <1>8, RecordViews

\* The other user comes or goes; at most one index is told.
LEMMA PeerMovesViews ==
  ASSUME IInv, ViewsInv, NEW c \in Channels, PeerMoves(c)
  PROVE  ViewsInv'
<1> DEFINE told == {i \in Indices \ owed : room[i] = c}
           moved(i) == IF c \in present THEN channels[i].roster \ {"peer"}
                       ELSE channels[i].roster \union {"peer"}
<1>1. /\ live /\ UNCHANGED <<appVars, cmds, wire, room, owed, slips>>
      /\ present' = IF c \in present THEN present \ {c} ELSE present \union {c}
      /\ IF told = {} THEN UNCHANGED <<events, chatVars>>
         ELSE \E i \in told : ReceiveMembership(i, moved(i), FALSE, FALSE)
  BY DEF PeerMoves, News, history
<1>2. /\ \A j \in Indices : channels[j].roster \in SUBSET People
      /\ c # NoChannel
  BY ServiceTypes, ChannelsAssumption
<1>3. \A j \in Indices : room[j] # c => Members(room[j])' = Members(room[j])
  BY <1>1 DEF Members
<1>4. CASE told = {}
  <2>1. \A j \in Indices : Unmoved(j)
    BY <1>1, <1>3, <1>4 DEF Unmoved
  <2>2. UNCHANGED <<events, channels, live, appVars, cmds>> /\ slips \subseteq slips'
    BY <1>1, <1>4 DEF chatVars
  <2>3. /\ \A j \in Indices : Leaves(wire', j) <=> Leaves(wire, j)
        /\ \A j \in Indices : room'[j] = room[j]
    BY <1>1
  <2> QED
    BY <1>1, <2>1, <2>2, <2>3, SilentViews
<1>5. CASE told # {}
  <2>1. PICK i \in Indices : i \notin owed /\ room[i] = c /\ ReceiveMembership(i, moved(i), FALSE, FALSE)
    BY <1>1, <1>5
  <2>2. PICK roster \in SUBSET People : roster = moved(i)
    BY <1>2 DEF People
  <2>3. ReceiveMembership(i, roster, FALSE, FALSE)
    BY <2>1, <2>2
  <2>4. \A j \in Indices : j # i => Unmoved(j)
    <3>1. \A j \in Indices : j # i => room[j] # c
      BY <1>2, <2>1 DEF ViewsInv, Shore, RoomsDiffer
    <3> QED
      BY <1>1, <1>3, <3>1 DEF Unmoved
  <2>5. channels[i].roster = Members(c) => roster = Members(room[i])'
    BY <1>1, <2>1, <2>2 DEF Members
  <2>6. Agreed /\ Rosters /\ ~Leaves(wire', i) =>
          /\ channels[i].mine
          /\ i \notin owed' => roster = Members(room[i])' /\ channels[i].complete
    BY <1>1, <1>2, <2>1, <2>5 DEF Rosters, SlotsFit
  <2>7. /\ slips \subseteq slips' /\ UNCHANGED appVars /\ cmds' = cmds
        /\ \A j \in Indices : Leaves(wire', j) <=> Leaves(wire, j)
        /\ \A j \in Indices : room'[j] \in {room[j], NoChannel}
        /\ \A j \in Indices : j # i => room'[j] = room[j] /\ Unmoved(j)
        /\ room'[i] = room[i]
    BY <1>1, <2>4
  <2> HIDE DEF told, moved
  <2> QED
    BY <1>1, <2>3, <2>6, <2>7, RecordViews
<1> QED
  BY <1>4, <1>5

\* The service or the network ends the connection.
LEMMA LoseViews ==
  ASSUME IInv, ViewsInv, Lose
  PROVE  ViewsInv'
<1>1. Ends /\ slips \subseteq slips' /\ UNCHANGED <<tabs, awaiting_joins, connecting, warning>>
  BY DEF Lose, appVars
<1> QED
  BY <1>1, EndsViews

-----------------------------------------------------------------------------
(* The views under a join that is accepted.                                *)

\* The index and the channel are new to everything that is under way.
LEMMA AdmitsViews ==
  ASSUME IInv, ViewsInv, NEW c \in Channels, NEW i \in Indices, NEW joined, NEW es,
         Admits(c, i, joined, es), joined # NoChannel => es # <<>>, Head(wire).type = "Join",
         ~InRoom(c), room[i] = NoChannel, owed' = owed \union {i}, present' = present,
         channels'[i].mine, \A j \in Indices : j # i => channels'[j] = channels[j]
  PROVE  ViewsInv'
<1>1. /\ live /\ live' = live /\ UNCHANGED <<tabs, awaiting_joins, pending_rosters, warning, connecting, cmds>>
      /\ slips \subseteq slips' /\ es \in Seq(Events) /\ events' = events \o es
      /\ \A k \in DOMAIN es : es[k].type = "Joined" /\ es[k].channel_index = i /\ es[k].channel = joined
      /\ \A k, l \in DOMAIN es : k = l
      /\ wire # <<>> /\ wire' = Tail(wire) /\ room' = [room EXCEPT ![i] = c]
  BY DEF Admits, Says, appVars
<1>2. /\ events \in Seq(Events) /\ wire \in Seq(Requests) /\ room \in [Indices -> Channels \cup {NoChannel}]
      /\ c # NoChannel
  BY ServiceTypes, ChannelsAssumption
<1>3. /\ \A k \in DOMAIN events : k \in DOMAIN events' /\ events'[k] = events[k]
      /\ \A k \in DOMAIN events' :
           \/ k \in DOMAIN events /\ events'[k] = events[k]
           \/ /\ k \notin DOMAIN events /\ k - Len(events) \in DOMAIN es
              /\ events'[k] = es[k - Len(events)]
      /\ Len(events') = Len(events) + Len(es) /\ Len(events) \in Nat /\ Len(es) \in Nat
      /\ events' \in Seq(Events)
  BY <1>1, <1>2, Emission
<1>4. room'[i] = c /\ \A j \in Indices : j # i => room'[j] = room[j] /\ room[j] # c
  BY <1>1, <1>2 DEF InRoom
<1>5. Shore'
  <2>1. ~Has(es, "Removed")
    BY <1>1 DEF Has
  <2>2. UpBefore'
    BY <1>1, <1>2, <2>1, UpLater DEF ViewsInv, Shore
  <2>3. RoomsDiffer' /\ RoomsEmpty'
    BY <1>1, <1>4 DEF ViewsInv, Shore, RoomsDiffer, RoomsEmpty
  <2>4. Waits'
    BY <1>1 DEF ViewsInv, Shore, Waits
  <2> QED
    BY <2>2, <2>3, <2>4 DEF Shore
<1>6. SUFFICES ASSUME Agreed'
               PROVE  Dialogs' /\ Rooms' /\ Rosters'
  BY <1>5 DEF ViewsInv
<1>7. Agreed /\ Dialogs /\ Rooms /\ Rosters
  BY <1>1, <1>6 DEF ViewsInv, Agreed
<1>8. /\ joined = c
      /\ \A p \in DOMAIN tabs : tabs[p].channel_index = i => tabs[p].channel = c
      /\ \A k \in DOMAIN wire : ~Uses(wire[k], i)
      /\ \A k \in DOMAIN events : ~Uses(events[k], i)
  BY <1>6 DEF Admits, Agreed
<1>9. /\ es # <<>> /\ Len(es) = 1
      /\ \A k \in DOMAIN es : JoinedAs(es[k], i) /\ JoinedTo(es[k], c)
  <2>1. es # <<>>
    BY <1>2, <1>8
  <2>2. Len(es) = 1
    <3>1. Len(es) # 0 /\ DOMAIN es = 1 .. Len(es)
      BY <1>1, <2>1
    <3>2. 1 \in DOMAIN es /\ Len(es) \in DOMAIN es
      BY <1>3, <3>1
    <3> QED
      BY <1>1, <3>2
  <2> QED
    BY <1>1, <1>8, <2>1, <2>2 DEF JoinedAs, JoinedTo
<1>10. \A k \in DOMAIN events' :
         \/ k \in DOMAIN events /\ events'[k] = events[k]
         \/ k \notin DOMAIN events /\ JoinedAs(events'[k], i) /\ JoinedTo(events'[k], c)
  BY <1>3, <1>9
<1>11. \A k \in DOMAIN events : ~JoinedAs(events[k], i) /\ ~RosterOf(events[k], i) /\ ~RemovedFrom(events[k], i)
  BY <1>8 DEF Uses, JoinedAs, RosterOf, RemovedFrom
<1>12. \A j \in Indices : Leaves(wire', j) <=> Leaves(wire, j)
  <2>1. PICK q : q = Head(wire) /\ q.type = "Join"
    OBVIOUS
  <2> QED
    BY <1>1, <1>2, <2>1, LeavesPassed
<1>13. ~Leaves(wire, i)
  BY <1>8 DEF Leaves, Uses
<1>14. \A j : RemovalComes(j)' <=> RemovalComes(j)
  BY <1>3, <1>10 DEF RemovalComes, RemovedFrom, JoinedAs
<1>15. Has(events', "WebAuthentication") <=> Has(events, "WebAuthentication")
  BY <1>3, <1>10 DEF Has, JoinedAs
<1>16. Dialogs'
  <2>1. ~RemovalComes(i)
    BY <1>11 DEF RemovalComes
  <2>2. RemovedGone'
    BY <1>4, <1>7, <1>14, <2>1 DEF Dialogs, RemovedGone
  <2> QED
    BY <1>1, <1>7, <2>2 DEF Dialogs, Warned
<1>17. RoomsShown'
  <2> SUFFICES ASSUME NEW j \in Indices, room'[j] # NoChannel
               PROVE  (Leaving(j) \/ Comes(j, room[j]) \/ Shown(j, room[j]))'
    BY DEF RoomsShown
  <2>1. CASE j = i
    <3>1. Len(events') \in DOMAIN events' /\ Len(events') \notin DOMAIN events
      BY <1>2, <1>3, <1>9
    <3>2. JoinedAs(events'[Len(events')], i) /\ JoinedTo(events'[Len(events')], c)
      BY <1>10, <3>1
    <3>3. \A l \in DOMAIN events' : ~(l > Len(events'))
      BY <1>3
    <3>4. Comes(i, c)'
      BY <3>1, <3>2, <3>3 DEF Comes
    <3> QED
      BY <1>4, <2>1, <3>4
  <2>2. CASE j # i
    <3>1. PICK d : d = room[j] /\ d = room'[j] /\ d # c /\ d # NoChannel
      BY <1>4, <2>2
    <3>2. Leaving(j) \/ Comes(j, d) \/ Shown(j, d)
      BY <1>7, <3>1 DEF Rooms, RoomsShown
    <3>3. Leaving(j) => Leaving(j)'
      BY <1>1, <1>12 DEF Leaving
    <3>4. \A l \in DOMAIN events' : JoinedTo(events'[l], d) => l \in DOMAIN events /\ events'[l] = events[l]
      BY <1>10, <3>1 DEF JoinedTo
    <3>5. Comes(j, d) => Comes(j, d)'
      <4> SUFFICES ASSUME NEW k \in DOMAIN events, JoinedAs(events[k], j), JoinedTo(events[k], d),
                          \A l \in DOMAIN events : l > k => ~JoinedTo(events[l], d)
                   PROVE  Comes(j, d)'
        BY DEF Comes
      <4>1. k \in DOMAIN events' /\ events'[k] = events[k]
        BY <1>3
      <4>2. \A l \in DOMAIN events' : l > k => ~JoinedTo(events'[l], d)
        BY <3>4
      <4> QED
        BY <4>1, <4>2 DEF Comes
    <3>6. Shown(j, d) => Shown(j, d)'
      BY <1>1, <1>15, <3>4 DEF Shown, Unjoined, Stands
    <3> QED
      BY <3>1, <3>2, <3>3, <3>5, <3>6
  <2> QED
    BY <2>1, <2>2
<1>18. TabsStand'
  <2> SUFFICES ASSUME ~Has(events', "WebAuthentication"), NEW p \in DOMAIN tabs', tabs'[p].channel_index # 0
               PROVE  \/ room'[tabs'[p].channel_index] = tabs'[p].channel
                      \/ RemovalComes(tabs[p].channel_index)'
                      \/ warning'.close_tab = p
    BY DEF TabsStand
  <2>1. p \in DOMAIN tabs /\ tabs'[p] = tabs[p] /\ warning' = warning
    BY <1>1
  <2>2. PICK j : j = tabs[p].channel_index /\ j = tabs'[p].channel_index /\ j \in Indices
    BY <2>1, TabTypes DEF IInv, Types, AppType
  <2>3. room[j] = tabs[p].channel \/ RemovalComes(j) \/ warning.close_tab = p
    BY <1>7, <1>15, <2>1, <2>2 DEF Rooms, TabsStand
  <2>4. room[j] = tabs[p].channel \/ j = i => room'[j] = tabs[p].channel
    BY <1>2, <1>4, <1>8, <2>1, <2>2
  <2> QED
    BY <1>14, <2>1, <2>2, <2>3, <2>4
<1>19. JoinsStand'
  <2> SUFFICES ASSUME NEW k \in DOMAIN events', events'[k].type = "Joined"
               PROVE  \/ room'[events'[k].channel_index] = events'[k].channel
                      \/ RemovalAfter(k, events[k].channel_index)'
    BY DEF JoinsStand
  <2>1. CASE k \in DOMAIN events /\ events'[k] = events[k]
    <3>1. PICK j : j = events[k].channel_index /\ j = events'[k].channel_index /\ j \in Indices
      <4>1. events[k] \in Events
        BY <1>2, <2>1
      <4> QED
        BY <2>1, <4>1 DEF Events
    <3>2. j # i
      BY <1>11, <2>1, <3>1 DEF JoinedAs
    <3>3. room[j] = events[k].channel \/ RemovalAfter(k, j)
      BY <1>7, <2>1, <3>1 DEF Rooms, JoinsStand
    <3>4. RemovalAfter(k, j) => RemovalAfter(k, j)'
      BY <1>3 DEF RemovalAfter
    <3> QED
      BY <1>4, <2>1, <3>1, <3>2, <3>3, <3>4
  <2>2. CASE JoinedAs(events'[k], i) /\ JoinedTo(events'[k], c)
    BY <1>4, <2>2 DEF JoinedAs, JoinedTo
  <2> QED
    BY <1>10, <2>1, <2>2
<1>20. WireLeft'
  <2> SUFFICES ASSUME NEW j \in Indices, Leaves(wire', j) PROVE LetGo(j)'
    BY DEF WireLeft
  <2>1. Leaves(wire, j) /\ j # i /\ LetGo(j)
    BY <1>7, <1>12, <1>13 DEF Rooms, WireLeft
  <2>2. \A l \in DOMAIN events' : ~JoinedAs(events'[l], j)
    BY <1>10, <2>1 DEF LetGo, JoinedAs
  <2> QED
    BY <1>1, <2>1, <2>2 DEF LetGo
<1>21. \A j \in Indices : j # i => Unmoved(j)
  BY <1>4, <1>12 DEF Unmoved, Members
<1>22. SlotsFit'
  <2> SUFFICES ASSUME NEW j \in Indices, room'[j] # NoChannel, ~Leaves(wire', j)
               PROVE  /\ channels'[j].mine
                      /\ j \notin owed' => channels'[j].complete /\ channels'[j].roster = Members(room[j])'
    BY DEF SlotsFit
  <2>1. CASE j = i
    BY <2>1
  <2>2. CASE j # i
    <3>1. /\ room'[j] = room[j] /\ ~Leaves(wire, j)
          /\ j \notin owed' => j \notin owed /\ Members(room[j])' = Members(room[j])
      BY <1>21, <2>2 DEF Unmoved
    <3>2. /\ channels[j].mine
          /\ j \notin owed => channels[j].complete /\ channels[j].roster = Members(room[j])
      BY <1>7, <3>1 DEF Rosters, SlotsFit
    <3> QED
      BY <2>2, <3>1, <3>2
  <2> QED
    BY <2>1, <2>2
<1>23. RostersFit'
  <2> SUFFICES ASSUME NEW j \in Indices, room'[j] # NoChannel, j \notin owed', ~Leaves(wire', j)
               PROVE  (Reported(j, Members(room[j])) \/ Drawn(j, Members(room[j])))'
    BY DEF RostersFit
  <2>1. /\ j # i /\ room'[j] = room[j] /\ ~Leaves(wire, j) /\ j \notin owed
        /\ Members(room[j])' = Members(room[j])
    BY <1>21 DEF Unmoved
  <2>2. PICK u : u = Members(room[j]) /\ u = Members(room[j])'
    BY <2>1
  <2>3. Reported(j, u) \/ Drawn(j, u)
    BY <1>7, <2>1, <2>2 DEF Rosters, RostersFit
  <2>4. \A k \in DOMAIN es : es[k].type # "WebAuthentication" /\ ~RosterOf(es[k], j) /\ ~JoinedAs(es[k], j)
    BY <1>9, <2>1 DEF RosterOf, JoinedAs
  <2>5. Reported(j, u)' \/ Drawn(j, u)'
    BY <1>1, <1>2, <2>3, <2>4, RosterStill
  <2> QED
    BY <2>2, <2>5
<1> QED
  BY <1>16, <1>17, <1>18, <1>19, <1>20, <1>22, <1>23 DEF Rooms, Rosters

\* The service lets us into channel c.
LEMMA AcceptViews ==
  ASSUME IInv, ViewsInv, wire # <<>>, Head(wire).type = "Join",
         UNCHANGED <<appVars, cmds, typed, heard, dropped>>,
         NEW cut, NEW token \in Tokens(Head(wire)), NEW i \in Indices,
         Accept(cut, token, Head(wire).channel, i)
  PROVE  ViewsInv'
<1>1. UNCHANGED <<tabs, awaiting_joins, connecting, warning>>
  BY DEF appVars
<1>2. PICK c : c = Head(wire).channel
  OBVIOUS
<1>3. c \in Channels
  <2>1. Head(wire) \in Requests
    BY <1>1, ServiceTypes, TailPlaces
  <2> QED
    BY <1>1, <1>2, <2>1, RequestShapes
<1>4. Accept(cut, token, c, i)
  BY <1>2
<1> DEFINE kind == Named(c)
<1>5. CASE Ambiguous(cut, token, kind)
  <2>1. Ends /\ slips \subseteq slips'
    BY <1>5 DEF Ambiguous
  <2> QED
    BY <1>1, <2>1, EndsViews
<1>6. CASE ~Ambiguous(cut, token, kind)
  <2>1. /\ ~InRoom(c) /\ room[i] = NoChannel
        /\ ReceiveJoin(cut, token, Named(c), c, i) /\ wire' = Tail(wire)
        /\ room' = [room EXCEPT ![i] = c] /\ owed' = owed \union {i} /\ present' = present
    BY <1>4, <1>6 DEF Accept
  <2>2. Lets(c, i)
    BY <1>2, <2>1, AcceptAdmits
  <2> QED
    BY <1>1, <1>2, <1>3, <2>1, <2>2, AdmitsViews DEF Lets
<1> QED
  BY <1>5, <1>6

\* A step of the service.
LEMMA ServiceViews ==
  ASSUME IInv, ViewsInv, Service
  PROVE  ViewsInv'
<1>1. ASSUME AnswerJoin PROVE ViewsInv'
  <2>1. wire # <<>> /\ Head(wire).type = "Join" /\ UNCHANGED <<appVars, cmds, typed, heard, dropped>>
    BY <1>1 DEF AnswerJoin
  <2>2. PICK cut \in 0 .. last_token, token \in Tokens(Head(wire)) :
          Refuse(cut, token, Head(wire).channel) \/ \E i \in Indices : Accept(cut, token, Head(wire).channel, i)
    BY <1>1 DEF AnswerJoin
  <2>3. CASE Refuse(cut, token, Head(wire).channel)
    <3>1. PICK c : c = Head(wire).channel
      OBVIOUS
    <3>2. Refuse(cut, token, c)
      BY <2>3, <3>1
    <3> QED
      BY <2>1, <3>2, RefuseViews
  <2>4. CASE \E i \in Indices : Accept(cut, token, Head(wire).channel, i)
    BY <2>1, <2>4, AcceptViews
  <2> QED
    BY <2>2, <2>3, <2>4
<1> QED
  BY <1>1, FirstRosterViews, TakeLeaveViews, TakeSayViews, PeerMovesViews, KickViews, LoseViews DEF Service

-----------------------------------------------------------------------------
(* The views under a connection that comes up.                             *)

\* The join, its roster and the last stage are told in this order, after all else.
Opening(es, i, c) ==
  \E n \in Nat :
    /\ Len(es) = n + 3
    /\ JoinedAs(es[n + 1], i) /\ JoinedTo(es[n + 1], c)
    /\ RosterOf(es[n + 2], i) /\ Full(es[n + 2], Members(c))
    /\ es[n + 3].type = "Connected"
    /\ \A k \in DOMAIN es : k <= n => es[k].type \in {"WebAuthentication", "JoinRejected"}

LEMMA ToldOpening ==
  ASSUME NEW s \in Seq(Events), NEW refused \in BOOLEAN, NEW head \in Channels,
         NEW i \in Indices, NEW first \in Channels,
         \A k \in DOMAIN s : s[k].type \in {"WebAuthentication", "JoinRejected"}
  PROVE  Opening(s \o Told(refused, head, i, first), i, first)
<1> DEFINE a == JoinRejected(head)
           b == Joined(i, first)
           c == Roster(i, Entered(first))
           d == Stage("Connected")
<1>1. a \in Events /\ b \in Events /\ c \in Events /\ d \in Events
  <2>1. Entered(first) \in Slots
    BY EnteredSlot
  <2> QED
    BY <2>1, EventShapes DEF StageNames
<1>2. /\ a.type = "JoinRejected" /\ JoinedAs(b, i) /\ JoinedTo(b, first)
      /\ RosterOf(c, i) /\ Full(c, Members(first)) /\ d.type = "Connected"
  BY DEF JoinRejected, Joined, Roster, Stage, Event, JoinedAs, JoinedTo, RosterOf, Full, Entered
<1>3. Told(refused, head, i, first) = (IF refused THEN <<a>> ELSE <<>>) \o <<b, c, d>>
  BY DEF Told
<1> HIDE DEF a, b, c, d
<1> DEFINE x == IF refused THEN <<a>> ELSE <<>>
           y == <<b, c, d>>
<1>4. x \in Seq(Events) /\ \A k \in DOMAIN x : x[k].type = "JoinRejected"
  BY <1>1, <1>2
<1>5. y \in Seq(Events) /\ Len(y) = 3 /\ y[1] = b /\ y[2] = c /\ y[3] = d
  BY <1>1
<1> HIDE DEF x, y
<1>6. /\ x \o y \in Seq(Events) /\ Len(x \o y) = Len(x) + 3 /\ Len(x) \in Nat
      /\ \A k \in 1 .. 3 : (x \o y)[Len(x) + k] = y[k]
      /\ \A k \in DOMAIN (x \o y) : k <= Len(x) => (x \o y)[k].type = "JoinRejected"
  <2> DEFINE t == x \o y
  <2>1. /\ t \in Seq(Events) /\ Len(x) \in Nat /\ Len(t) = Len(x) + Len(y)
        /\ DOMAIN t = 1 .. Len(x) + Len(y)
        /\ \A k \in 1 .. Len(x) : t[k] = x[k]
        /\ \A k \in 1 .. Len(y) : t[Len(x) + k] = y[k]
    <3>1. x \in Seq(Events) /\ y \in Seq(Events)
      BY <1>4, <1>5
    <3> QED
      BY ONLY <3>1, ConcatPlaces
  <2> HIDE DEF t
  <2>2. \A k \in DOMAIN t : k <= Len(x) => k \in DOMAIN x
    BY <1>4, <2>1
  <2>3. \A k \in DOMAIN t : k <= Len(x) => t[k].type = "JoinRejected"
    BY <1>4, <2>1, <2>2
  <2>4. Len(t) = Len(x) + 3 /\ \A k \in 1 .. 3 : t[Len(x) + k] = y[k]
    BY <1>5, <2>1
  <2> QED
    BY <2>1, <2>3, <2>4 DEF t
<1>7. PICK t \in Seq(Events), m \in Nat :
        /\ t = x \o y /\ m = Len(x) /\ Len(t) = m + 3
        /\ \A k \in 1 .. 3 : t[m + k] = y[k]
        /\ \A k \in DOMAIN t : k <= m => t[k].type = "JoinRejected"
  BY <1>6
<1> DEFINE all == s \o t
<1>8. /\ all \in Seq(Events) /\ Len(s) \in Nat /\ Len(all) = Len(s) + Len(t)
      /\ DOMAIN all = 1 .. Len(s) + Len(t)
      /\ \A k \in 1 .. Len(s) : all[k] = s[k]
      /\ \A k \in 1 .. Len(t) : all[Len(s) + k] = t[k]
  <2>1. s \in Seq(Events) /\ t \in Seq(Events)
    OBVIOUS
  <2> QED
    BY ONLY <2>1, ConcatPlaces
<1> HIDE DEF all
<1>9. PICK n \in Nat : n = Len(s) + m
  BY <1>8
<1>10. /\ Len(all) = n + 3
       /\ all[n + 1] = b /\ all[n + 2] = c /\ all[n + 3] = d
  <2>1. \A k \in 1 .. 3 : all[n + k] = y[k]
    <3> SUFFICES ASSUME NEW k \in 1 .. 3 PROVE all[n + k] = y[k]
      OBVIOUS
    <3>1. m + k \in 1 .. Len(t) /\ Len(s) + (m + k) = n + k
      BY <1>7, <1>8, <1>9
    <3> QED
      BY <1>7, <1>8, <3>1
  <2> QED
    BY <1>5, <1>7, <1>8, <1>9, <2>1
<1>11. ASSUME NEW k \in DOMAIN all, k <= n
       PROVE  all[k].type \in {"WebAuthentication", "JoinRejected"}
  <2>1. CASE k \in 1 .. Len(s)
    <3>1. k \in DOMAIN s
      BY <2>1
    <3> QED
      BY <1>8, <2>1, <3>1
  <2>2. CASE k \notin 1 .. Len(s)
    <3>1. k - Len(s) \in 1 .. Len(t) /\ k - Len(s) <= m /\ Len(s) + (k - Len(s)) = k
      BY <1>7, <1>8, <1>9, <1>11, <2>2
    <3>2. k - Len(s) \in DOMAIN t
      BY <1>7, <3>1
    <3>3. all[k] = t[k - Len(s)]
      BY <1>8, <3>1
    <3> QED
      BY <1>7, <3>1, <3>2, <3>3
  <2> QED
    BY <2>1, <2>2
<1>12. Opening(all, i, first)
  BY <1>2, <1>10, <1>11 DEF Opening
<1> QED
  BY <1>3, <1>7, <1>12 DEF all, x, y

\* The connection comes up with its first channel, and asks for the others.
LEMMA EstablishViews ==
  ASSUME IInv, ViewsInv, Establish
  PROVE  ViewsInv'
<1>1. /\ joining # <<>> /\ UNCHANGED <<tabs, awaiting_joins, warning, connecting, pending_rosters>>
      /\ UNCHANGED <<owed, present>> /\ slips \subseteq slips'
  BY DEF Establish, appVars
<1>2. joining \in Seq(Channels) /\ events \in Seq(Events) /\ channels \in [Indices -> Slots]
      /\ room \in [Indices -> Channels \cup {NoChannel}]
  BY DEF IInv, Types, ChatType, ServiceType
<1>3. PICK called \in Channels, others \in {Tail(joining)} :
        called = Head(joining) /\ others = Tail(joining)
  BY <1>1, <1>2, TailPlaces
<1>4. PICK head \in Channels, i \in Indices, refused \in BOOLEAN :
        /\ live' = TRUE
        /\ channels' = [channels EXCEPT ![i] = Entered(IF refused THEN General ELSE head)]
        /\ room' = [room EXCEPT ![i] = IF refused THEN General ELSE head]
        /\ wire' = [k \in DOMAIN others |-> Request("Join", others[k], 0, last_token + k)]
        /\ events' = events \o Told(refused, head, i, IF refused THEN General ELSE head)
  <2> DEFINE rest == Tail(joining)
  <2>1. PICK head \in Listed(Head(joining)), i \in Indices, refused \in BOOLEAN :
          LET first == IF refused THEN General ELSE head
          IN /\ live' = TRUE
             /\ channels' = [channels EXCEPT ![i] = Entered(first)]
             /\ room' = [room EXCEPT ![i] = first]
             /\ wire' = [k \in DOMAIN rest |-> Request("Join", rest[k], 0, last_token + k)]
             /\ events' = events \o Told(refused, head, i, first)
    BY DEF Establish, Emit, Told, Entered
  <2>2. head \in Channels
    BY <1>3, <2>1, ListedChannels
  <2> QED
    BY <1>3, <2>1, <2>2
<1>5. PICK first \in Channels : first = IF refused THEN General ELSE head
  BY ChannelsAssumption
<1>6. /\ refused \in BOOLEAN /\ first # NoChannel
      /\ channels' = [channels EXCEPT ![i] = Entered(first)]
      /\ room' = [room EXCEPT ![i] = first]
      /\ events' = events \o Told(refused, head, i, first)
  BY <1>4, <1>5, ChannelsAssumption
<1>7. /\ ~live /\ owed = {}
      /\ \A k \in DOMAIN events : k = 1 /\ events[k].type = "WebAuthentication"
      /\ \/ Has(events, "WebAuthentication")
         \/ \A p \in DOMAIN tabs : tabs[p].channel_index = 0
  BY <1>1, DialingEvents
<1>8. \A j \in Indices : room'[j] # NoChannel => j = i
  BY <1>2, <1>6, <1>7 DEF ViewsInv, Shore, RoomsEmpty
<1>9. room'[i] = first
  BY <1>2, <1>6
<1>10. /\ channels'[i].mine /\ channels'[i].complete /\ channels'[i].roster = Members(first)
       /\ Members(first)' = Members(first)
  <2>1. channels'[i] = Entered(first)
    BY <1>2, <1>6
  <2>2. Members(first)' = Members(first)
    BY <1>1 DEF Members
  <2> QED
    BY <2>1, <2>2 DEF Entered
<1>11. \A j \in Indices : ~Leaves(wire', j)
  <2>1. \A c, t : Request("Join", c, 0, t).type = "Join"
    BY DEF Request
  <2> QED
    BY <1>4, <2>1 DEF Leaves
<1>12. /\ events' \in Seq(Events)
       /\ \A k \in DOMAIN events : k \in DOMAIN events' /\ events'[k] = events[k]
  <2>1. Told(refused, head, i, first) \in Seq(Events)
    BY <1>6, ToldEvents
  <2> QED
    BY <1>2, <1>6, <2>1, Emission
<1>13. Opening(events', i, first)
  BY <1>2, <1>6, <1>7, ToldOpening
<1>14. PICK n \in Nat :
         /\ Len(events') = n + 3
         /\ JoinedAs(events'[n + 1], i) /\ JoinedTo(events'[n + 1], first)
         /\ RosterOf(events'[n + 2], i) /\ Full(events'[n + 2], Members(first))
         /\ events'[n + 3].type = "Connected"
         /\ \A k \in DOMAIN events' : k <= n => events'[k].type \in {"WebAuthentication", "JoinRejected"}
  BY <1>13 DEF Opening
<1>15. /\ n + 1 \in DOMAIN events' /\ n + 2 \in DOMAIN events' /\ n + 3 \in DOMAIN events'
       /\ \A k \in DOMAIN events' : k <= n \/ k = n + 1 \/ k = n + 2 \/ k = n + 3
  BY <1>12, <1>14
<1>16. \A k \in DOMAIN events' : /\ events'[k].type # "Removed"
                                 /\ events'[k].type = "Joined" => k = n + 1
                                 /\ events'[k].type = "Roster" => k = n + 2
  BY <1>14, <1>15 DEF JoinedAs, RosterOf
<1>17. Shore'
  <2>1. UpBefore'
    BY <1>14, <1>15, <1>16 DEF UpBefore, Has
  <2>2. RoomsDiffer' /\ RoomsEmpty'
    BY <1>4, <1>8 DEF RoomsDiffer, RoomsEmpty
  <2>3. Waits'
    BY <1>1 DEF ViewsInv, Shore, Waits
  <2> QED
    BY <2>1, <2>2, <2>3 DEF Shore
<1>18. Agreed' => Dialogs'
  <2>1. Agreed' => Warned
    BY <1>1 DEF ViewsInv, Agreed, Dialogs
  <2>2. RemovedGone'
    BY <1>16 DEF RemovedGone, RemovalComes, RemovedFrom
  <2> QED
    BY <1>1, <2>1, <2>2 DEF Dialogs, Warned
<1>19. RoomsShown'
  <2>1. \A l \in DOMAIN events' : l > n + 1 => ~JoinedTo(events'[l], first)
    BY <1>16 DEF JoinedTo
  <2>2. Comes(i, first)'
    BY <1>14, <1>15, <2>1 DEF Comes
  <2> QED
    BY <1>8, <1>9, <2>2 DEF RoomsShown
<1>20. TabsStand'
  <2>1. Has(events, "WebAuthentication") => Has(events', "WebAuthentication")
    BY <1>12 DEF Has
  <2> QED
    BY <1>1, <1>7, <2>1 DEF TabsStand
<1>21. JoinsStand'
  BY <1>9, <1>14, <1>16 DEF JoinsStand, JoinedAs, JoinedTo
<1>22. WireLeft'
  BY <1>11 DEF WireLeft
<1>23. SlotsFit'
  BY <1>8, <1>9, <1>10 DEF SlotsFit
<1>24. RostersFit'
  <2>1. \A l \in DOMAIN events' : l > n + 2 => ~RosterOf(events'[l], i) /\ ~JoinedAs(events'[l], i)
    <3> SUFFICES ASSUME NEW l \in DOMAIN events', l > n + 2 PROVE l # n + 1 /\ l # n + 2
      BY <1>16 DEF RosterOf, JoinedAs
    <3> QED
      OBVIOUS
  <2>2. PICK u : u = Members(first) /\ u = Members(first)'
    BY <1>10
  <2>3. Reported(i, u)'
    BY <1>14, <1>15, <2>1, <2>2 DEF Reported
  <2> SUFFICES ASSUME NEW j \in Indices, room'[j] # NoChannel
               PROVE  Reported(j, Members(room[j]))'
    BY DEF RostersFit
  <2>4. j = i /\ Members(room[j])' = u
    BY <1>8, <1>9, <2>2 DEF Members
  <2> QED
    BY <2>3, <2>4
<1> QED
  BY <1>17, <1>18, <1>19, <1>20, <1>21, <1>22, <1>23, <1>24 DEF ViewsInv, Rooms, Rosters

\* A step of the worker.
LEMMA WorkerViews ==
  ASSUME IInv, ViewsInv, Worker
  PROVE  ViewsInv'
  BY RunViews, IdleViews, EstablishViews DEF Worker

-----------------------------------------------------------------------------
(* The views under the steps of the application.                           *)

\* The last word on every roster is still the last.
WordsKept ==
  \A i \in Indices : \A u : Reported(i, u) \/ Drawn(i, u) => Reported(i, u)' \/ Drawn(i, u)'
\* Every tab with an index has the roster of a tab that was there before with this index.
RosterTabs ==
  \A q \in DOMAIN tabs' : tabs'[q].channel_index # 0 =>
    \E p \in DOMAIN tabs :
      /\ tabs[p].channel_index = tabs'[q].channel_index
      /\ tabs[p].users = tabs'[q].users /\ tabs[p].complete = tabs'[q].complete

\* The worker and the service are as they were.
LEMMA TurnViews ==
  ASSUME IInv, ViewsInv, UNCHANGED <<live, room, wire, channels, owed, present>>,
         slips \subseteq slips', Waits', UpBefore', Agreed' /\ Dialogs => Warned',
         Agreed' /\ Dialogs => \A i \in Indices : RemovalComes(i)' => room[i] = NoChannel,
         live /\ Agreed' /\ Dialogs /\ Rooms => Rooms' /\ WordsKept
  PROVE  ViewsInv'
<1>1. Shore'
  BY DEF ViewsInv, Shore, RoomsDiffer, RoomsEmpty
<1>2. SUFFICES ASSUME Agreed'
               PROVE  Dialogs' /\ (live' => Rooms' /\ Rosters')
  BY <1>1 DEF ViewsInv
<1>3. Agreed /\ Dialogs
  BY <1>2 DEF ViewsInv, Agreed
<1>4. Dialogs'
  BY <1>2, <1>3 DEF Dialogs, RemovedGone
<1>5. ASSUME live
      PROVE  Rooms' /\ Rosters'
  <2>1. Rooms /\ Rosters
    BY <1>3, <1>5 DEF ViewsInv
  <2>2. Rooms' /\ WordsKept
    BY <1>2, <1>3, <1>5, <2>1
  <2>3. \A i \in Indices : Unmoved(i)
    BY UnmovedRooms
  <2>4. SlotsFit'
    BY <2>1, <2>3, SlotsKept DEF Rosters
  <2>5. RostersFit'
    <3>1. \A i \in Indices : \A u : Reported(i, u) \/ Drawn(i, u) => Reported(i, u)' \/ Drawn(i, u)'
      BY <2>2 DEF WordsKept
    <3> QED
      BY <2>1, <2>3, <3>1, RostersKept DEF Rosters
  <2> QED
    BY <2>2, <2>4, <2>5 DEF Rosters
<1> QED
  BY <1>4, <1>5

\* The application handles an event that is not about its rooms, or does something of its own.
LEMMA DeskViews ==
  ASSUME IInv, ViewsInv, UNCHANGED <<live, room, wire, channels, owed, present>>,
         slips \subseteq slips', Waits', UpBefore', Agreed' /\ Dialogs => Warned',
         Agreed' /\ Dialogs => \A i \in Indices : RemovalComes(i)' => room[i] = NoChannel,
         \A i \in Indices : Leaves(cmds, i) => Leaves(cmds', i),
         live /\ Agreed' /\ Dialogs => NoNews /\ TabsBack /\ TabsForth /\ WordsKept
  PROVE  ViewsInv'
<1>1. ASSUME live, Agreed', Dialogs, Rooms
      PROVE  Rooms' /\ WordsKept
  <2>1. Agreed
    BY <1>1 DEF Agreed
  <2>2. NoNews /\ TabsBack /\ TabsForth /\ WordsKept
    BY <1>1
  <2>3. RoomsGo
    BY DEF RoomsGo
  <2>4. /\ \A i \in Indices : room'[i] # NoChannel /\ Leaving(i) => Leaving(i)'
        /\ \A i \in Indices : Leaves(wire', i) => Leaving(i)
    BY DEF Leaving
  <2> QED
    BY <1>1, <2>1, <2>2, <2>3, <2>4, RoomsKept
<1> QED
  BY <1>1, TurnViews

\* What it does of its own, with no roster to draw.
LEMMA OwnViews ==
  ASSUME IInv, ViewsInv, UNCHANGED <<chatVars, serviceVars, events, pending_rosters>>,
         slips \subseteq slips', Waits', UpBefore', Agreed' /\ Dialogs => Warned',
         \A i \in Indices : Leaves(cmds, i) => Leaves(cmds', i), RosterTabs,
         live /\ Agreed' /\ Dialogs => TabsBack /\ TabsForth
  PROVE  ViewsInv'
<1>1. UNCHANGED <<live, room, wire, channels, owed, present>>
  BY DEF chatVars, serviceVars
<1>2. NoNews
  BY SameNews
<1>3. Dialogs => \A i \in Indices : RemovalComes(i)' => room[i] = NoChannel
  BY DEF Dialogs, RemovedGone, RemovalComes
<1>4. \A i \in Indices : \A u : Reported(i, u) => Reported(i, u)'
  BY DEF Reported
<1>5. \A i \in Indices : \A u : Drawn(i, u) => Drawn(i, u)'
  <2> SUFFICES ASSUME NEW i \in Indices, NEW u, Drawn(i, u)
               PROVE  Drawn(i, u)'
    OBVIOUS
  <2>1. i # 0
    BY ChannelsAssumption
  <2>2. CASE pending_rosters[i].there
    BY <2>2 DEF Drawn, Has
  <2>3. CASE ~pending_rosters[i].there
    <3>1. \A p \in DOMAIN tabs : tabs[p].channel_index = i => Full(tabs[p], u)
      BY <2>3 DEF Drawn
    <3>2. \A q \in DOMAIN tabs' : tabs'[q].channel_index = i => Full(tabs'[q], u)
      BY <2>1, <3>1 DEF RosterTabs, Full
    <3> QED
      BY <2>3, <3>2 DEF Drawn, Has
  <2> QED
    BY <2>2, <2>3
<1>6. WordsKept
  BY <1>4, <1>5 DEF WordsKept
<1> QED
  BY <1>1, <1>2, <1>3, <1>6, DeskViews

-----------------------------------------------------------------------------
(* A tab goes.                                                             *)

\* The place of the tab at k when the one at p has gone.
After(k, p) == IF k < p THEN k ELSE k - 1

LEMMA TabGone ==
  ASSUME tabs \in Seq(TabSet), OneTab, NEW p \in DOMAIN tabs,
         tabs' = RemoveAt(tabs, p) \/ tabs' = WithoutTab(p)
  PROVE  /\ RosterTabs
         /\ \A q \in DOMAIN tabs' :
              \/ tabs'[q].channel_index = 0 /\ tabs'[q].channel = General
              \/ \E k \in DOMAIN tabs \ {p} : tabs'[q] = tabs[k] /\ q = After(k, p)
         /\ \A k \in DOMAIN tabs \ {p} : After(k, p) \in DOMAIN tabs' /\ tabs'[After(k, p)] = tabs[k]
<1>1. /\ DOMAIN tabs = 1 .. Len(tabs) /\ Len(tabs) \in Nat /\ p \in 1 .. Len(tabs)
  OBVIOUS
<1>2. /\ \A k \in DOMAIN RemoveAt(tabs, p) :
           /\ k \in Nat /\ Before(k, p) \in DOMAIN tabs
           /\ RemoveAt(tabs, p)[k] = tabs[Before(k, p)]
      /\ \A k \in DOMAIN tabs : k # p =>
           \E l \in DOMAIN RemoveAt(tabs, p) :
             RemoveAt(tabs, p)[l] = tabs[k] /\ l = (IF k < p THEN k ELSE k - 1)
  BY RemoveAtMembers, RemoveAtRest
<1>3. CASE tabs' = RemoveAt(tabs, p)
  <2>1. \A k \in DOMAIN tabs \ {p} : After(k, p) \in DOMAIN tabs' /\ tabs'[After(k, p)] = tabs[k]
    BY <1>2, <1>3 DEF After
  <2>2. ASSUME NEW q \in DOMAIN tabs'
        PROVE  \E k \in DOMAIN tabs \ {p} : tabs'[q] = tabs[k] /\ q = After(k, p)
    <3>1. q \in Nat /\ Before(q, p) \in DOMAIN tabs /\ tabs'[q] = tabs[Before(q, p)]
      BY <1>2, <1>3
    <3>2. Before(q, p) # p /\ q = After(Before(q, p), p)
      BY <1>1, <3>1 DEF Before, After
    <3> QED
      BY <3>1, <3>2
  <2>3. RosterTabs
    BY <2>2 DEF RosterTabs
  <2> QED
    BY <2>1, <2>2, <2>3
<1>4. CASE RemoveAt(tabs, p) = <<>> /\ tabs' = <<pending_live(General)>>
  <2> DEFINE t == pending_live(General)
  <2>1. t.channel_index = 0 /\ t.channel = General
    BY NewTabs, ChannelsAssumption
  <2>2. tabs' = <<t>>
    BY <1>4
  <2> HIDE DEF t
  <2>3. \A q \in DOMAIN tabs' : tabs'[q] = t
    BY <2>2
  <2>4. DOMAIN tabs \ {p} = {}
    BY <1>2, <1>4
  <2> QED
    BY <2>1, <2>3, <2>4 DEF RosterTabs
<1> QED
  BY <1>3, <1>4 DEF WithoutTab

\* The others keep their indices, and the dialog its tab; what goes has no room, or is left.
LEMMA TabGoneViews ==
  ASSUME tabs \in Seq(TabSet), OneTab, NEW p \in DOMAIN tabs,
         tabs' = RemoveAt(tabs, p) \/ tabs' = WithoutTab(p),
         \A k \in DOMAIN tabs \ {p} : warning.close_tab = k <=> warning'.close_tab = After(k, p),
         \/ tabs[p].channel_index = 0 \/ warning.close_tab = p
         \/ Leaves(cmds', tabs[p].channel_index)
  PROVE  TabsBack /\ TabsForth
<1>1. /\ \A q \in DOMAIN tabs' :
           \/ tabs'[q].channel_index = 0
           \/ \E k \in DOMAIN tabs \ {p} : tabs'[q] = tabs[k] /\ q = After(k, p)
      /\ \A k \in DOMAIN tabs \ {p} : After(k, p) \in DOMAIN tabs' /\ tabs'[After(k, p)] = tabs[k]
  BY TabGone
<1>2. TabsBack
  BY <1>1 DEF TabsBack, SameTab
<1>3. TabsForth
  BY <1>1 DEF TabsForth, SameTab
<1> QED
  BY <1>2, <1>3

\* The tab that waits for channel c, if there is one.
LEMMA WaitingTab ==
  ASSUME tabs \in Seq(TabSet), NEW c
  PROVE  \/ /\ Waiting(c) = 0
            /\ \A p \in DOMAIN tabs : ~(tabs[p].channel = c /\ tabs[p].channel_index = 0)
         \/ /\ Waiting(c) \in DOMAIN tabs
            /\ tabs[Waiting(c)].channel = c /\ tabs[Waiting(c)].channel_index = 0
<1> DEFINE open == {i \in 1 .. Len(tabs) : tabs[i].channel = c /\ tabs[i].channel_index = 0}
<1>1. Waiting(c) = IF open # {} THEN Min(open) ELSE 0
  BY DEF Waiting, SelectInSeq
<1>2. open \in SUBSET Nat
  OBVIOUS
<1>3. open # {} => Min(open) \in open
  <2> HIDE DEF open
  <2> QED
    BY <1>2, MinIsMember
<1> QED
  BY <1>1, <1>3

\* A join that is refused or given up: its tab waits no more.
LEMMA RejectedViews ==
  ASSUME IInv, Waits, NEW c, reject_pending_join(c)
  PROVE  /\ slips \subseteq slips' /\ Waits' /\ RosterTabs
         /\ Agreed' => warning.close_tab = 0 /\ warning'.close_tab = 0 /\ TabsBack /\ TabsForth
<1>1. tabs \in Seq(TabSet) /\ OneTab
  BY DEF IInv, Types, AppType
<1>2. /\ awaiting_joins' = awaiting_joins \ {c} /\ warning'.close_tab = 0
      /\ tabs' = IF Waiting(c) = 0 THEN tabs ELSE WithoutTab(Waiting(c))
      /\ slips \subseteq slips'
      /\ Agreed' => warning.close_tab = 0
  BY DEF reject_pending_join, Waiting, show_channel_warning, Agreed, Replaces, Slip
<1>3. CASE tabs' = tabs /\ \A p \in DOMAIN tabs : ~(tabs[p].channel = c /\ tabs[p].channel_index = 0)
  <2>1. Waits'
    BY <1>2, <1>3 DEF Waits
  <2>2. RosterTabs
    BY <1>3 DEF RosterTabs
  <2>3. DOMAIN tabs = 1 .. Len(tabs)
    BY <1>1
  <2>4. (TabsBack /\ TabsForth) \/ warning.close_tab # 0
    BY <1>2, <1>3, <2>3 DEF TabsBack, TabsForth, SameTab
  <2> QED
    BY <1>2, <2>1, <2>2, <2>4
<1>4. ASSUME NEW p \in DOMAIN tabs, tabs' = WithoutTab(p), tabs[p].channel = c, tabs[p].channel_index = 0
      PROVE  /\ Waits' /\ RosterTabs
             /\ warning.close_tab = 0 => TabsBack /\ TabsForth
  <2>1. /\ RosterTabs
        /\ \A q \in DOMAIN tabs' :
             \/ tabs'[q].channel_index = 0 /\ tabs'[q].channel = General
             \/ \E k \in DOMAIN tabs \ {p} : tabs'[q] = tabs[k]
    BY <1>1, <1>4, TabGone
  <2>2. \A k \in DOMAIN tabs \ {p} : tabs[k].channel # c
    BY <1>1, <1>4 DEF OneTab
  <2>3. Waits'
    BY <1>2, <2>1, <2>2 DEF Waits
  <2>4. \A k \in DOMAIN tabs \ {p} : k # 0 /\ After(k, p) # 0
    <3>1. DOMAIN tabs = 1 .. Len(tabs)
      BY <1>1
    <3> QED
      BY <3>1 DEF After
  <2>5. warning.close_tab = 0 => TabsBack /\ TabsForth
    BY <1>1, <1>2, <1>4, <2>4, TabGoneViews
  <2> QED
    BY <2>1, <2>3, <2>5
<1> QED
  BY <1>1, <1>2, <1>3, <1>4, WaitingTab

-----------------------------------------------------------------------------
(* The views under what the user does, and what time does.                 *)

\* A command that is sent leaves those before it.
LEMMA SentLeaves ==
  ASSUME cmds \in Seq(Requests \cup Connects), NEW q \in Requests \cup Connects, cmds' = Append(cmds, q)
  PROVE  /\ \A i \in Indices : Leaves(cmds, i) => Leaves(cmds', i)
         /\ \A i \in Indices : q.type = "Leave" /\ q.channel_index = i => Leaves(cmds', i)
<1>1. /\ \A k \in DOMAIN cmds : k \in DOMAIN cmds' /\ cmds'[k] = cmds[k]
      /\ \E k \in DOMAIN cmds' : cmds'[k] = q
  BY AppendPlaces
<1> QED
  BY <1>1 DEF Leaves

\* The tabs and the dialogs are the same.
LEMMA StillViews ==
  ASSUME IInv, ViewsInv, UNCHANGED <<chatVars, serviceVars, events, pending_rosters>>,
         UNCHANGED <<tabs, warning, awaiting_joins, connecting, slips>>,
         \A i \in Indices : Leaves(cmds, i) => Leaves(cmds', i)
  PROVE  ViewsInv'
<1>1. RosterTabs /\ TabsBack /\ TabsForth
  BY TabsSame DEF RosterTabs
<1>2. Waits' /\ UpBefore'
  BY DEF ViewsInv, Shore, Waits, UpBefore, Has, chatVars
<1>3. Agreed' /\ Dialogs => Warned'
  BY DEF Dialogs, Warned
<1>4. slips \subseteq slips'
  OBVIOUS
<1> QED
  BY <1>1, <1>2, <1>3, <1>4, OwnViews

\* JOIN: a tab that waits.
LEMMA JoinPressViews ==
  ASSUME IInv, ViewsInv, NEW c \in Channels, join_channel_target(c)
  PROVE  ViewsInv'
<1>1. tabs \in Seq(TabSet) /\ cmds \in Seq(Requests \cup Connects) /\ DOMAIN tabs = 1 .. Len(tabs)
  BY DEF IInv, Types, AppType, ChatType
<1>2. /\ UNCHANGED <<chatVars, serviceVars, events, pending_rosters, connecting, slips>>
      /\ warning.close_tab = 0
  BY DEF join_channel_target, history, CanPress, NoWarning
<1>3. UpBefore'
  BY <1>2 DEF ViewsInv, Shore, UpBefore, Has, chatVars
<1>4. CASE warning'.close_tab = 0 /\ UNCHANGED <<tabs, awaiting_joins, cmds>>
  <2>1. Waits' /\ RosterTabs
    BY <1>4 DEF ViewsInv, Shore, Waits, RosterTabs
  <2>2. TabsBack /\ TabsForth
    BY <1>1, <1>2, <1>4 DEF TabsBack, TabsForth, SameTab
  <2>3. Warned' /\ \A i \in Indices : Leaves(cmds, i) => Leaves(cmds', i)
    BY <1>4 DEF Warned
  <2> QED
    BY <1>2, <1>3, <2>1, <2>2, <2>3, OwnViews
<1>5. CASE /\ tabs' = Append(tabs, pending_live(c)) /\ awaiting_joins' = awaiting_joins \union {c}
           /\ cmds' = Append(cmds, Request("Join", c, 0, 0)) /\ UNCHANGED warning
  <2> DEFINE t == pending_live(c)
             q == Request("Join", c, 0, 0)
  <2>1. t \in TabSet /\ t.channel = c /\ t.channel_index = 0 /\ q \in Requests
    BY NewTabs, RequestShapes
  <2>2. tabs' = Append(tabs, t) /\ cmds' = Append(cmds, q)
    BY <1>5
  <2> HIDE DEF t, q
  <2>3. /\ \A k \in DOMAIN tabs : k \in DOMAIN tabs' /\ tabs'[k] = tabs[k]
        /\ \A k \in DOMAIN tabs' : (k \in DOMAIN tabs /\ tabs'[k] = tabs[k]) \/ tabs'[k] = t
        /\ \A k \in DOMAIN tabs' : k # 0
    <3>1. /\ tabs' \in Seq(TabSet)
          /\ DOMAIN tabs' = 1 .. Len(tabs) + 1
          /\ \A k \in DOMAIN tabs : tabs'[k] = tabs[k]
          /\ tabs'[Len(tabs) + 1] = t
          /\ \A k \in DOMAIN tabs' : k \in DOMAIN tabs \/ k = Len(tabs) + 1
      BY <1>1, <2>1, <2>2, AppendPlaces
    <3>2. \A k \in DOMAIN tabs : k \in DOMAIN tabs'
      BY <1>1, <3>1
    <3> QED
      BY <3>1, <3>2
  <2>4. Waits'
    BY <1>5, <2>1, <2>3 DEF ViewsInv, Shore, Waits
  <2>5. RosterTabs
    BY <2>1, <2>3 DEF RosterTabs
  <2>6. TabsBack
    BY <1>2, <1>5, <2>1, <2>3 DEF TabsBack, SameTab
  <2>7. TabsForth
    BY <1>2, <1>5, <2>1, <2>3 DEF TabsForth, SameTab
  <2>8. Warned'
    BY <1>2, <1>5 DEF Warned
  <2>9. \A i \in Indices : Leaves(cmds, i) => Leaves(cmds', i)
    BY <1>1, <2>1, <2>2, SentLeaves
  <2> QED
    BY <1>2, <1>3, <2>4, <2>5, <2>6, <2>7, <2>8, <2>9, OwnViews
<1> QED
  BY <1>4, <1>5 DEF join_channel_target, show_channel_warning

\* A press that opens nothing, and a line.
LEMMA PressViews ==
  ASSUME IInv, ViewsInv, NEW p \in DOMAIN tabs, begin_tab_close(p) \/ send_message(p)
  PROVE  ViewsInv'
<1>1. tabs \in Seq(TabSet) /\ cmds \in Seq(Requests \cup Connects) /\ typed \in Seq(Channels)
  BY DEF IInv, Types, AppType, ChatType, LineType
<1>2. /\ UNCHANGED <<chatVars, serviceVars, events, pending_rosters>>
      /\ UNCHANGED <<tabs, warning, awaiting_joins, connecting, slips>>
  BY DEF begin_tab_close, send_message, history, appVars
<1>3. CASE begin_tab_close(p)
  <2>1. cmds' = cmds
    BY <1>3 DEF begin_tab_close
  <2> QED
    BY <1>2, <2>1, StillViews
<1>4. CASE send_message(p)
  <2> DEFINE q == Request("Say", NoChannel, tabs[p].channel_index, Len(typed) + 1)
  <2>1. cmds' = Append(cmds, q) /\ tabs[p].channel_index # 0
    BY <1>4 DEF send_message
  <2>2. q \in Requests
    <3>1. tabs[p].channel_index \in Indices /\ Len(typed) + 1 \in Nat
      BY <1>1, <2>1, TabTypes
    <3> QED
      BY <3>1, RequestShapes
  <2> HIDE DEF q
  <2>3. \A i \in Indices : Leaves(cmds, i) => Leaves(cmds', i)
    BY <1>1, <2>1, <2>2, SentLeaves
  <2> QED
    BY <1>2, <2>3, StillViews
<1> QED
  BY <1>3, <1>4

\* CLOSE of a warning: the tab that it is about goes.
LEMMA WarningCloseViews ==
  ASSUME IInv, ViewsInv, begin_warning_close
  PROVE  ViewsInv'
<1>1. tabs \in Seq(TabSet) /\ OneTab /\ DOMAIN tabs = 1 .. Len(tabs)
  BY DEF IInv, Types, AppType
<1>2. /\ UNCHANGED <<chatVars, serviceVars, events, pending_rosters, connecting>>
      /\ UNCHANGED <<cmds, awaiting_joins>> /\ warning'.close_tab = 0 /\ slips \subseteq slips'
  BY DEF begin_warning_close, NoWarning
<1>3. UpBefore' /\ Waits
  BY <1>2 DEF ViewsInv, Shore, UpBefore, Has, chatVars
<1>4. PICK p : p = warning.close_tab
  OBVIOUS
<1>5. CASE p \in DOMAIN tabs
  <2>1. tabs' = WithoutTab(p)
    BY <1>4, <1>5 DEF begin_warning_close
  <2>2. /\ RosterTabs
        /\ \A q \in DOMAIN tabs' :
             \/ tabs'[q].channel_index = 0 /\ tabs'[q].channel = General
             \/ \E k \in DOMAIN tabs \ {p} : tabs'[q] = tabs[k]
    BY <1>1, <1>5, <2>1, TabGone
  <2>3. Waits'
    BY <1>2, <1>3, <2>2 DEF Waits
  <2>4. \A k \in DOMAIN tabs \ {p} : After(k, p) # 0 /\ k # p
    BY <1>1, <1>5 DEF After
  <2>5. \A k \in DOMAIN tabs \ {p} : warning.close_tab = k <=> warning'.close_tab = After(k, p)
    BY <1>2, <1>4, <2>4
  <2>6. TabsBack /\ TabsForth
    BY <1>1, <1>4, <1>5, <2>1, <2>5, TabGoneViews
  <2> QED
    BY <1>2, <1>3, <2>2, <2>3, <2>6, OwnViews DEF Warned
<1>6. CASE p \notin DOMAIN tabs
  <2>1. tabs' = tabs
    BY <1>4, <1>6 DEF begin_warning_close
  <2>2. Waits' /\ RosterTabs
    BY <1>2, <1>3, <2>1 DEF Waits, RosterTabs
  <2>3. TabsBack /\ TabsForth
    BY <1>1, <1>2, <1>4, <1>6, <2>1 DEF TabsBack, TabsForth, SameTab
  <2> QED
    BY <1>2, <1>3, <2>1, <2>2, <2>3, OwnViews DEF Warned
<1> QED
  BY <1>5, <1>6

\* The dialog goes without a word: it was to close no tab.
LEMMA WarningGoesViews ==
  ASSUME IInv, ViewsInv, WarningGoesElsewhere
  PROVE  ViewsInv'
<1>1. /\ UNCHANGED <<chatVars, serviceVars, events, pending_rosters, connecting>>
      /\ UNCHANGED <<tabs, cmds, awaiting_joins>> /\ warning'.close_tab = 0 /\ slips \subseteq slips'
      /\ Agreed' => warning.close_tab = 0
  BY DEF WarningGoesElsewhere, NoWarning, Replaces, Slip, Agreed
<1>2. Waits' /\ UpBefore' /\ RosterTabs
  BY <1>1 DEF ViewsInv, Shore, Waits, UpBefore, Has, chatVars, RosterTabs
<1>3. Warned' /\ \A i \in Indices : Leaves(cmds, i) => Leaves(cmds', i)
  BY <1>1 DEF Warned
<1>4. Agreed' => TabsBack /\ TabsForth
  <2>1. \A p \in DOMAIN tabs : p # 0
    BY DEF IInv, Types, AppType
  <2> QED
    BY <1>1, <2>1 DEF TabsBack, TabsForth, SameTab
<1> QED
  BY <1>1, <1>2, <1>3, <1>4, OwnViews

\* A tab is dropped: it and those it was carried past have the same indices as before.
LEMMA DragViews ==
  ASSUME IInv, ViewsInv, NEW from \in DOMAIN tabs, NEW to \in DOMAIN tabs, finish_tab_drag(from, to)
  PROVE  ViewsInv'
<1>1. tabs \in Seq(TabSet) /\ OneTab
  BY DEF IInv, Types, AppType
<1>2. /\ UNCHANGED <<chatVars, serviceVars, events, pending_rosters, connecting>>
      /\ UNCHANGED <<warning, cmds, awaiting_joins>> /\ slips \subseteq slips' /\ from # to
      /\ tabs' = [p \in DOMAIN tabs |-> tabs[Carried(p, from, to)]]
      /\ Agreed' => warning.close_tab = 0 \/ Carried(warning.close_tab, from, to) = warning.close_tab
  BY DEF finish_tab_drag, Slip, Agreed
<1>3. /\ DOMAIN tabs' = DOMAIN tabs /\ \A p \in DOMAIN tabs : p # 0
      /\ \A p \in DOMAIN tabs : Carried(p, from, to) \in DOMAIN tabs /\ tabs'[p] = tabs[Carried(p, from, to)]
      /\ \A q \in DOMAIN tabs : \E p \in DOMAIN tabs : Carried(p, from, to) = q /\ tabs'[p] = tabs[q]
  BY <1>1, <1>2, DraggedTabs
<1>4. OneTab'
  BY <1>1, <1>2, DraggedTabs
<1>5. Waits' /\ UpBefore' /\ RosterTabs
  BY <1>2, <1>3 DEF ViewsInv, Shore, Waits, UpBefore, Has, chatVars, RosterTabs
<1>6. Agreed' /\ Dialogs => Warned'
  BY <1>2, <1>3 DEF Dialogs, Warned
<1>7. ASSUME Agreed', NEW p \in DOMAIN tabs
      PROVE  warning.close_tab = p <=> warning.close_tab = Carried(p, from, to)
  <2>1. CASE warning.close_tab = 0
    BY <1>3, <2>1
  <2>2. CASE Carried(warning.close_tab, from, to) = warning.close_tab
    <3>1. warning.close_tab = p => warning.close_tab = Carried(p, from, to)
      BY <2>2
    <3>2. ASSUME warning.close_tab = Carried(p, from, to)
          PROVE  warning.close_tab = p
      <4>1. warning.close_tab \in DOMAIN tabs
        BY <1>3, <3>2
      <4>2. tabs'[warning.close_tab] = tabs[warning.close_tab] /\ tabs'[p] = tabs[warning.close_tab]
        BY <1>3, <2>2, <3>2, <4>1
      <4> QED
        BY <1>3, <1>4, <4>1, <4>2 DEF OneTab
    <3> QED
      BY <3>1, <3>2
  <2> QED
    BY <1>2, <1>7, <2>1, <2>2
<1>8. ASSUME Agreed'
      PROVE  TabsBack /\ TabsForth
  <2>1. TabsBack
    <3> SUFFICES ASSUME NEW q \in DOMAIN tabs', tabs'[q].channel_index # 0
                 PROVE  \E p \in DOMAIN tabs : SameTab(q, p) /\ (warning.close_tab = p => warning'.close_tab = q)
      BY DEF TabsBack
    <3>1. Carried(q, from, to) \in DOMAIN tabs /\ SameTab(q, Carried(q, from, to))
      BY <1>3 DEF SameTab
    <3>2. warning.close_tab = Carried(q, from, to) => warning'.close_tab = q
      BY <1>2, <1>3, <1>7, <1>8
    <3> QED
      BY <3>1, <3>2
  <2>2. TabsForth
    <3> SUFFICES ASSUME NEW p \in DOMAIN tabs, warning.close_tab # p
                 PROVE  \E q \in DOMAIN tabs' : SameTab(q, p) /\ warning'.close_tab # q
      BY DEF TabsForth
    <3>1. PICK q \in DOMAIN tabs : Carried(q, from, to) = p /\ tabs'[q] = tabs[p]
      BY <1>3
    <3>2. warning'.close_tab # q
      BY <1>2, <1>7, <1>8, <3>1
    <3> QED
      BY <1>3, <3>1, <3>2 DEF SameTab
  <2> QED
    BY <2>1, <2>2
<1>9. \A i \in Indices : Leaves(cmds, i) => Leaves(cmds', i)
  BY <1>2
<1> QED
  BY <1>2, <1>5, <1>6, <1>8, <1>9, OwnViews

\* RECONNECT: there is no connection.
LEMMA ReconnectViews ==
  ASSUME IInv, ViewsInv, reconnect
  PROVE  ViewsInv'
<1>1. /\ UNCHANGED <<tabs, awaiting_joins, pending_rosters, events, chatVars, serviceVars>>
      /\ warning.kind = "disconnected" \/ connecting = "failed"
      /\ warning' = IF warning.kind = "disconnected" THEN NoWarning ELSE warning
      /\ slips \subseteq slips'
  BY DEF reconnect
<1>2. ~live /\ events = <<>>
  BY <1>1 DEF IInv, Course, FailureShown, Stopped
<1>3. UNCHANGED <<live, room, wire, channels, owed, present>>
  BY <1>1 DEF chatVars, serviceVars
<1>4. Waits' /\ UpBefore'
  BY <1>1, <1>2, <1>3 DEF ViewsInv, Shore, Waits, UpBefore
<1>5. Agreed' /\ Dialogs => Warned'
  BY <1>1 DEF Dialogs, Warned, NoWarning
<1>6. \A i \in Indices : RemovalComes(i)' => room[i] = NoChannel
  BY <1>1, <1>2 DEF RemovalComes
<1>7. \A i \in Indices : Leaves(cmds, i) => Leaves(cmds', i)
  <2> DEFINE q == Connect([p \in DOMAIN tabs |-> tabs[p].channel])
  <2>1. cmds' = Append(cmds, q) /\ cmds \in Seq(Requests \cup Connects)
    BY DEF reconnect, IInv, Types, ChatType
  <2> HIDE DEF q
  <2>2. \A k \in DOMAIN cmds : k \in DOMAIN cmds' /\ cmds'[k] = cmds[k]
    BY <2>1
  <2> QED
    BY <2>2 DEF Leaves
<1> QED
  BY <1>1, <1>2, <1>3, <1>4, <1>5, <1>6, <1>7, DeskViews

\* The close animation ends: the tab goes, and a leave goes out for its room.
LEMMA FinishCloseViews ==
  ASSUME IInv, ViewsInv, finish_tab_close
  PROVE  ViewsInv'
<1>1. /\ tabs \in Seq(TabSet) /\ OneTab /\ DOMAIN tabs = 1 .. Len(tabs) /\ Len(tabs) \in Nat
      /\ cmds \in Seq(Requests \cup Connects) /\ tab_close \in Nat
  BY DEF IInv, Types, AppType, ChatType
<1>2. /\ UNCHANGED <<chatVars, serviceVars, events, pending_rosters, connecting>>
      /\ UNCHANGED <<warning, awaiting_joins>> /\ tab_close # 0 /\ slips \subseteq slips'
  BY DEF finish_tab_close
<1>3. UpBefore' /\ Waits
  BY <1>2 DEF ViewsInv, Shore, UpBefore, Has, chatVars
<1>4. PICK p \in Nat : p = tab_close /\ p # 0
  BY <1>1, <1>2
<1>5. CASE p > Len(tabs)
  <2>1. UNCHANGED <<tabs, cmds, slips>>
    BY <1>4, <1>5 DEF finish_tab_close
  <2> QED
    BY <1>2, <2>1, StillViews
<1>6. CASE ~(p > Len(tabs))
  <2>1. p \in DOMAIN tabs
    BY <1>1, <1>4, <1>6
  <2>2. PICK i : i = tabs[p].channel_index
    OBVIOUS
  <2>3. /\ tabs' = RemoveAt(tabs, p)
        /\ cmds' = IF i = 0 THEN cmds ELSE Append(cmds, Request("Leave", NoChannel, i, 0))
        /\ Agreed' => ~(warning.close_tab >= p)
    BY <1>4, <1>6, <2>2 DEF finish_tab_close, Agreed, Slip
  <2>4. /\ RosterTabs
        /\ \A q \in DOMAIN tabs' :
             \/ tabs'[q].channel_index = 0 /\ tabs'[q].channel = General
             \/ \E k \in DOMAIN tabs \ {p} : tabs'[q] = tabs[k]
        /\ \A k \in DOMAIN tabs \ {p} : After(k, p) \in DOMAIN tabs'
    BY <1>1, <2>1, <2>3, TabGone
  <2>5. Waits'
    BY <1>2, <1>3, <2>4 DEF Waits
  <2>6. /\ \A j \in Indices : Leaves(cmds, j) => Leaves(cmds', j)
        /\ i # 0 => Leaves(cmds', i)
    <3>1. CASE i = 0
      BY <2>3, <3>1
    <3>2. CASE i # 0
      <4> DEFINE q == Request("Leave", NoChannel, i, 0)
      <4>1. i \in Indices
        BY <1>1, <2>1, <2>2, <3>2, TabTypes
      <4>2. q \in Requests /\ q.type = "Leave" /\ q.channel_index = i
        BY <4>1, RequestShapes
      <4>3. cmds' = Append(cmds, q)
        BY <2>3, <3>2
      <4> HIDE DEF q
      <4> QED
        BY <1>1, <4>1, <4>2, <4>3, SentLeaves
    <3> QED
      BY <3>1, <3>2
  <2>7. Agreed' /\ Dialogs => Warned'
    <3> SUFFICES ASSUME Agreed', Dialogs, warning.close_tab # 0
                 PROVE  Warned'
      BY <1>2 DEF Warned
    <3>1. /\ warning.kind = "channel" /\ connecting = "no" /\ warning.close_tab \in DOMAIN tabs
      BY DEF Dialogs, Warned
    <3>2. warning.close_tab < p
      BY <1>1, <2>3, <3>1
    <3>3. warning.close_tab \in DOMAIN tabs \ {p} /\ After(warning.close_tab, p) = warning.close_tab
      BY <1>1, <3>1, <3>2 DEF After
    <3> QED
      BY <1>2, <2>4, <3>1, <3>3 DEF Warned
  <2>8. ASSUME Agreed', Dialogs
        PROVE  TabsBack /\ TabsForth
    <3>1. warning.close_tab = 0 \/ warning.close_tab \in DOMAIN tabs
      BY <2>8 DEF Dialogs, Warned
    <3>2. ~(warning.close_tab >= p)
      BY <2>3, <2>8
    <3>3. PICK w \in Nat : w = warning.close_tab /\ w = warning'.close_tab
      BY <1>1, <1>2, <3>1
    <3>4. \A k \in DOMAIN tabs \ {p} : w = k <=> w = After(k, p)
      BY <1>1, <1>4, <3>2, <3>3 DEF After
    <3>5. \A k \in DOMAIN tabs \ {p} : warning.close_tab = k <=> warning'.close_tab = After(k, p)
      BY <3>3, <3>4
    <3>6. \/ tabs[p].channel_index = 0 \/ warning.close_tab = p
          \/ Leaves(cmds', tabs[p].channel_index)
      BY <2>2, <2>6
    <3> QED
      BY <1>1, <2>1, <2>3, <3>5, <3>6, TabGoneViews
  <2> QED
    BY <1>2, <1>3, <2>4, <2>5, <2>6, <2>7, <2>8, OwnViews
<1> QED
  BY <1>5, <1>6

\* A join is given up.
LEMMA ExpireViews ==
  ASSUME IInv, ViewsInv, expire_awaited_joins
  PROVE  ViewsInv'
<1>1. PICK c \in awaiting_joins :
        /\ reject_pending_join(c)
        /\ UNCHANGED <<pending_rosters, tab_close, connecting, cmds, events, chatVars,
                       serviceVars, typed, heard, lines, dropped, bounds>>
  BY DEF expire_awaited_joins
<1>2. Waits /\ UpBefore'
  BY <1>1 DEF ViewsInv, Shore, UpBefore, Has, chatVars
<1>3. /\ slips \subseteq slips' /\ Waits' /\ RosterTabs
      /\ Agreed' => warning'.close_tab = 0 /\ TabsBack /\ TabsForth
  BY <1>1, <1>2, RejectedViews
<1>4. Agreed' => Warned'
  BY <1>3 DEF Warned
<1>5. \A i \in Indices : Leaves(cmds, i) => Leaves(cmds', i)
  BY <1>1
<1>6. UNCHANGED <<chatVars, serviceVars, events, pending_rosters>>
  BY <1>1
<1> QED
  BY <1>2, <1>3, <1>4, <1>5, <1>6, OwnViews

\* The place of a tab with index i, when there is one.
LEMMA PositionFound ==
  ASSUME tabs \in Seq(TabSet), NEW i, NEW p \in DOMAIN tabs, tabs[p].channel_index = i
  PROVE  Position(i) \in DOMAIN tabs /\ tabs[Position(i)].channel_index = i
<1> DEFINE all == {k \in 1 .. Len(tabs) : tabs[k].channel_index = i}
<1>1. Position(i) = IF all # {} THEN Min(all) ELSE 0
  BY DEF Position, SelectInSeq
<1>2. all \in SUBSET Nat /\ p \in all
  OBVIOUS
<1>3. Min(all) \in all
  <2> HIDE DEF all
  <2> QED
    BY <1>2, MinIsMember
<1> QED
  BY <1>1, <1>2, <1>3

\* The rosters are drawn: each in the one tab of its index.
LEMMA FlushViews ==
  ASSUME IInv, ViewsInv, flush_rosters
  PROVE  ViewsInv'
<1>1. tabs \in Seq(TabSet) /\ OneTab /\ DOMAIN tabs = 1 .. Len(tabs) /\ 0 \notin Indices
  BY ChannelsAssumption DEF IInv, Types, AppType
<1>2. /\ UNCHANGED <<live, room, wire, channels, owed, present>>
      /\ UNCHANGED <<slips, events, cmds, connecting, awaiting_joins, warning>>
      /\ pending_rosters' = [i \in Indices |-> NoRoster]
  BY DEF flush_rosters, history, chatVars, serviceVars
<1>3. /\ DOMAIN tabs' = DOMAIN tabs
      /\ \A p \in DOMAIN tabs :
           tabs'[p] = LET i == tabs[p].channel_index
                      IN IF i # 0 /\ Position(i) = p /\ pending_rosters[i].there
                         THEN apply_roster_snapshot(tabs[p], i) ELSE tabs[p]
  BY DEF flush_rosters
<1>4. ASSUME NEW p \in DOMAIN tabs
      PROVE  /\ tabs'[p].channel = tabs[p].channel /\ tabs'[p].channel_index = tabs[p].channel_index
             /\ \A i \in Indices : i = tabs[p].channel_index =>
                  IF Position(i) = p /\ pending_rosters[i].there
                  THEN /\ tabs'[p].users = pending_rosters[i].users
                       /\ tabs'[p].complete = pending_rosters[i].complete
                  ELSE tabs'[p] = tabs[p]
  <2>1. PICK t \in TabSet, j \in {tabs[p].channel_index} : t = tabs[p] /\ j = t.channel_index
    BY <1>1
  <2>2. CASE j # 0 /\ Position(j) = p /\ pending_rosters[j].there
    <3>1. PICK r : r = pending_rosters[j]
      OBVIOUS
    <3>2. tabs'[p] = [t EXCEPT !.users = r.users, !.complete = r.complete]
      BY <1>3, <1>4, <2>1, <2>2, <3>1 DEF apply_roster_snapshot
    <3>3. /\ tabs'[p].channel = t.channel /\ tabs'[p].channel_index = t.channel_index
          /\ tabs'[p].users = r.users /\ tabs'[p].complete = r.complete
      BY <3>2 DEF TabSet
    <3> QED
      BY <2>1, <2>2, <3>1, <3>3
  <2>3. CASE ~(j # 0 /\ Position(j) = p /\ pending_rosters[j].there)
    <3>1. tabs'[p] = tabs[p]
      BY <1>3, <1>4, <2>1, <2>3
    <3> QED
      BY <1>1, <2>1, <2>3, <3>1
  <2> QED
    BY <2>2, <2>3
<1>5. TabsBack /\ TabsForth
  BY <1>2, <1>3, <1>4 DEF TabsBack, TabsForth, SameTab
<1>6. Waits' /\ UpBefore'
  BY <1>2, <1>3, <1>4 DEF ViewsInv, Shore, Waits, UpBefore, Has
<1>7. Agreed' /\ Dialogs => Warned'
  BY <1>2, <1>3 DEF Dialogs, Warned
<1>8. /\ Dialogs => \A i \in Indices : RemovalComes(i)' => room[i] = NoChannel
      /\ \A i \in Indices : Leaves(cmds, i) => Leaves(cmds', i)
  BY <1>2 DEF Dialogs, RemovedGone, RemovalComes
<1>9. ASSUME live, Agreed'
      PROVE  WordsKept
  <2> SUFFICES ASSUME NEW i \in Indices, NEW u, Reported(i, u) \/ Drawn(i, u)
               PROVE  Reported(i, u)' \/ Drawn(i, u)'
    BY DEF WordsKept
  <2>1. Reported(i, u) => Reported(i, u)'
    BY <1>2 DEF Reported
  <2>2. ASSUME Drawn(i, u)
        PROVE  Drawn(i, u)'
    <3>1. /\ ~Has(events', "WebAuthentication")
          /\ \A l \in DOMAIN events' : ~RosterOf(events'[l], i) /\ ~JoinedAs(events'[l], i)
      BY <1>2, <2>2 DEF Drawn
    <3>2. ~pending_rosters'[i].there
      BY <1>2 DEF NoRoster
    <3>3. TabsOpen
      BY <1>2, <1>9 DEF IInv, Held, Sound, Agreed
    <3>4. ASSUME NEW p \in DOMAIN tabs', tabs'[p].channel_index = i
          PROVE  Full(tabs'[p], u)
      <4>1. p \in DOMAIN tabs /\ tabs[p].channel_index = i
        BY <1>3, <1>4, <3>4
      <4>2. CASE ~pending_rosters[i].there
        BY <1>4, <2>2, <4>1, <4>2 DEF Drawn
      <4>3. CASE pending_rosters[i].there
        <5>1. Position(i) \in DOMAIN tabs /\ tabs[Position(i)].channel_index = i
          BY <1>1, <4>1, PositionFound
        <5>2. Position(i) = p
          BY <1>1, <2>2, <3>3, <4>1, <5>1 DEF TabsOpen, Drawn
        <5>3. Full(pending_rosters[i], u)
          BY <2>2, <4>3 DEF Drawn
        <5> QED
          BY <1>4, <4>1, <4>3, <5>2, <5>3 DEF Full
      <4> QED
        BY <4>2, <4>3
    <3> QED
      BY <3>1, <3>2, <3>4 DEF Drawn
  <2> QED
    BY <2>1, <2>2
<1>10. NoNews
  BY <1>2, SameNews
<1>11. slips \subseteq slips'
  BY <1>2
<1> QED
  BY <1>2, <1>5, <1>6, <1>7, <1>8, <1>9, <1>10, <1>11, DeskViews

-----------------------------------------------------------------------------
(* The views under the events that the application handles.                *)

\* The first event is taken, and the worker knows nothing of it.
LEMMA TakenEvent ==
  ASSUME IInv, handle_client_event
  PROVE  /\ events \in Seq(Events) /\ events # <<>> /\ events' = Tail(events)
         /\ Head(events) \in Events /\ Head(events) = events[1]
         /\ UNCHANGED <<live, room, wire, channels, owed, present, cmds>>
         /\ tabs \in Seq(TabSet) /\ OneTab /\ 0 \notin Indices
<1>1. events # <<>> /\ events' = Tail(events) /\ UNCHANGED <<cmds, chatVars, serviceVars>>
  BY DEF handle_client_event
<1>2. events \in Seq(Events) /\ tabs \in Seq(TabSet) /\ OneTab
  BY DEF IInv, Types, ChatType, AppType
<1>3. Head(events) \in Events /\ Head(events) = events[1]
  BY <1>1, <1>2, TakenPlaces
<1> QED
  BY <1>1, <1>2, <1>3, ChannelsAssumption DEF chatVars, serviceVars

\* The last stage of a connection, when it is not the event that is taken.
LEMMA TakenUp ==
  ASSUME events \in Seq(Events), events # <<>>, events' = Tail(events), UpBefore,
         live' = live, connecting' = connecting, Head(events).type # "Connected"
  PROVE  UpBefore'
<1>1. /\ Head(events) = events[1]
      /\ \A k \in DOMAIN events' : k \in Nat \ {0} /\ k + 1 \in DOMAIN events /\ events'[k] = events[k + 1]
      /\ \A k \in DOMAIN events : k # 1 =>
           k \in Nat \ {0} /\ k - 1 \in DOMAIN events' /\ events'[k - 1] = events[k]
  BY TakenPlaces
<1>2. \A l \in DOMAIN events : events[l].type = "Connected" =>
        l \in Nat /\ l - 1 \in DOMAIN events' /\ events'[l - 1].type = "Connected"
  BY <1>1
<1>3. live' => connecting' = "no" \/ Has(events', "Connected")
  BY <1>2 DEF UpBefore, Has
<1>4. ASSUME NEW k \in DOMAIN events', events'[k].type = "Removed"
      PROVE  connecting' = "no" \/ \E l \in DOMAIN events' : l < k /\ events'[l].type = "Connected"
  <2>1. /\ k + 1 \in DOMAIN events /\ events[k + 1].type = "Removed" /\ k \in Nat
    BY <1>1, <1>4
  <2>2. connecting = "no" \/ \E l \in DOMAIN events : l < k + 1 /\ events[l].type = "Connected"
    BY <2>1 DEF UpBefore
  <2>3. ASSUME NEW l \in DOMAIN events, l < k + 1, events[l].type = "Connected"
        PROVE  \E m \in DOMAIN events' : m < k /\ events'[m].type = "Connected"
    <3>1. l - 1 \in DOMAIN events' /\ events'[l - 1].type = "Connected" /\ l - 1 < k
      BY <1>2, <2>1, <2>3
    <3> QED
      BY <3>1
  <2> QED
    BY <2>2, <2>3
<1> QED
  BY <1>3, <1>4 DEF UpBefore

\* A removal that is still to come was to come before.
LEMMA TakenRemovals ==
  ASSUME events \in Seq(Events), events # <<>>, events' = Tail(events), Dialogs
  PROVE  \A i \in Indices : RemovalComes(i)' => room[i] = NoChannel
<1>1. \A k \in DOMAIN events' : k + 1 \in DOMAIN events /\ events'[k] = events[k + 1]
  BY TakenPlaces
<1> QED
  BY <1>1 DEF Dialogs, RemovedGone, RemovalComes

\* The event that is taken is no last word on a roster.
LEMMA TakenWords ==
  ASSUME events \in Seq(Events), events # <<>>, events' = Tail(events),
         Head(events).type \notin {"Roster", "Joined"},
         UNCHANGED pending_rosters, RosterTabs
  PROVE  WordsKept
<1>1. /\ Head(events) = events[1] /\ 0 \notin Indices
      /\ \A k \in DOMAIN events' : k \in Nat \ {0} /\ k + 1 \in DOMAIN events /\ events'[k] = events[k + 1]
      /\ \A k \in DOMAIN events : k # 1 =>
           k \in Nat \ {0} /\ k - 1 \in DOMAIN events' /\ events'[k - 1] = events[k]
  BY TakenPlaces, ChannelsAssumption
<1>2. ASSUME NEW i \in Indices, NEW u, Reported(i, u)
      PROVE  Reported(i, u)'
  <2>1. PICK k \in DOMAIN events :
          /\ RosterOf(events[k], i) /\ Full(events[k], u)
          /\ \A l \in DOMAIN events : l > k => ~RosterOf(events[l], i) /\ ~JoinedAs(events[l], i)
    BY <1>2 DEF Reported
  <2>2. k \in Nat /\ k - 1 \in DOMAIN events' /\ events'[k - 1] = events[k]
    BY <1>1, <2>1 DEF RosterOf
  <2>3. \A l \in DOMAIN events' : l > k - 1 => ~RosterOf(events'[l], i) /\ ~JoinedAs(events'[l], i)
    BY <1>1, <2>1, <2>2
  <2> QED
    BY <2>1, <2>2, <2>3 DEF Reported
<1>3. ASSUME NEW i \in Indices, NEW u, Drawn(i, u)
      PROVE  Drawn(i, u)'
  <2>1. ~Has(events', "WebAuthentication")
    BY <1>1, <1>3 DEF Drawn, Has
  <2>2. \A l \in DOMAIN events' : ~RosterOf(events'[l], i) /\ ~JoinedAs(events'[l], i)
    BY <1>1, <1>3 DEF Drawn
  <2>3. CASE pending_rosters[i].there
    BY <1>3, <2>1, <2>2, <2>3 DEF Drawn
  <2>4. CASE ~pending_rosters[i].there
    <3>1. \A p \in DOMAIN tabs : tabs[p].channel_index = i => Full(tabs[p], u)
      BY <1>3, <2>4 DEF Drawn
    <3>2. \A q \in DOMAIN tabs' : tabs'[q].channel_index = i => Full(tabs'[q], u)
      BY <1>1, <3>1 DEF RosterTabs, Full
    <3> QED
      BY <2>1, <2>2, <2>4, <3>2 DEF Drawn
  <2> QED
    BY <2>3, <2>4
<1> QED
  BY <1>2, <1>3 DEF WordsKept

\* A refusal.
LEMMA RejectionViews ==
  ASSUME IInv, ViewsInv, handle_client_event, Head(events).type = "JoinRejected",
         OnJoinRejected(Head(events))
  PROVE  ViewsInv'
<1>1. /\ events \in Seq(Events) /\ events # <<>> /\ events' = Tail(events)
      /\ UNCHANGED <<live, room, wire, channels, owed, present, cmds>>
  BY TakenEvent
<1>2. PICK c : c = Head(events).channel
  OBVIOUS
<1>3. reject_pending_join(c) /\ UNCHANGED <<pending_rosters, connecting>>
  BY <1>2 DEF OnJoinRejected
<1>4. /\ slips \subseteq slips' /\ Waits' /\ RosterTabs
      /\ Agreed' => warning'.close_tab = 0 /\ TabsBack /\ TabsForth
  BY <1>3, RejectedViews DEF ViewsInv, Shore
<1>5. UpBefore'
  BY <1>1, <1>3, TakenUp DEF ViewsInv, Shore
<1>6. Dialogs => \A i \in Indices : RemovalComes(i)' => room[i] = NoChannel
  BY <1>1, TakenRemovals
<1>7. NoNews /\ WordsKept
  BY <1>1, <1>3, <1>4, PassedNews, TakenWords
<1>8. Agreed' => Warned'
  BY <1>4 DEF Warned
<1>9. \A i \in Indices : Leaves(cmds, i) => Leaves(cmds', i)
  BY <1>1
<1> QED
  BY <1>1, <1>4, <1>5, <1>6, <1>7, <1>8, <1>9, DeskViews

\* A roster: it waits to be drawn.
LEMMA RosterViews ==
  ASSUME IInv, ViewsInv, handle_client_event, Head(events).type = "Roster", OnRoster(Head(events))
  PROVE  ViewsInv'
<1>1. /\ events \in Seq(Events) /\ events # <<>> /\ events' = Tail(events)
      /\ Head(events) \in Events /\ Head(events) = events[1] /\ 0 \notin Indices
      /\ UNCHANGED <<live, room, wire, channels, owed, present, cmds>>
  BY TakenEvent
<1>2. PICK e \in Events : e = Head(events) /\ e.type = "Roster"
  BY <1>1
<1>3. PICK j \in Indices : j = e.channel_index
  BY <1>2 DEF Events
<1>4. /\ pending_rosters' = [pending_rosters EXCEPT ![j] =
           [there |-> TRUE, users |-> e.users, complete |-> e.complete]]
      /\ UNCHANGED <<tabs, awaiting_joins, warning, connecting, slips>>
      /\ pending_rosters \in [Indices -> RosterSet]
  BY <1>2, <1>3 DEF OnRoster, IInv, Types, AppType
<1>5. Waits' /\ slips \subseteq slips'
  BY <1>4 DEF ViewsInv, Shore, Waits
<1>6. UpBefore'
  BY <1>1, <1>2, <1>4, TakenUp DEF ViewsInv, Shore
<1>7. Dialogs => \A i \in Indices : RemovalComes(i)' => room[i] = NoChannel
  BY <1>1, TakenRemovals
<1>8. NoNews /\ TabsBack /\ TabsForth
  BY <1>1, <1>2, <1>4, PassedNews, TabsSame
<1>9. /\ \A k \in DOMAIN events' : k \in Nat \ {0} /\ k + 1 \in DOMAIN events /\ events'[k] = events[k + 1]
      /\ \A k \in DOMAIN events : k # 1 =>
           k \in Nat \ {0} /\ k - 1 \in DOMAIN events' /\ events'[k - 1] = events[k]
  BY <1>1, TakenPlaces
<1>10. ~Has(events', "WebAuthentication")
  <2>1. \A k \in DOMAIN events : events[k].type = "WebAuthentication" => k = 1
    BY DEF IInv, Course, StageFirst
  <2> QED
    BY <1>1, <1>2, <1>9, <2>1 DEF Has
<1>11. /\ pending_rosters'[j].there /\ pending_rosters'[j].users = e.users
       /\ pending_rosters'[j].complete = e.complete
       /\ \A i \in Indices : i # j => pending_rosters'[i] = pending_rosters[i]
  BY <1>4
<1>12. ASSUME NEW i \in Indices, NEW u, Reported(i, u)
       PROVE  Reported(i, u)' \/ Drawn(i, u)'
  <2>1. PICK k \in DOMAIN events :
          /\ RosterOf(events[k], i) /\ Full(events[k], u)
          /\ \A l \in DOMAIN events : l > k => ~RosterOf(events[l], i) /\ ~JoinedAs(events[l], i)
    BY <1>12 DEF Reported
  <2>2. CASE k = 1
    <3>1. i = j /\ Full(e, u)
      BY <1>1, <1>2, <1>3, <2>1, <2>2 DEF RosterOf
    <3>2. Full(pending_rosters'[i], u)
      BY <1>11, <3>1 DEF Full
    <3>3. \A l \in DOMAIN events' : ~RosterOf(events'[l], i) /\ ~JoinedAs(events'[l], i)
      <4> SUFFICES ASSUME NEW l \in DOMAIN events'
                   PROVE  ~RosterOf(events'[l], i) /\ ~JoinedAs(events'[l], i)
        OBVIOUS
      <4>1. l + 1 \in DOMAIN events /\ l + 1 > k /\ events'[l] = events[l + 1]
        BY <1>9, <2>2
      <4> QED
        BY <2>1, <4>1
    <3> QED
      BY <1>10, <1>11, <3>1, <3>2, <3>3 DEF Drawn
  <2>3. CASE k # 1
    <3>1. k \in Nat /\ k - 1 \in DOMAIN events' /\ events'[k - 1] = events[k]
      BY <1>9, <2>3
    <3>2. \A l \in DOMAIN events' : l > k - 1 => ~RosterOf(events'[l], i) /\ ~JoinedAs(events'[l], i)
      BY <1>9, <2>1, <3>1
    <3> QED
      BY <2>1, <3>1, <3>2 DEF Reported
  <2> QED
    BY <2>2, <2>3
<1>13. ASSUME NEW i \in Indices, NEW u, Drawn(i, u)
       PROVE  Drawn(i, u)'
  <2>1. i # j
    <3>1. RosterOf(events[1], j) /\ 1 \in DOMAIN events
      BY <1>1, <1>2, <1>3, TakenPlaces DEF RosterOf
    <3> QED
      BY <1>13, <3>1 DEF Drawn
  <2>2. pending_rosters'[i] = pending_rosters[i]
    BY <1>11, <2>1
  <2>3. \A l \in DOMAIN events' : ~RosterOf(events'[l], i) /\ ~JoinedAs(events'[l], i)
    BY <1>9, <1>13 DEF Drawn
  <2> QED
    BY <1>4, <1>10, <1>13, <2>2, <2>3 DEF Drawn
<1>14. WordsKept
  BY <1>12, <1>13 DEF WordsKept
<1>15. Dialogs => Warned'
  BY <1>4 DEF Dialogs, Warned
<1>16. \A i \in Indices : Leaves(cmds, i) => Leaves(cmds', i)
  BY <1>1
<1> QED
  BY <1>1, <1>5, <1>6, <1>7, <1>8, <1>14, <1>15, <1>16, DeskViews

\* A line that is heard.
LEMMA MessageViews ==
  ASSUME IInv, ViewsInv, handle_client_event, Head(events).type = "Message", OnMessage(Head(events))
  PROVE  ViewsInv'
<1>1. /\ events \in Seq(Events) /\ events # <<>> /\ events' = Tail(events)
      /\ UNCHANGED <<live, room, wire, channels, owed, present, cmds>>
  BY TakenEvent
<1>2. UNCHANGED <<tabs, awaiting_joins, pending_rosters, warning, connecting, slips>>
  BY DEF OnMessage
<1>3. Waits' /\ RosterTabs /\ slips \subseteq slips'
  BY <1>2 DEF ViewsInv, Shore, Waits, RosterTabs
<1>4. UpBefore'
  BY <1>1, <1>2, TakenUp DEF ViewsInv, Shore
<1>5. Dialogs => Warned' /\ \A i \in Indices : RemovalComes(i)' => room[i] = NoChannel
  BY <1>1, <1>2, TakenRemovals DEF Dialogs, Warned
<1>6. NoNews /\ TabsBack /\ TabsForth /\ WordsKept
  BY <1>1, <1>2, <1>3, PassedNews, TabsSame, TakenWords
<1>7. \A i \in Indices : Leaves(cmds, i) => Leaves(cmds', i)
  BY <1>1
<1> QED
  BY <1>1, <1>3, <1>4, <1>5, <1>6, <1>7, DeskViews

\* A stage of the connection: its first one empties the tab strip.
LEMMA StageViews ==
  ASSUME IInv, ViewsInv, handle_client_event, Head(events).type \in StageNames, OnStage(Head(events))
  PROVE  ViewsInv'
<1>1. /\ events \in Seq(Events) /\ events # <<>> /\ events' = Tail(events)
      /\ Head(events) \in Events /\ Head(events) = events[1]
      /\ UNCHANGED <<live, room, wire, channels, owed, present, cmds>>
      /\ tabs \in Seq(TabSet) /\ OneTab /\ 0 \notin Indices
  BY TakenEvent
<1>2. PICK e : e = Head(events)
  OBVIOUS
<1>3. /\ CASE e.type = "WebAuthentication" ->
                /\ tabs' = <<>> /\ connecting' = "yes"
                /\ UNCHANGED <<warning, slips>>
           [] e.type = "Connected" ->
                /\ connecting' = "no" /\ warning' = NoWarning
                /\ UNCHANGED <<tabs, slips>>
           [] e.type = "Error" /\ (connecting = "no" \/ warning.kind = "disconnected") ->
                /\ warning' = [kind |-> "disconnected", close_tab |-> 0]
                /\ slips' = slips \union Replaces
                /\ UNCHANGED <<tabs, connecting>>
           [] OTHER ->
                /\ connecting' = "failed"
                /\ UNCHANGED <<tabs, warning, slips>>
      /\ UNCHANGED <<awaiting_joins, pending_rosters>>
  BY <1>2 DEF OnStage
<1>4. /\ 1 \in DOMAIN events /\ events[1] = e
      /\ \A k \in DOMAIN events' : k \in Nat \ {0} /\ k + 1 \in DOMAIN events /\ events'[k] = events[k + 1]
  BY <1>1, <1>2, TakenPlaces
<1>5. Dialogs => \A i \in Indices : RemovalComes(i)' => room[i] = NoChannel
  BY <1>1, TakenRemovals
<1>6. CASE e.type = "WebAuthentication"
  <2>1. tabs' = <<>> /\ connecting' = "yes" /\ UNCHANGED <<warning, slips, awaiting_joins, pending_rosters>>
    BY <1>3, <1>6
  <2>2. connecting = "yes" /\ \A k \in DOMAIN events : events[k].type = "WebAuthentication" => k = 1
    BY <1>4, <1>6 DEF IInv, Course, StageFirst, Shut
  <2>3. DOMAIN tabs' = {} /\ Has(events, "WebAuthentication")
    BY <1>4, <1>6, <2>1 DEF Has
  <2>4. Waits' /\ RosterTabs
    BY <2>3 DEF Waits, RosterTabs
  <2>5. UpBefore'
    BY <1>1, <1>2, <1>6, <2>1, <2>2, TakenUp DEF ViewsInv, Shore
  <2>6. Dialogs => Warned'
    BY <2>1, <2>2 DEF Dialogs, Warned
  <2>7. WordsKept
    BY <1>1, <1>2, <1>6, <2>1, <2>4, TakenWords
  <2>8. ASSUME Rooms
        PROVE  Rooms'
    <3>1. /\ \A i, c : Comes(i, c) => Comes(i, c)'
          /\ \A k \in DOMAIN events' :
               /\ k + 1 \in DOMAIN events /\ events[k + 1] = events'[k]
               /\ \A i : RemovalAfter(k + 1, i) => RemovalAfter(k, i)'
      <4>1. \A i : ~JoinedAs(e, i)
        BY <1>6 DEF JoinedAs
      <4> QED
        BY <1>1, <1>2, <4>1, TakenNews
    <3>2. RoomsShown'
      <4>1. \A i, c : ~Shown(i, c)
        BY <2>3 DEF Shown
      <4>2. \A i : Leaving(i) => Leaving(i)'
        BY <1>1 DEF Leaving
      <4> QED
        BY <1>1, <2>8, <3>1, <4>1, <4>2 DEF Rooms, RoomsShown
    <3>3. TabsStand'
      BY <2>3 DEF TabsStand
    <3>4. JoinsStand'
      BY <1>1, <2>8, <3>1 DEF Rooms, JoinsStand
    <3>5. WireLeft'
      BY <1>1, <2>3, <2>8, <3>1 DEF Rooms, WireLeft, LetGo
    <3> QED
      BY <3>2, <3>3, <3>4, <3>5 DEF Rooms
  <2> QED
    BY <1>1, <1>5, <2>1, <2>4, <2>5, <2>6, <2>7, <2>8, TurnViews
<1>7. CASE e.type = "Connected"
  <2>1. connecting' = "no" /\ warning' = NoWarning /\ UNCHANGED <<tabs, slips, awaiting_joins, pending_rosters>>
    BY <1>3, <1>7
  <2>2. connecting = "yes"
    BY <1>4, <1>7 DEF IInv, Course, ConnectedOnce, Shut
  <2>3. warning'.close_tab = 0
    BY <2>1 DEF NoWarning
  <2>4. Waits' /\ RosterTabs /\ UpBefore' /\ Warned'
    BY <2>1, <2>3 DEF ViewsInv, Shore, Waits, RosterTabs, UpBefore, Warned
  <2>5. NoNews /\ WordsKept
    BY <1>1, <1>2, <1>7, <2>1, <2>4, PassedNews, TakenWords
  <2>6. Dialogs => TabsBack /\ TabsForth
    <3>1. Dialogs => warning.close_tab = 0
      BY <2>2 DEF Dialogs, Warned
    <3>2. DOMAIN tabs = 1 .. Len(tabs)
      BY <1>1
    <3>3. Dialogs => TabsBack
      BY <2>1, <3>1, <3>2 DEF TabsBack, SameTab
    <3>4. TabsForth
      BY <2>1, <2>3, <3>2 DEF TabsForth, SameTab
    <3> QED
      BY <3>3, <3>4
  <2>7. \A i \in Indices : Leaves(cmds, i) => Leaves(cmds', i)
    BY <1>1
  <2> QED
    BY <1>1, <1>5, <2>1, <2>4, <2>5, <2>6, <2>7, DeskViews
<1>8. CASE e.type = "Error"
  <2>1. ~live /\ Len(events) = 1
    BY <1>4, <1>8 DEF IInv, Course, FailedLast, Stopped
  <2>2. DOMAIN events' = {}
    BY <1>1, <1>4, <2>1
  <2>3. UNCHANGED <<tabs, awaiting_joins>> /\ slips \subseteq slips'
    BY <1>3, <1>8
  <2>4. Waits' /\ UpBefore'
    BY <1>1, <2>1, <2>2, <2>3 DEF ViewsInv, Shore, Waits, UpBefore
  <2>5. Dialogs => Warned'
    <3>1. CASE warning' = [kind |-> "disconnected", close_tab |-> 0]
      BY <3>1 DEF Warned
    <3>2. CASE warning' = warning /\ connecting # "no"
      BY <3>2 DEF Dialogs, Warned
    <3> QED
      BY <1>3, <1>8, <3>1, <3>2
  <2> QED
    BY <1>1, <1>5, <2>1, <2>3, <2>4, <2>5, TurnViews
<1> QED
  BY <1>2, <1>6, <1>7, <1>8 DEF StageNames

\* A removal: a warning opens that is to close the tab.
LEMMA RemovalViews ==
  ASSUME IInv, ViewsInv, handle_client_event, Head(events).type = "Removed", OnRemoved(Head(events))
  PROVE  ViewsInv'
<1>1. /\ events \in Seq(Events) /\ events # <<>> /\ events' = Tail(events)
      /\ Head(events) \in Events /\ Head(events) = events[1]
      /\ UNCHANGED <<live, room, wire, channels, owed, present, cmds>>
      /\ tabs \in Seq(TabSet) /\ OneTab /\ 0 \notin Indices
  BY TakenEvent
<1>2. PICK e, i : e = Head(events) /\ e.type = "Removed" /\ i = e.channel_index
  OBVIOUS
<1>3. /\ UNCHANGED <<tabs, awaiting_joins, pending_rosters, connecting>>
      /\ IF Position(i) = 0 THEN UNCHANGED <<warning, slips>>
         ELSE show_channel_warning(Position(i)) /\ slips' = slips \union Replaces
  BY <1>2 DEF OnRemoved
<1>4. /\ 1 \in DOMAIN events /\ events[1] = e /\ RemovedFrom(e, i)
      /\ \A k \in DOMAIN events : k \in Nat \ {0}
  BY <1>1, <1>2, TakenPlaces DEF RemovedFrom
<1>5. Waits' /\ RosterTabs /\ slips \subseteq slips'
  BY <1>3 DEF ViewsInv, Shore, Waits, RosterTabs
<1>6. UpBefore'
  BY <1>1, <1>2, <1>3, TakenUp DEF ViewsInv, Shore
<1>7. connecting = "no"
  <2>1. \A l \in DOMAIN events : ~(l < 1)
    BY <1>4
  <2> QED
    BY <1>2, <1>4, <2>1 DEF ViewsInv, Shore, UpBefore
<1>8. Dialogs => \A j \in Indices : RemovalComes(j)' => room[j] = NoChannel
  BY <1>1, TakenRemovals
<1>9. \/ Position(i) = 0 /\ \A q \in DOMAIN tabs : tabs[q].channel_index # i
      \/ Position(i) \in DOMAIN tabs /\ Position(i) # 0 /\ tabs[Position(i)].channel_index = i
  <2>1. DOMAIN tabs = 1 .. Len(tabs)
    BY <1>1
  <2> QED
    BY <1>1, <2>1, PlaceFound, PositionFound
<1>10. \/ /\ \A q \in DOMAIN tabs : tabs[q].channel_index # i
          /\ warning' = warning
       \/ /\ warning'.close_tab \in DOMAIN tabs /\ tabs[warning'.close_tab].channel_index = i
          /\ warning'.kind = "channel" /\ (Agreed' => warning.close_tab = 0)
  BY <1>3, <1>9 DEF show_channel_warning, Agreed, Replaces, Slip
<1>11. Dialogs => Warned'
  BY <1>3, <1>7, <1>10 DEF Dialogs, Warned
<1>12. WordsKept
  BY <1>1, <1>2, <1>3, <1>5, TakenWords
<1>13. ASSUME live, Agreed', Dialogs, Rooms
       PROVE  Rooms'
  <2>1. TabsOpen /\ DOMAIN tabs = 1 .. Len(tabs)
    BY <1>1, <1>5, <1>13 DEF IInv, Held, Sound, Agreed
  <2>2. \A j \in Indices : room[j] # NoChannel => j # i
    BY <1>4, <1>13 DEF Dialogs, RemovedGone, RemovalComes
  <2>3. /\ \A j, c : Comes(j, c) => Comes(j, c)'
        /\ \A c : Unjoined(c) => Unjoined(c)'
        /\ Has(events', "WebAuthentication") <=> Has(events, "WebAuthentication")
        /\ \A j : RemovalComes(j) => RemovalComes(j)' \/ j = i
        /\ \A k \in DOMAIN events' :
             /\ k + 1 \in DOMAIN events /\ events[k + 1] = events'[k]
             /\ \A j : RemovalAfter(k + 1, j) => RemovalAfter(k, j)'
    <3>1. /\ \A j : ~JoinedAs(e, j)
          /\ \A j : RemovedFrom(e, j) => j = i
      BY <1>2 DEF JoinedAs, RemovedFrom
    <3> QED
      BY <1>1, <1>2, <3>1, TakenNews
  <2>4. RoomsShown'
    <3> SUFFICES ASSUME NEW j \in Indices, room'[j] # NoChannel
                 PROVE  (Leaving(j) \/ Comes(j, room[j]) \/ Shown(j, room[j]))'
      BY DEF RoomsShown
    <3>1. PICK c : c = room[j] /\ c = room'[j]
      BY <1>1
    <3>2. Leaving(j) \/ Comes(j, c) \/ Shown(j, c)
      BY <1>1, <1>13, <3>1 DEF Rooms, RoomsShown
    <3>3. Leaving(j) => Leaving(j)'
      BY <1>1 DEF Leaving
    <3>4. Stands(j, c) => Stands(j, c)'
      BY <1>1, <1>3, <1>10, <2>2 DEF Stands
    <3>5. Shown(j, c) => Shown(j, c)'
      BY <2>3, <3>4 DEF Shown
    <3> QED
      BY <2>3, <3>1, <3>2, <3>3, <3>5
  <2>5. TabsStand'
    <3> SUFFICES ASSUME ~Has(events', "WebAuthentication"), NEW q \in DOMAIN tabs', tabs'[q].channel_index # 0
                 PROVE  \/ room'[tabs'[q].channel_index] = tabs'[q].channel
                        \/ RemovalComes(tabs[q].channel_index)'
                        \/ warning'.close_tab = q
      BY DEF TabsStand
    <3>1. q \in DOMAIN tabs /\ tabs'[q] = tabs[q] /\ ~Has(events, "WebAuthentication")
      BY <1>3, <2>3
    <3>2. PICK j : j = tabs[q].channel_index /\ j = tabs'[q].channel_index
      BY <3>1
    <3>3. room[j] = tabs[q].channel \/ RemovalComes(j) \/ warning.close_tab = q
      BY <1>13, <3>1, <3>2 DEF Rooms, TabsStand
    <3>4. j = i => warning'.close_tab = q
      BY <1>10, <2>1, <3>1, <3>2 DEF TabsOpen
    <3>5. warning.close_tab = q => warning'.close_tab = q
      BY <1>10, <1>13, <2>1, <3>1
    <3> QED
      BY <1>1, <2>3, <3>1, <3>2, <3>3, <3>4, <3>5
  <2>6. JoinsStand'
    BY <1>1, <1>13, <2>3 DEF Rooms, JoinsStand
  <2>7. WireLeft'
    BY <1>1, <1>3, <1>13, <2>3 DEF Rooms, WireLeft, LetGo
  <2> QED
    BY <2>4, <2>5, <2>6, <2>7 DEF Rooms
<1> QED
  BY <1>1, <1>5, <1>6, <1>8, <1>11, <1>12, <1>13, TurnViews

\* The tabs that are not the one of the join are as they were, and of other channels.
OldTab(q, c) == q \in DOMAIN tabs /\ tabs'[q] = tabs[q] /\ tabs[q].channel # c
\* The tab of the join is the one of its channel, or a new one.
TabIs(r, c) == IF r \in DOMAIN tabs THEN r = TabOf(c) /\ tabs[r].channel = c ELSE TabOf(c) = 0

LEMMA JoinedPlaces ==
  ASSUME tabs \in Seq(TabSet), OneTab, NEW i \in Indices, NEW c \in Channels,
         tabs' = IF TabOf(c) = 0 THEN Append(tabs, Tab(c, i))
                 ELSE [tabs EXCEPT ![TabOf(c)].channel_index = i]
  PROVE  /\ \A q \in DOMAIN tabs : q \in DOMAIN tabs'
         /\ 0 \notin DOMAIN tabs'
         /\ \E r \in DOMAIN tabs' :
              /\ JoinedTab(r, i, c) /\ TabIs(r, c)
              /\ \A q \in DOMAIN tabs' : q # r => OldTab(q, c)
<1>1. DOMAIN tabs = 1 .. Len(tabs) /\ Len(tabs) \in Nat
  OBVIOUS
<1>2. CASE TabOf(c) = 0
  <2>1. \A p \in DOMAIN tabs : tabs[p].channel # c
    BY <1>2, NoTabFound
  <2> DEFINE t == Tab(c, i)
             r == Len(tabs) + 1
  <2>2. t \in TabSet /\ t.channel = c /\ t.channel_index = i
    BY NewTabs
  <2>3. tabs' = Append(tabs, t)
    BY <1>2
  <2> HIDE DEF t
  <2>4. /\ DOMAIN tabs' = 1 .. Len(tabs) + 1
        /\ \A k \in DOMAIN tabs : tabs'[k] = tabs[k]
        /\ tabs'[r] = t
    BY <2>2, <2>3, AppendPlaces
  <2>5. r \in DOMAIN tabs' /\ r \notin DOMAIN tabs /\ \A q \in DOMAIN tabs' : q # r => q \in DOMAIN tabs
    BY <1>1, <2>4
  <2> HIDE DEF r
  <2>6. JoinedTab(r, i, c) /\ TabIs(r, c)
    BY <1>2, <2>2, <2>4, <2>5 DEF JoinedTab, TabIs
  <2>7. \A q \in DOMAIN tabs' : q # r => OldTab(q, c)
    BY <2>1, <2>4, <2>5 DEF OldTab
  <2>8. 0 \notin DOMAIN tabs' /\ \A q \in DOMAIN tabs : q \in DOMAIN tabs'
    BY <1>1, <2>4
  <2> QED
    BY <2>5, <2>6, <2>7, <2>8
<1>3. CASE TabOf(c) # 0
  <2> DEFINE r == TabOf(c)
  <2>1. r \in DOMAIN tabs /\ tabs[r].channel = c /\ r = TabOf(c)
    BY <1>3, TabFound
  <2>2. tabs' = [tabs EXCEPT ![r].channel_index = i]
    BY <1>3
  <2> HIDE DEF r
  <2> DEFINE t == [tabs[r] EXCEPT !.channel_index = i]
  <2>3. tabs[r] \in TabSet
    BY <2>1
  <2>4. t.channel = c /\ t.channel_index = i
    BY <2>1, <2>3 DEF TabSet
  <2>5. tabs' = [tabs EXCEPT ![r] = t]
    BY <2>2
  <2> HIDE DEF t
  <2>6. DOMAIN tabs' = DOMAIN tabs /\ tabs'[r] = t /\ \A p \in DOMAIN tabs : p # r => tabs'[p] = tabs[p]
    BY <2>1, <2>5
  <2>7. JoinedTab(r, i, c) /\ TabIs(r, c)
    BY <2>1, <2>4, <2>6 DEF JoinedTab, TabIs
  <2>8. \A q \in DOMAIN tabs' : q # r => OldTab(q, c)
    BY <2>1, <2>6 DEF OldTab, OneTab
  <2> QED
    BY <1>1, <2>1, <2>6, <2>7, <2>8
<1> QED
  BY <1>2, <1>3

\* A join: the room it told of is shown in its tab.
LEMMA JoinedViews ==
  ASSUME IInv, ViewsInv, handle_client_event, Head(events).type = "Joined", OnJoined(Head(events))
  PROVE  ViewsInv'
<1>1. /\ events \in Seq(Events) /\ events # <<>> /\ events' = Tail(events)
      /\ Head(events) \in Events /\ Head(events) = events[1]
      /\ UNCHANGED <<live, room, wire, channels, owed, present, cmds>>
      /\ tabs \in Seq(TabSet) /\ OneTab /\ 0 \notin Indices
  BY TakenEvent
<1>2. PICK e \in Events : e = Head(events) /\ e.type = "Joined"
  BY <1>1
<1>3. PICK i \in Indices, c \in Channels : i = e.channel_index /\ c = e.channel
  BY <1>2 DEF Events
<1>4. /\ awaiting_joins' = awaiting_joins \ {c}
      /\ tabs' = IF TabOf(c) = 0 THEN Append(tabs, Tab(c, i))
                 ELSE [tabs EXCEPT ![TabOf(c)].channel_index = i]
      /\ UNCHANGED <<pending_rosters, warning, connecting>>
      /\ slips' = slips \union Slip("shifted", TabOf(c) # 0 /\ warning.close_tab = TabOf(c))
  BY <1>2, <1>3 DEF OnJoined
<1>5. /\ slips \subseteq slips'
      /\ Agreed' /\ TabOf(c) # 0 => warning.close_tab # TabOf(c)
  BY <1>4 DEF Agreed, Slip
<1>6. /\ \A q \in DOMAIN tabs : q \in DOMAIN tabs'
      /\ 0 \notin DOMAIN tabs'
      /\ \E r \in DOMAIN tabs' :
           /\ JoinedTab(r, i, c) /\ TabIs(r, c)
           /\ \A q \in DOMAIN tabs' : q # r => OldTab(q, c)
  BY <1>1, <1>4, JoinedPlaces
<1>7. PICK r :
        /\ r \in DOMAIN tabs' /\ tabs'[r].channel = c /\ tabs'[r].channel_index = i
        /\ IF r \in DOMAIN tabs THEN r = TabOf(c) /\ tabs[r].channel = c ELSE TabOf(c) = 0
        /\ \A q \in DOMAIN tabs' : q # r => OldTab(q, c)
  BY <1>6 DEF JoinedTab, TabIs
<1>8. \A q \in DOMAIN tabs' : q # r => q \in DOMAIN tabs /\ tabs'[q] = tabs[q] /\ tabs[q].channel # c
  BY <1>7 DEF OldTab
<1>9. \A q \in DOMAIN tabs : tabs[q].channel # c => q \in DOMAIN tabs' /\ q # r /\ tabs'[q] = tabs[q]
  BY <1>6, <1>7, <1>8
<1>10. /\ 1 \in DOMAIN events /\ events[1] = e /\ JoinedAs(e, i) /\ JoinedTo(e, c)
       /\ \A k \in DOMAIN events' : k \in Nat \ {0} /\ k + 1 \in DOMAIN events /\ events'[k] = events[k + 1]
       /\ \A k \in DOMAIN events : k # 1 =>
            k \in Nat \ {0} /\ k - 1 \in DOMAIN events' /\ events'[k - 1] = events[k]
       /\ \A k \in DOMAIN events : k \in Nat \ {0}
  BY <1>1, <1>2, <1>3, TakenPlaces DEF JoinedAs, JoinedTo
<1>11. ~Has(events, "WebAuthentication") /\ ~Has(events', "WebAuthentication")
  <2>1. \A k \in DOMAIN events : events[k].type = "WebAuthentication" => k = 1
    BY DEF IInv, Course, StageFirst
  <2> QED
    BY <1>2, <1>10, <2>1 DEF Has
<1>12. /\ \A j, d : Comes(j, d) => Comes(j, d)' \/ (j = i /\ d = c /\ Unjoined(d)')
       /\ \A d : Unjoined(d) => Unjoined(d)' /\ d # c
       /\ \A j : RemovalComes(j) => RemovalComes(j)'
       /\ \A k \in DOMAIN events' :
            /\ k + 1 \in DOMAIN events /\ events[k + 1] = events'[k]
            /\ \A j : RemovalAfter(k + 1, j) => RemovalAfter(k, j)'
  <2>1. /\ \A j, d : JoinedAs(e, j) /\ JoinedTo(e, d) => j = i /\ d = c
        /\ \A j : ~RemovedFrom(e, j)
    BY <1>2, <1>3 DEF JoinedAs, JoinedTo, RemovedFrom
  <2>2. \A d : Unjoined(d) => d # c
    BY <1>10 DEF Unjoined
  <2> QED
    BY <1>1, <1>2, <2>1, <2>2, TakenNews
<1>13. Waits'
  <2> SUFFICES ASSUME NEW q \in DOMAIN tabs', tabs'[q].channel_index = 0
               PROVE  tabs'[q].channel \in awaiting_joins' \cup {General}
    BY DEF Waits
  <2>1. q # r
    BY <1>1, <1>7
  <2>2. tabs[q].channel \in awaiting_joins \cup {General}
    BY <1>8, <2>1 DEF ViewsInv, Shore, Waits
  <2> QED
    BY <1>4, <1>8, <2>1, <2>2
<1>14. UpBefore'
  BY <1>1, <1>2, <1>4, TakenUp DEF ViewsInv, Shore
<1>15. Dialogs => \A j \in Indices : RemovalComes(j)' => room[j] = NoChannel
  BY <1>1, TakenRemovals
<1>16. Dialogs => Warned'
  BY <1>4, <1>6 DEF Dialogs, Warned
<1>17. WordsKept
  <2>1. ASSUME NEW j \in Indices, NEW u, Reported(j, u)
        PROVE  Reported(j, u)'
    <3>1. PICK k \in DOMAIN events :
            /\ RosterOf(events[k], j) /\ Full(events[k], u)
            /\ \A l \in DOMAIN events : l > k => ~RosterOf(events[l], j) /\ ~JoinedAs(events[l], j)
      BY <2>1 DEF Reported
    <3>2. k \in Nat /\ k - 1 \in DOMAIN events' /\ events'[k - 1] = events[k]
      BY <1>2, <1>10, <3>1 DEF RosterOf
    <3>3. \A l \in DOMAIN events' : l > k - 1 => ~RosterOf(events'[l], j) /\ ~JoinedAs(events'[l], j)
      BY <1>10, <3>1, <3>2
    <3> QED
      BY <3>1, <3>2, <3>3 DEF Reported
  <2>2. ASSUME NEW j \in Indices, NEW u, Drawn(j, u)
        PROVE  Drawn(j, u)'
    <3>1. j # i
      BY <1>10, <2>2 DEF Drawn
    <3>2. \A l \in DOMAIN events' : ~RosterOf(events'[l], j) /\ ~JoinedAs(events'[l], j)
      BY <1>10, <2>2 DEF Drawn
    <3>3. \A q \in DOMAIN tabs' : tabs'[q].channel_index = j => q \in DOMAIN tabs /\ tabs'[q] = tabs[q]
      BY <1>7, <1>8, <3>1
    <3>4. CASE pending_rosters[j].there
      BY <1>4, <1>11, <2>2, <3>2, <3>4 DEF Drawn
    <3>5. CASE ~pending_rosters[j].there
      <4>1. \A p \in DOMAIN tabs : tabs[p].channel_index = j => Full(tabs[p], u)
        BY <2>2, <3>5 DEF Drawn
      <4>2. \A q \in DOMAIN tabs' : tabs'[q].channel_index = j => Full(tabs'[q], u)
        BY <3>3, <4>1 DEF Full
      <4> QED
        BY <1>4, <1>11, <3>2, <3>5, <4>2 DEF Drawn
    <3> QED
      BY <3>4, <3>5
  <2> QED
    BY <2>1, <2>2 DEF WordsKept
<1>18. ASSUME live, Agreed', Dialogs, Rooms
       PROVE  Rooms'
  <2>1. RoomsShown'
    <3> SUFFICES ASSUME NEW j \in Indices, room'[j] # NoChannel
                 PROVE  (Leaving(j) \/ Comes(j, room[j]) \/ Shown(j, room[j]))'
      BY DEF RoomsShown
    <3>1. PICK d : d = room[j] /\ d = room'[j]
      BY <1>1
    <3>2. Leaving(j) \/ Comes(j, d) \/ Shown(j, d)
      BY <1>1, <1>18, <3>1 DEF Rooms, RoomsShown
    <3>3. Leaving(j) => Leaving(j)'
      BY <1>1 DEF Leaving
    <3>4. Comes(j, d) => Comes(j, d)' \/ Shown(j, d)'
      <4>1. warning'.close_tab # r
        <5>1. warning.close_tab = 0 \/ warning.close_tab \in DOMAIN tabs
          BY <1>18 DEF Dialogs, Warned
        <5>2. r # 0 /\ (r \in DOMAIN tabs => r = TabOf(c) /\ r # 0)
          BY <1>6, <1>7
        <5> QED
          BY <1>4, <1>5, <1>18, <5>1, <5>2
      <4>2. Stands(i, c)'
        BY <1>7, <4>1 DEF Stands
      <4> QED
        BY <1>11, <1>12, <4>2 DEF Shown
    <3>5. Shown(j, d) => Shown(j, d)'
      <4> SUFFICES ASSUME Shown(j, d) PROVE Shown(j, d)'
        OBVIOUS
      <4>1. Unjoined(d)' /\ d # c
        BY <1>12 DEF Shown
      <4>2. Stands(j, d)'
        BY <1>4, <1>9, <4>1 DEF Shown, Stands
      <4> QED
        BY <1>11, <4>1, <4>2 DEF Shown
    <3> QED
      BY <3>1, <3>2, <3>3, <3>4, <3>5
  <2>2. TabsStand'
    <3> SUFFICES ASSUME NEW q \in DOMAIN tabs', tabs'[q].channel_index # 0
                 PROVE  \/ room'[tabs'[q].channel_index] = tabs'[q].channel
                        \/ RemovalComes(tabs[q].channel_index)'
                        \/ warning'.close_tab = q
      BY DEF TabsStand
    <3>1. CASE q = r
      <4>1. room[i] = c \/ RemovalAfter(1, i)
        BY <1>2, <1>3, <1>10, <1>18 DEF Rooms, JoinsStand
      <4>2. RemovalAfter(1, i) => RemovalComes(i)'
        <5> SUFFICES ASSUME NEW l \in DOMAIN events, l > 1, RemovedFrom(events[l], i)
                     PROVE  RemovalComes(i)'
          BY DEF RemovalAfter
        <5>1. l - 1 \in DOMAIN events' /\ events'[l - 1] = events[l]
          BY <1>10
        <5> QED
          BY <5>1 DEF RemovalComes
      <4> QED
        BY <1>1, <1>7, <3>1, <4>1, <4>2
    <3>2. CASE q # r
      <4>1. PICK j : j = tabs[q].channel_index /\ j = tabs'[q].channel_index
        BY <1>8, <3>2
      <4>2. room[j] = tabs[q].channel \/ RemovalComes(j) \/ warning.close_tab = q
        BY <1>8, <1>11, <1>18, <3>2, <4>1 DEF Rooms, TabsStand
      <4> QED
        BY <1>1, <1>4, <1>8, <1>12, <3>2, <4>1, <4>2
    <3> QED
      BY <3>1, <3>2
  <2>3. JoinsStand'
    BY <1>1, <1>12, <1>18 DEF Rooms, JoinsStand
  <2>4. WireLeft'
    <3> SUFFICES ASSUME NEW j \in Indices, Leaves(wire', j)
                 PROVE  LetGo(j)'
      BY DEF WireLeft
    <3>1. LetGo(j)
      BY <1>1, <1>18 DEF Rooms, WireLeft
    <3>2. j # i
      BY <1>10, <3>1 DEF LetGo
    <3>3. \A q \in DOMAIN tabs' : tabs'[q].channel_index # j
      BY <1>7, <1>8, <3>1, <3>2 DEF LetGo
    <3>4. \A l \in DOMAIN events' : ~JoinedAs(events'[l], j)
      BY <1>12, <3>1 DEF LetGo
    <3> QED
      BY <3>3, <3>4 DEF LetGo
  <2> QED
    BY <2>1, <2>2, <2>3, <2>4 DEF Rooms
<1> QED
  BY <1>1, <1>5, <1>13, <1>14, <1>15, <1>16, <1>17, <1>18, TurnViews

\* An event that the application handles.
LEMMA HandleViews ==
  ASSUME IInv, ViewsInv, handle_client_event
  PROVE  ViewsInv'
<1>1. Head(events) \in Events
  BY TakenEvent
<1>2. PICK e \in Events : e = Head(events)
  BY <1>1
<1>3. CASE e.type \in StageNames
  <2>1. OnStage(Head(events))
    BY <1>2, <1>3 DEF handle_client_event, StageNames
  <2> QED
    BY <1>2, <1>3, <2>1, StageViews
<1>4. CASE e.type = "Joined"
  BY <1>2, <1>4, JoinedViews DEF handle_client_event
<1>5. CASE e.type = "JoinRejected"
  BY <1>2, <1>5, RejectionViews DEF handle_client_event
<1>6. CASE e.type = "Roster"
  BY <1>2, <1>6, RosterViews DEF handle_client_event
<1>7. CASE e.type = "Removed"
  BY <1>2, <1>7, RemovalViews DEF handle_client_event
<1>8. CASE e.type = "Message"
  BY <1>2, <1>8, MessageViews DEF handle_client_event
<1> QED
  BY <1>3, <1>4, <1>5, <1>6, <1>7, <1>8 DEF Events

\* A step of the user.
LEMMA UserViews ==
  ASSUME IInv, ViewsInv, User
  PROVE  ViewsInv'
  BY JoinPressViews, PressViews, WarningCloseViews, WarningGoesViews, DragViews, ReconnectViews DEF User

\* A step of the application.
LEMMA AppViews ==
  ASSUME IInv, ViewsInv, App
  PROVE  ViewsInv'
  BY FinishCloseViews, ExpireViews, FlushViews, HandleViews DEF App

\* The views agree when the program starts.
LEMMA InitViews ==
  ASSUME Init
  PROVE  ViewsInv
<1>1. PICK i : i = (CHOOSE j \in Indices : TRUE)
  OBVIOUS
<1>2. i \in Indices
  BY <1>1, ChannelsAssumption
<1>3. /\ tabs = <<[Tab(General, i) EXCEPT !.users = Members(General), !.complete = TRUE]>>
      /\ channels = [[j \in Indices |-> Absent] EXCEPT ![i] =
           [there |-> TRUE, channel |-> General, mine |-> TRUE,
            roster |-> Members(General), complete |-> TRUE]]
      /\ room = [[j \in Indices |-> NoChannel] EXCEPT ![i] = General]
      /\ pending_rosters = [j \in Indices |-> NoRoster]
      /\ warning = NoWarning /\ connecting = "no"
      /\ events = <<>> /\ wire = <<>> /\ owed = {} /\ live = TRUE
  BY <1>1 DEF Init
<1>4. PICK u : u = Members(General)
  OBVIOUS
<1>5. /\ DOMAIN tabs = {1} /\ tabs[1].channel = General /\ tabs[1].channel_index = i
      /\ Full(tabs[1], u)
  <2> DEFINE t == [Tab(General, i) EXCEPT !.users = u, !.complete = TRUE]
  <2>1. t.channel = General /\ t.channel_index = i /\ t.users = u /\ t.complete
    BY DEF Tab
  <2>2. tabs = <<t>>
    BY <1>3, <1>4
  <2> HIDE DEF t
  <2> QED
    BY <2>1, <2>2 DEF Full
<1>6. /\ channels[i].mine /\ channels[i].complete /\ channels[i].roster = u
      /\ room[i] = General
      /\ \A j \in Indices : j # i => room[j] = NoChannel
  BY <1>2, <1>3, <1>4
<1>7. DOMAIN events = {} /\ DOMAIN wire = {} /\ warning.close_tab = 0 /\ i # 0
  BY <1>2, <1>3, ChannelsAssumption DEF NoWarning
<1>8. \A j \in Indices : ~pending_rosters[j].there
  BY <1>3 DEF NoRoster
<1>9. Shore
  BY <1>3, <1>5, <1>6, <1>7 DEF Shore, Waits, UpBefore, RoomsDiffer, RoomsEmpty
<1>10. Dialogs
  BY <1>7 DEF Dialogs, Warned, RemovedGone, RemovalComes
<1>11. Rooms
  <2>1. Shown(i, General)
    BY <1>5, <1>7 DEF Shown, Has, Unjoined, Stands
  <2>2. RoomsShown
    BY <1>6, <2>1 DEF RoomsShown
  <2>3. TabsStand
    BY <1>5, <1>6 DEF TabsStand
  <2>4. JoinsStand /\ WireLeft
    BY <1>7 DEF JoinsStand, WireLeft, Leaves
  <2> QED
    BY <2>2, <2>3, <2>4 DEF Rooms
<1>12. Rosters
  <2>1. SlotsFit
    BY <1>4, <1>6 DEF SlotsFit
  <2>2. Drawn(i, u)
    BY <1>2, <1>5, <1>7, <1>8 DEF Drawn, Has
  <2>3. RostersFit
    BY <1>4, <1>6, <2>2 DEF RostersFit
  <2> QED
    BY <2>1, <2>3 DEF Rosters
<1> QED
  BY <1>9, <1>10, <1>11, <1>12 DEF ViewsInv

\* No step parts the views for good.
LEMMA StepViews ==
  ASSUME IInv, ViewsInv, [Next]_vars
  PROVE  ViewsInv'
<1>1. CASE UNCHANGED vars
  <2>1. UNCHANGED <<appVars, cmds, events, chatVars, serviceVars, history>>
    BY <1>1 DEF vars
  <2>2. UNCHANGED <<tabs, warning, awaiting_joins, connecting, pending_rosters, slips>>
    BY <2>1 DEF appVars, history
  <2> QED
    BY <2>1, <2>2, StillViews
<1> QED
  BY <1>1, UserViews, AppViews, WorkerViews, ServiceViews DEF Next

\* Where a room of the service is in every reachable state: in a tab, in a join the application
\* has not handled yet, or in a leave on its way; and where the last word on its roster is.
THEOREM ViewsInvariant == Spec => []ViewsInv
<1>1. Init => ViewsInv
  BY InitViews
<1>2. IInv /\ ViewsInv /\ [Next]_vars => ViewsInv'
  BY StepViews
<1> QED
  BY <1>1, <1>2, ChannelsInvariant, PTL DEF Spec

\* When all is quiet the tab strip, LiveChat and the service agree: every room the service has us
\* in has one tab, under its index and with everybody who is in the room, and every tab with an
\* index is such a room's, although joins, leaves, rosters, removals and connections pass each
\* other on the way: unless a dialog that was to close a tab was replaced or went with another product
\* in front (animation.rs closes a tab of StarCraft II only), a position in the tab strip was held
\* while a tab before it went, was joined again, or was carried past it (drag.rs), or the
\* service's answer could not be told from another's.
THEOREM TabsMatchRooms == Spec => []TabsAgree
<1>1. ASSUME IInv, ViewsInv, Quiet, Agreed
      PROVE  /\ \A i \in Indices : room[i] # NoChannel =>
                  \E p \in DOMAIN tabs :
                    /\ tabs[p] = [channel |-> room[i], channel_index |-> i,
                                  users |-> Members(room[i]), complete |-> TRUE]
                    /\ \A q \in DOMAIN tabs \ {p} : tabs[q].channel # room[i]
             /\ \A p \in DOMAIN tabs :
                  IF tabs[p].channel_index = 0 THEN tabs[p].channel = General
                  ELSE room[tabs[p].channel_index] = tabs[p].channel
  <2>1. /\ live /\ DOMAIN cmds = {} /\ DOMAIN events = {} /\ DOMAIN wire = {} /\ owed = {}
        /\ \A i \in Indices : ~pending_rosters[i].there
        /\ warning.close_tab = 0 /\ awaiting_joins = {}
    BY <1>1 DEF Quiet, NoWarning
  <2>2. tabs \in Seq(TabSet) /\ OneTab /\ DOMAIN tabs = 1 .. Len(tabs)
    BY <1>1 DEF IInv, Types, AppType
  <2>3. Rooms /\ Rosters /\ Waits
    BY <1>1, <2>1 DEF ViewsInv, Shore
  <2>4. ASSUME NEW i \in Indices, room[i] # NoChannel
        PROVE  \E p \in DOMAIN tabs :
                 /\ tabs[p] = [channel |-> room[i], channel_index |-> i,
                               users |-> Members(room[i]), complete |-> TRUE]
                 /\ \A q \in DOMAIN tabs \ {p} : tabs[q].channel # room[i]
    <3>1. ~Leaving(i) /\ ~Comes(i, room[i]) /\ ~Leaves(wire, i)
      BY <2>1 DEF Leaving, Leaves, Comes
    <3>2. Stands(i, room[i])
      BY <2>3, <2>4, <3>1 DEF Rooms, RoomsShown, Shown
    <3>3. PICK p \in DOMAIN tabs : tabs[p].channel = room[i] /\ tabs[p].channel_index = i
      BY <3>2 DEF Stands
    <3>4. Reported(i, Members(room[i])) \/ Drawn(i, Members(room[i]))
      BY <2>1, <2>3, <2>4, <3>1 DEF Rosters, RostersFit
    <3>5. Full(tabs[p], Members(room[i]))
      BY <2>1, <3>3, <3>4 DEF Reported, Drawn
    <3>6. tabs[p] \in TabSet
      BY <2>2
    <3>7. tabs[p] = [channel |-> room[i], channel_index |-> i,
                     users |-> Members(room[i]), complete |-> TRUE]
      BY <3>3, <3>5, <3>6 DEF TabSet, Full
    <3>8. \A q \in DOMAIN tabs \ {p} : tabs[q].channel # room[i]
      BY <2>2, <3>3 DEF OneTab
    <3> QED
      BY <3>7, <3>8
  <2>5. ASSUME NEW p \in DOMAIN tabs
        PROVE  IF tabs[p].channel_index = 0 THEN tabs[p].channel = General
               ELSE room[tabs[p].channel_index] = tabs[p].channel
    <3>1. tabs[p].channel_index = 0 => tabs[p].channel = General
      BY <2>1, <2>3 DEF Waits
    <3>2. tabs[p].channel_index # 0 => room[tabs[p].channel_index] = tabs[p].channel
      BY <2>1, <2>2, <2>3 DEF Rooms, TabsStand, Has, RemovalComes
    <3> QED
      BY <3>1, <3>2
  <2> QED
    BY <2>4, <2>5
<1>2. IInv /\ ViewsInv => TabsAgree
  BY <1>1 DEF TabsAgree, Agreed
<1> QED
  BY <1>2, ChannelsInvariant, ViewsInvariant, PTL
=============================================================================
