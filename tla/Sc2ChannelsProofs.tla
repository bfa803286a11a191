-------------------------- MODULE Sc2ChannelsProofs --------------------------
EXTENDS Sc2Channels, SequenceTheorems, WellFoundedInduction, TLAPS

(***************************************************************************)
(* A tab, a command, a request, an event and a slot of LiveChat all name a *)
(* channel by its index, and each is read long after it was written; what  *)
(* the properties say of one of them follows only from what is true of all *)
(* of them at once.  The invariant IInv has four parts:                    *)
(*  - Course: which stages of a connection can be under way together with  *)
(*    which commands, so that a new connection finds no command and no     *)
(*    request of the one before;                                           *)
(*  - TokensFit: a join's token stands for one channel at both ends;       *)
(*  - Fit: an index that anything refers to stands for its channel, or for *)
(*    none, at the service;                                                *)
(*  - Held: an index that anything refers to is open in LiveChat, one tab  *)
(*    has it, and nothing refers to it after the command to leave.         *)
(* Fit holds until an index is given out again under way, or a join goes   *)
(* unclaimed (Kept); Held until one of these or a "shifted" (Sound).       *)
(* On top of it LinesInv says where each line is: SaidOnce, ShownFits and  *)
(* EchoesDue; and ReturnInv where each channel is that a reconnect is to   *)
(* bring back: Coming, or Back.  Sc2ViewsProofs goes on from here.         *)
(*                                                                         *)
(* The actions fall into classes with a lemma each: those that pass        *)
(* something on (Passes), end the connection (Stops), move events and      *)
(* tabs (Aside, Keeps, Moves), take a command (Serves) and give out an     *)
(* index (Admits); what begins and establishes a connection stands alone.  *)
(* For the lines there are Calm, Hears and Prompts.                        *)
(***************************************************************************)

-----------------------------------------------------------------------------
(* Types.                                                                  *)

TabSet == [channel : Channels, channel_index : Indices \cup {0},
           users : SUBSET People, complete : BOOLEAN]
Requests ==
  {q \in [type : {"Join", "Leave", "Say"}, channel : Channels \cup {NoChannel},
          channel_index : Indices \cup {0}, key : Nat] :
     IF q.type = "Join" THEN q.channel \in Channels /\ q.channel_index = 0 ELSE q.channel_index \in Indices}
Connects == [type : {"Connect"}, channels : Seq(Channels)]
StageNames == {"WebAuthentication", "Connected", "Error"}
Events ==
  {e \in [type : {"Joined", "JoinRejected", "Roster", "Removed", "Message"} \cup StageNames,
          channel_index : Indices \cup {0}, channel : Channels \cup {NoChannel},
          users : SUBSET People, complete : BOOLEAN, line : Nat] :
     /\ e.type = "Joined" => e.channel \in Channels /\ e.channel_index \in Indices
     /\ e.type = "Roster" => e.channel_index \in Indices}
Slots == [there : BOOLEAN, channel : Channels \cup {NoChannel}, mine : BOOLEAN,
          roster : SUBSET People, complete : BOOLEAN]
RosterSet == [there : BOOLEAN, users : SUBSET People, complete : BOOLEAN]

AppType ==
  /\ tabs \in Seq(TabSet)
  /\ pending_rosters \in [Indices -> RosterSet]
  /\ awaiting_joins \subseteq Channels
  /\ tab_close \in Nat
ChatType ==
  /\ cmds \in Seq(Requests \cup Connects)
  /\ events \in Seq(Events)
  /\ live \in BOOLEAN
  /\ joining \in Seq(Channels)
  /\ channels \in [Indices -> Slots]
  /\ last_token \in Nat
  /\ pending_joins \subseteq [token : 1 .. last_token, channel : Channels]
ServiceType ==
  /\ wire \in Seq(Requests)
  /\ room \in [Indices -> Channels \cup {NoChannel}]
  /\ owed \subseteq Indices
LineType ==
  /\ typed \in Seq(Channels)
  /\ heard \in Seq(Channels \cup {NoChannel})
  /\ Len(heard) = Len(typed)

-----------------------------------------------------------------------------
(* The course of a connection.                                             *)

Has(evs, type) == \E k \in DOMAIN evs : evs[k].type = type
Calls == \E k \in DOMAIN cmds : cmds[k].type = "Connect"
Shut == connecting = "yes" /\ tab_close = 0
Stopped == ~live /\ joining = <<>> /\ ~Calls

Offline == ~live => wire = <<>> /\ owed = {}
Dialing ==
  joining # <<>> =>
    /\ ~live /\ cmds = <<>> /\ Shut
    /\ events = <<Stage("WebAuthentication")>>
         \/ (events = <<>> /\ \A p \in DOMAIN tabs : tabs[p].channel_index = 0)
Called ==
  \A k \in DOMAIN cmds : cmds[k].type = "Connect" =>
    k = Len(cmds) /\ ~live /\ joining = <<>> /\ events = <<>> /\ Shut
FailedLast == \A k \in DOMAIN events : events[k].type = "Error" => k = Len(events) /\ Stopped
FailureShown == warning.kind = "disconnected" \/ connecting = "failed" => Stopped /\ events = <<>>
ConnectedOnce ==
  \A k \in DOMAIN events : events[k].type = "Connected" =>
    Shut /\ cmds = <<>> /\ \A l \in DOMAIN events : events[l].type = "Connected" => l = k
StageFirst == \A k \in DOMAIN events : events[k].type = "WebAuthentication" => k = 1 /\ Shut /\ cmds = <<>>
Course == Offline /\ Dialing /\ Called /\ FailedLast /\ FailureShown /\ ConnectedOnce /\ StageFirst

-----------------------------------------------------------------------------
(* What an index stands for.                                               *)

TokensFit ==
  \A k \in DOMAIN wire : wire[k].type = "Join" =>
    /\ wire[k].key \in 1 .. last_token
    /\ \A j \in pending_joins : j.token = wire[k].key => j.channel = wire[k].channel
Fits(i, c) == room[i] \in {NoChannel, c}
SaysFit(q) ==
  \A k \in DOMAIN q : q[k].type = "Say" =>
    q[k].key \in DOMAIN typed /\ Fits(q[k].channel_index, typed[q[k].key])
TabsFit ==
  ~Has(events, "WebAuthentication") =>
    \A p \in DOMAIN tabs : tabs[p].channel_index # 0 => Fits(tabs[p].channel_index, tabs[p].channel)
JoinsFit ==
  \A k \in DOMAIN events : events[k].type = "Joined" => Fits(events[k].channel_index, events[k].channel)
HeardFits == \A n \in DOMAIN heard : heard[n] \in {NoChannel, typed[n]}
Kept == slips \cap {"shared", "unclaimed"} = {}

-----------------------------------------------------------------------------
(* Which indices the application may still use.                            *)

Open(i) == channels[i].there /\ channels[i].mine
OneTab == \A p, q \in DOMAIN tabs : tabs[p].channel = tabs[q].channel => p = q
Refers(q, i) == q.type \in {"Leave", "Say"} /\ q.channel_index = i
CmdsOpen == \A k \in DOMAIN cmds, i \in Indices : Refers(cmds[k], i) => Open(i)
JoinsOpen == \A k \in DOMAIN events : events[k].type = "Joined" => Open(events[k].channel_index)
JoinsDiffer ==
  \A k, l \in DOMAIN events :
    events[k].type = "Joined" /\ events[l].type = "Joined"
      /\ events[k].channel_index = events[l].channel_index => k = l
TabsOpen ==
  ~Has(events, "WebAuthentication") =>
    \A p \in DOMAIN tabs : tabs[p].channel_index # 0 =>
      /\ Open(tabs[p].channel_index)
      /\ \A q \in DOMAIN tabs : tabs[q].channel_index = tabs[p].channel_index => p = q
      /\ \A k \in DOMAIN events :
           events[k].type = "Joined" /\ events[k].channel_index = tabs[p].channel_index =>
             events[k].channel = tabs[p].channel
LeftForGood ==
  \A k \in DOMAIN cmds : cmds[k].type = "Leave" =>
    /\ \A l \in DOMAIN cmds : l > k => ~Refers(cmds[l], cmds[k].channel_index)
    /\ \A p \in DOMAIN tabs : tabs[p].channel_index # cmds[k].channel_index
    /\ \A l \in DOMAIN events :
         ~(events[l].type = "Joined" /\ events[l].channel_index = cmds[k].channel_index)
Sound == slips \cap {"shifted", "shared", "unclaimed"} = {}
Held == CmdsOpen /\ JoinsOpen /\ JoinsDiffer /\ TabsOpen /\ LeftForGood
Types == AppType /\ ChatType /\ ServiceType /\ LineType /\ OneTab
Fit == SaysFit(cmds) /\ SaysFit(wire) /\ TabsFit /\ JoinsFit /\ HeardFits
IInv ==
  /\ Types /\ Course /\ TokensFit
  /\ Kept => Fit
  /\ live /\ Sound => Held
  /\ CommandsSurvive

-----------------------------------------------------------------------------
(* A line and its echo.                                                    *)

Once == slips \cap {"shared", "unclaimed", "shifted", "late echo"} = {}
SayOf(q, n) == q.type = "Say" /\ q.key = n
MessageOf(e, n) == e.type = "Message" /\ e.line = n
LineShapes ==
  /\ lines \in Seq(Seq(Channels)) /\ Len(lines) = Len(typed)
  /\ \A k \in DOMAIN cmds : cmds[k].type = "Say" => cmds[k].key \in DOMAIN typed
  /\ \A k \in DOMAIN wire : wire[k].type = "Say" => wire[k].key \in DOMAIN typed
  /\ \A k \in DOMAIN events : events[k].type = "Message" =>
       events[k].channel_index \in Indices /\ events[k].line \in DOMAIN typed
SaidOnce ==
  /\ \A k, l \in DOMAIN wire :
       wire[k].type = "Say" /\ SayOf(wire[l], wire[k].key) => k = l
  /\ \A k \in DOMAIN cmds : cmds[k].type = "Say" =>
       /\ \A l \in DOMAIN cmds : SayOf(cmds[l], cmds[k].key) => l = k
       /\ \A l \in DOMAIN wire : ~SayOf(wire[l], cmds[k].key)
       /\ \A l \in DOMAIN events : ~MessageOf(events[l], cmds[k].key)
       /\ lines[cmds[k].key] = <<>>
\* Of the tabs ts and the events es: none has the index i, or will give it to a tab,
Gone(ts, es, i) ==
  /\ \A p \in DOMAIN ts : ts[p].channel_index # i
  /\ \A k \in DOMAIN es : ~(es[k].type = "Joined" /\ es[k].channel_index = i)
\* and those that do are of channel c.
Means(ts, es, i, c) ==
  /\ \A p \in DOMAIN ts : ts[p].channel_index = i => ts[p].channel = c
  /\ \A k \in DOMAIN es : es[k].type = "Joined" /\ es[k].channel_index = i => es[k].channel = c
\* The line of event k has not been shown, and only event k can show it.
Unshown(ts, es, ls, k) ==
  /\ ls[es[k].line] = <<>>
  /\ \A l \in DOMAIN es : MessageOf(es[l], es[k].line) /\ l # k => Gone(ts, es, es[l].channel_index)
ShownFits ==
  /\ \A n \in DOMAIN lines : lines[n] \in {<<>>, <<typed[n]>>}
  /\ \A k \in DOMAIN events : events[k].type = "Message" =>
       /\ Means(tabs, events, events[k].channel_index, typed[events[k].line])
       /\ Gone(tabs, events, events[k].channel_index) \/ Unshown(tabs, events, lines, k)
EchoOf(q) == [channel_index |-> q.channel_index, line |-> q.key]
EchoesDue ==
  live =>
    /\ \A k \in DOMAIN cmds : cmds[k].type = "Say" =>
         Means(tabs, events, cmds[k].channel_index, typed[cmds[k].key])
    /\ \A k \in DOMAIN wire : wire[k].type = "Say" =>
         Gone(tabs, events, wire[k].channel_index) \/ EchoOf(wire[k]) \in echoes
LinesInv == LineShapes /\ SaidOnce /\ (Once => ShownFits /\ EchoesDue)

-----------------------------------------------------------------------------
(* Sequences.                                                              *)

\* The order of the natural numbers as a relation, and that it is well-founded.
Less == {pair \in Nat \X Nat : pair[1] < pair[2]}

\* A non-empty set of numbers has a least one, which Min returns.
LEMMA MinIsMember ==
  ASSUME NEW S \in SUBSET Nat, S # {}
  PROVE  Min(S) \in S /\ \A y \in S : Min(S) <= y
<1>0. IsWellFoundedOn(Less, Nat)
  BY Zenon, NatLessThanWellFounded DEF OpToRel, Less
<1>1. PICK x \in S : \A y \in S : ~(<<y, x>> \in Less)
  BY <1>0, WFMin
<1>2. ASSUME NEW y \in S
      PROVE  x <= y
  <2>1. <<y, x>> \in Nat \X Nat /\ <<y, x>>[1] = y /\ <<y, x>>[2] = x
    OBVIOUS
  <2> QED
    BY <1>1, <2>1 DEF Less
<1> QED
  BY <1>2 DEF Min

\* Where the members of two sequences are in the two put together.
LEMMA ConcatPlaces ==
  ASSUME NEW S, NEW a \in Seq(S), NEW b \in Seq(S)
  PROVE  /\ a \o b \in Seq(S) /\ Len(a) \in Nat /\ Len(b) \in Nat
         /\ Len(a \o b) = Len(a) + Len(b)
         /\ DOMAIN (a \o b) = 1 .. Len(a) + Len(b)
         /\ \A i \in 1 .. Len(a) : (a \o b)[i] = a[i]
         /\ \A i \in 1 .. Len(b) : (a \o b)[Len(a) + i] = b[i]
  BY ConcatProperties

\* A member of two sequences put together is a member of one of them.
LEMMA ConcatMembers ==
  ASSUME NEW S, NEW a \in Seq(S), NEW b \in Seq(S), NEW k \in DOMAIN (a \o b)
  PROVE  \/ k \in DOMAIN a /\ (a \o b)[k] = a[k]
         \/ k - Len(a) \in DOMAIN b /\ (a \o b)[k] = b[k - Len(a)] /\ k \notin DOMAIN a
<1>1. /\ Len(a) \in Nat /\ Len(b) \in Nat /\ DOMAIN (a \o b) = 1 .. Len(a) + Len(b)
      /\ \A i \in 1 .. Len(a) : (a \o b)[i] = a[i]
      /\ \A i \in 1 .. Len(b) : (a \o b)[Len(a) + i] = b[i]
  BY ConcatPlaces
<1> DEFINE all == a \o b
<1> HIDE DEF all
<1>2. /\ DOMAIN all = 1 .. Len(a) + Len(b)
      /\ \A i \in 1 .. Len(a) : all[i] = a[i]
      /\ \A i \in 1 .. Len(b) : all[Len(a) + i] = b[i]
      /\ k \in DOMAIN all
  BY <1>1 DEF all
<1>3. CASE k \in 1 .. Len(a)
  BY <1>2, <1>3 DEF all
<1>4. CASE k \notin 1 .. Len(a)
  <2>1. k - Len(a) \in 1 .. Len(b) /\ k = Len(a) + (k - Len(a))
    BY <1>1, <1>2, <1>4
  <2>2. all[k] = b[k - Len(a)]
    BY <1>2, <2>1
  <2> QED
    BY <1>4, <2>1, <2>2 DEF all
<1> QED
  BY <1>3, <1>4

\* What a sequence is without its first member.
LEMMA TailPlaces ==
  ASSUME NEW S, NEW s \in Seq(S), s # <<>>
  PROVE  /\ Tail(s) \in Seq(S) /\ Head(s) \in S /\ Head(s) = s[1] /\ 1 \in DOMAIN s
         /\ Len(s) \in Nat \ {0} /\ Len(Tail(s)) = Len(s) - 1
         /\ \A k \in DOMAIN Tail(s) : k + 1 \in DOMAIN s /\ Tail(s)[k] = s[k + 1] /\ k \in Nat \ {0}
<1>1. /\ Tail(s) \in Seq(S) /\ Head(s) \in S /\ Head(s) = s[1] /\ Len(s) \in Nat \ {0}
      /\ Len(Tail(s)) = Len(s) - 1 /\ \A k \in 1 .. Len(Tail(s)) : Tail(s)[k] = s[k + 1]
  BY HeadTailProperties
<1> QED
  BY <1>1

\* Appending one member.
LEMMA AppendPlaces ==
  ASSUME NEW S, NEW s \in Seq(S), NEW x \in S
  PROVE  /\ Append(s, x) \in Seq(S) /\ Len(Append(s, x)) = Len(s) + 1 /\ Len(s) \in Nat
         /\ DOMAIN Append(s, x) = 1 .. Len(s) + 1
         /\ \A k \in DOMAIN s : Append(s, x)[k] = s[k]
         /\ Append(s, x)[Len(s) + 1] = x
         /\ \A k \in DOMAIN Append(s, x) : k \in DOMAIN s \/ k = Len(s) + 1
  BY AppendProperties

\* The place, before the one at p went, of the member that is now at k.
Before(k, p) == IF k < p THEN k ELSE k + 1

\* What is left when a member is removed was there before.
LEMMA RemoveAtMembers ==
  ASSUME NEW S, NEW s \in Seq(S), NEW p \in DOMAIN s
  PROVE  /\ RemoveAt(s, p) \in Seq(S)
         /\ \A k \in DOMAIN RemoveAt(s, p) :
              /\ k \in Nat /\ Before(k, p) \in DOMAIN s
              /\ RemoveAt(s, p)[k] = s[Before(k, p)]
<1> DEFINE left == SubSeq(s, 1, p - 1)
           right == SubSeq(s, p + 1, Len(s))
<1>1. /\ Len(s) \in Nat /\ DOMAIN s = 1 .. Len(s) /\ p \in Nat /\ 1 <= p /\ p <= Len(s)
      /\ \A i \in 1 .. Len(s) : s[i] \in S
  OBVIOUS
<1>2. /\ left \in Seq(S) /\ Len(left) = p - 1 /\ \A i \in 1 .. p - 1 : left[i] = s[i]
  <2>1. \A i \in 1 .. p - 1 : s[i] \in S
    BY <1>1
  <2>2. 1 \in Int /\ p - 1 \in Int
    BY <1>1
  <2>3. /\ left \in Seq(S) /\ Len(left) = (IF 1 <= p - 1 THEN (p - 1) - 1 + 1 ELSE 0)
        /\ \A i \in 1 .. (p - 1) - 1 + 1 : left[i] = s[1 + i - 1]
    BY <2>1, <2>2, SubSeqProperties
  <2> HIDE DEF left
  <2> QED
    BY <1>1, <2>3
<1>3. /\ right \in Seq(S) /\ Len(right) = Len(s) - p /\ \A i \in 1 .. Len(s) - p : right[i] = s[p + i]
  <2>1. \A i \in p + 1 .. Len(s) : s[i] \in S
    BY <1>1
  <2>2. p + 1 \in Int /\ Len(s) \in Int
    BY <1>1
  <2>3. /\ right \in Seq(S) /\ Len(right) = (IF p + 1 <= Len(s) THEN Len(s) - (p + 1) + 1 ELSE 0)
        /\ \A i \in 1 .. Len(s) - (p + 1) + 1 : right[i] = s[(p + 1) + i - 1]
    BY <2>1, <2>2, SubSeqProperties
  <2> HIDE DEF right
  <2>4. /\ Len(s) - (p + 1) + 1 = Len(s) - p
        /\ (IF p + 1 <= Len(s) THEN Len(s) - (p + 1) + 1 ELSE 0) = Len(s) - p
        /\ \A i \in 1 .. Len(s) - p : (p + 1) + i - 1 = p + i
    BY <1>1
  <2>5. Len(right) = Len(s) - p
    BY <2>3, <2>4
  <2>6. ASSUME NEW i \in 1 .. Len(s) - p
        PROVE  right[i] = s[p + i]
    BY <2>3, <2>4
  <2> QED
    BY <2>3, <2>5, <2>6
<1>4. RemoveAt(s, p) = left \o right
  BY DEF RemoveAt
<1> HIDE DEF left, right
<1>5. RemoveAt(s, p) \in Seq(S)
  BY <1>2, <1>3, <1>4, ConcatPlaces
<1>6. ASSUME NEW k \in DOMAIN RemoveAt(s, p)
      PROVE  k \in Nat /\ Before(k, p) \in DOMAIN s /\ RemoveAt(s, p)[k] = s[Before(k, p)]
  <2>1. k \in DOMAIN (left \o right)
    BY <1>4
  <2>2. CASE k \in DOMAIN left /\ (left \o right)[k] = left[k]
    <3>1. k \in DOMAIN s /\ left[k] = s[k] /\ k < p /\ k \in Nat
      BY <1>1, <1>2, <2>2
    <3> QED
      BY <1>4, <2>2, <3>1 DEF Before
  <2>3. CASE k - Len(left) \in DOMAIN right /\ (left \o right)[k] = right[k - Len(left)]
    <3>0. k \in Nat
      BY <1>5
    <3> DEFINE j == k - Len(left)
    <3>1. j \in 1 .. Len(s) - p
      BY <1>3, <2>3
    <3>2. p + j = k + 1 /\ ~(k < p)
      BY <1>1, <1>2, <3>0, <3>1
    <3> HIDE DEF j
    <3>3. p + j \in DOMAIN s /\ right[j] = s[p + j]
      BY <1>1, <1>3, <3>1
    <3>4. Before(k, p) = p + j
      BY <3>2 DEF Before
    <3> QED
      BY <1>4, <2>3, <3>0, <3>3, <3>4 DEF j
  <2> QED
    BY <1>2, <1>3, <2>1, <2>2, <2>3, ConcatMembers
<1> QED
  BY <1>5, <1>6

\* The place of a tab of channel c that has no index.
Waiting(c) == SelectInSeq(tabs, LAMBDA t : t.channel = c /\ t.channel_index = 0)

\* The place that TabOf finds, and the one of a tab without an index.
LEMMA TabFound ==
  ASSUME tabs \in Seq(TabSet), NEW c
  PROVE  /\ TabOf(c) = 0 \/ (TabOf(c) \in DOMAIN tabs /\ tabs[TabOf(c)].channel = c)
         /\ Waiting(c) = 0 \/ (Waiting(c) \in DOMAIN tabs /\ tabs[Waiting(c)].channel = c)
<1> DEFINE all == {i \in 1 .. Len(tabs) : tabs[i].channel = c}
           open == {i \in 1 .. Len(tabs) : tabs[i].channel = c /\ tabs[i].channel_index = 0}
<1>1. TabOf(c) = IF all # {} THEN Min(all) ELSE 0
  BY DEF TabOf, SelectInSeq
<1>2. Waiting(c) = IF open # {} THEN Min(open) ELSE 0
  BY DEF Waiting, SelectInSeq
<1>3. all \in SUBSET Nat /\ open \in SUBSET Nat
  OBVIOUS
<1>4. all # {} => Min(all) \in all
  <2> HIDE DEF all
  <2> QED
    BY <1>3, MinIsMember
<1>5. open # {} => Min(open) \in open
  <2> HIDE DEF open
  <2> QED
    BY <1>3, MinIsMember
<1> QED
  BY <1>1, <1>2, <1>4, <1>5

-----------------------------------------------------------------------------
(* The shapes.                                                             *)

\* Every event that the worker sends is one.
LEMMA EventShapes ==
  /\ \A i \in Indices : \A c \in Channels : Joined(i, c) \in Events
  /\ \A c \in Channels \cup {NoChannel} : JoinRejected(c) \in Events
  /\ \A i \in Indices : Removed(i) \in Events
  /\ \A i \in Indices : \A n \in Nat : Message(i, n) \in Events
  /\ \A i \in Indices : \A entry \in Slots : Roster(i, entry) \in Events
  /\ \A s \in StageNames : Stage(s) \in Events
<1>1. \A i \in Indices : \A c \in Channels : Joined(i, c) \in Events
  BY DEF Events, Joined, Event, StageNames
<1>2. \A c \in Channels \cup {NoChannel} : JoinRejected(c) \in Events
  BY DEF Events, JoinRejected, Event, StageNames
<1>3. \A i \in Indices : Removed(i) \in Events
  BY DEF Events, Removed, Event, StageNames
<1>4. \A i \in Indices : \A n \in Nat : Message(i, n) \in Events
  BY DEF Events, Message, Event, StageNames
<1>5. \A i \in Indices : \A entry \in Slots : Roster(i, entry) \in Events
  BY DEF Events, Roster, Event, StageNames, Slots
<1>6. \A s \in StageNames : Stage(s) \in Events
  BY DEF Events, Stage, Event, StageNames
<1> QED
  BY <1>1, <1>2, <1>3, <1>4, <1>5, <1>6

\* What an event says of itself.
LEMMA EventFields ==
  /\ \A i, c : /\ Joined(i, c).type = "Joined" /\ Joined(i, c).channel_index = i
               /\ Joined(i, c).channel = c
  /\ \A c : JoinRejected(c).type = "JoinRejected" /\ JoinRejected(c).channel = c
  /\ \A i : Removed(i).type = "Removed"
  /\ \A i, n : Message(i, n).type = "Message"
  /\ \A i, entry : Roster(i, entry).type = "Roster"
  /\ \A s : Stage(s).type = s
  BY DEF Joined, JoinRejected, Removed, Message, Roster, Stage, Event

\* A request is not a call for a connection, and only a line or a leave refers to an index.
LEMMA RequestShapes ==
  /\ \A c \in Channels : \A k \in Nat :
       /\ Request("Join", c, 0, k) \in Requests
       /\ Request("Join", c, 0, k).type = "Join" /\ Request("Join", c, 0, k).key = k
       /\ Request("Join", c, 0, k).channel = c
  /\ \A i \in Indices :
       /\ Request("Leave", NoChannel, i, 0) \in Requests
       /\ Request("Leave", NoChannel, i, 0).type = "Leave"
       /\ Request("Leave", NoChannel, i, 0).channel_index = i
  /\ \A i \in Indices : \A n \in Nat :
       /\ Request("Say", NoChannel, i, n) \in Requests
       /\ Request("Say", NoChannel, i, n).type = "Say" /\ Request("Say", NoChannel, i, n).key = n
       /\ Request("Say", NoChannel, i, n).channel_index = i
  /\ \A q \in Requests :
       /\ q.type \in {"Join", "Leave", "Say"} /\ q.key \in Nat
       /\ q.type = "Join" => q.channel \in Channels
       /\ q.type # "Join" => q.channel_index \in Indices
  /\ \A q \in Connects : q.type = "Connect" /\ q.channels \in Seq(Channels)
<1>1. \A c \in Channels : \A k \in Nat :
       /\ Request("Join", c, 0, k) \in Requests
       /\ Request("Join", c, 0, k).type = "Join" /\ Request("Join", c, 0, k).key = k
       /\ Request("Join", c, 0, k).channel = c
  BY DEF Requests, Request
<1>2. \A i \in Indices :
       /\ Request("Leave", NoChannel, i, 0) \in Requests
       /\ Request("Leave", NoChannel, i, 0).type = "Leave"
       /\ Request("Leave", NoChannel, i, 0).channel_index = i
  BY DEF Requests, Request
<1>3. \A i \in Indices : \A n \in Nat :
       /\ Request("Say", NoChannel, i, n) \in Requests
       /\ Request("Say", NoChannel, i, n).type = "Say" /\ Request("Say", NoChannel, i, n).key = n
       /\ Request("Say", NoChannel, i, n).channel_index = i
  BY DEF Requests, Request
<1>4. \A q \in Requests :
       /\ q.type \in {"Join", "Leave", "Say"} /\ q.key \in Nat
       /\ q.type = "Join" => q.channel \in Channels
       /\ q.type # "Join" => q.channel_index \in Indices
  BY DEF Requests
<1>5. \A q \in Connects : q.type = "Connect" /\ q.channels \in Seq(Channels)
  BY DEF Connects
<1> QED
  BY <1>1, <1>2, <1>3, <1>4, <1>5

\* What is in the queue of commands.
LEMMA Commands ==
  ASSUME cmds \in Seq(Requests \cup Connects), NEW k \in DOMAIN cmds
  PROVE  /\ cmds[k].type # "Connect" => cmds[k] \in Requests
         /\ cmds[k].type = "Connect" => cmds[k] \in Connects
<1>1. cmds[k] \in Requests \cup Connects
  OBVIOUS
<1> QED
  BY <1>1, RequestShapes

\* What a tab is.
LEMMA TabTypes ==
  ASSUME tabs \in Seq(TabSet), NEW p \in DOMAIN tabs
  PROVE  /\ tabs[p] \in TabSet /\ tabs[p].channel \in Channels
         /\ tabs[p].channel_index # 0 => tabs[p].channel_index \in Indices
<1>1. tabs[p] \in TabSet
  OBVIOUS
<1> QED
  BY <1>1 DEF TabSet

\* The events after an emission: those before, in their places, and the new ones.
LEMMA Emission ==
  ASSUME NEW es \in Seq(Events), events \in Seq(Events), events' = events \o es
  PROVE  /\ events' \in Seq(Events)
         /\ \A k \in DOMAIN events : k \in DOMAIN events' /\ events'[k] = events[k]
         /\ \A k \in DOMAIN events' :
              \/ k \in DOMAIN events /\ events'[k] = events[k]
              \/ /\ k \notin DOMAIN events /\ k - Len(events) \in DOMAIN es
                 /\ events'[k] = es[k - Len(events)]
         /\ Len(events') = Len(events) + Len(es) /\ Len(events) \in Nat /\ Len(es) \in Nat
<1>1. /\ events \o es \in Seq(Events) /\ Len(events) \in Nat /\ Len(es) \in Nat
      /\ Len(events \o es) = Len(events) + Len(es)
      /\ DOMAIN (events \o es) = 1 .. Len(events) + Len(es)
      /\ \A i \in 1 .. Len(events) : (events \o es)[i] = events[i]
  BY ConcatPlaces
<1>2. \A k \in DOMAIN events : k \in DOMAIN (events \o es) /\ (events \o es)[k] = events[k]
  BY <1>1
<1>3. \A k \in DOMAIN (events \o es) :
              \/ k \in DOMAIN events /\ (events \o es)[k] = events[k]
              \/ /\ k \notin DOMAIN events /\ k - Len(events) \in DOMAIN es
                 /\ (events \o es)[k] = es[k - Len(events)]
  BY ConcatMembers
<1> QED
  BY <1>1, <1>2, <1>3

-----------------------------------------------------------------------------
(* The connection is up and LiveChat passes something on, or nothing; no   *)
(* index is given out.                                                     *)

Plain(es) == \A k \in DOMAIN es : es[k].type \notin StageNames \cup {"Joined"}
Passes(es) ==
  /\ live /\ live' = live /\ UNCHANGED <<appVars, cmds, joining, last_token, typed, dropped>>
  /\ slips \subseteq slips'
  /\ es \in Seq(Events) /\ Plain(es) /\ events' = events \o es
  /\ wire' = wire \/ (wire # <<>> /\ wire' = Tail(wire))
  /\ \A i \in Indices : room'[i] \in {room[i], NoChannel}
  /\ \A i \in Indices : Open(i) => Open(i)'
  /\ pending_joins' \subseteq pending_joins

\* A stage or a join among the events was there before.
LEMMA PassedEvents ==
  ASSUME events \in Seq(Events), NEW es, Passes(es)
  PROVE  /\ events' \in Seq(Events)
         /\ \A k \in DOMAIN events : k \in DOMAIN events' /\ events'[k] = events[k]
         /\ \A k \in DOMAIN events' : events'[k].type \in StageNames \cup {"Joined"} =>
              k \in DOMAIN events /\ events'[k] = events[k]
<1>1. es \in Seq(Events) /\ events' = events \o es /\ Plain(es)
  BY DEF Passes
<1> QED
  BY <1>1, Emission DEF Plain

\* The course of the connection is the same.
LEMMA PassesCourse ==
  ASSUME Types, Course, NEW es, Passes(es)
  PROVE  Course'
<1>1. /\ \A k \in DOMAIN events' : events'[k].type \in StageNames \cup {"Joined"} =>
              k \in DOMAIN events /\ events'[k] = events[k]
  BY PassedEvents DEF Types, ChatType
<1>2. /\ live /\ live' /\ cmds' = cmds /\ joining' = joining /\ warning' = warning
      /\ connecting' = connecting /\ tab_close' = tab_close
  BY DEF Passes, appVars
<1>3. joining = <<>> /\ ~Calls
  BY <1>2 DEF Course, Dialing, Called, Calls
<1>4. Offline' /\ Dialing' /\ Called'
  BY <1>2, <1>3 DEF Offline, Dialing, Called, Calls
<1>5. FailedLast'
  BY <1>1, <1>2 DEF Course, FailedLast, Stopped, StageNames
<1>6. FailureShown'
  BY <1>2 DEF Course, FailureShown, Stopped
<1>7. ConnectedOnce' /\ StageFirst'
  BY <1>1, <1>2 DEF Course, ConnectedOnce, StageFirst, StageNames, Shut
<1> QED
  BY <1>4, <1>5, <1>6, <1>7 DEF Course

\* A request that is still on its way was on its way before.
LEMMA WireMembers ==
  ASSUME wire \in Seq(Requests), wire' = wire \/ (wire # <<>> /\ wire' = Tail(wire)),
         NEW k \in DOMAIN wire'
  PROVE  \E l \in DOMAIN wire : wire'[k] = wire[l]
<1>1. CASE wire' = wire
  BY <1>1
<1>2. CASE wire # <<>> /\ wire' = Tail(wire)
  <2>1. k + 1 \in DOMAIN wire /\ Tail(wire)[k] = wire[k + 1]
    BY <1>2, TailPlaces
  <2> QED
    BY <1>2, <2>1
<1> QED
  BY <1>1, <1>2

\* Each line under way goes to its room, or to none, when no index gets a new room.
LEMMA PassesFit ==
  ASSUME Types, Types', NEW es, Passes(es), Kept => Fit, Kept' => HeardFits'
  PROVE  Kept' => Fit'
<1> SUFFICES ASSUME Kept' PROVE Fit'
  OBVIOUS
<1>1. Kept
  BY DEF Passes, Kept
<1>2. Fit
  BY <1>1
<1>3. /\ cmds' = cmds /\ typed' = typed /\ tabs' = tabs
      /\ \A i \in Indices : room'[i] \in {room[i], NoChannel}
  BY DEF Passes, appVars
<1>4. /\ \A k \in DOMAIN events : k \in DOMAIN events' /\ events'[k] = events[k]
      /\ \A k \in DOMAIN events' : events'[k].type \in StageNames \cup {"Joined"} =>
              k \in DOMAIN events /\ events'[k] = events[k]
  BY PassedEvents DEF Types, ChatType
<1>5. \A i \in Indices : \A c : Fits(i, c) => Fits(i, c)'
  BY <1>3 DEF Fits
<1>6. SaysFit(cmds)'
  <2> SUFFICES ASSUME NEW k \in DOMAIN cmds, cmds[k].type = "Say"
               PROVE  /\ cmds[k].key \in DOMAIN typed
                      /\ Fits(cmds[k].channel_index, typed[cmds[k].key])'
    BY <1>3 DEF SaysFit
  <2>1. cmds[k].channel_index \in Indices
    BY Commands, RequestShapes DEF Types, ChatType
  <2>2. cmds[k].key \in DOMAIN typed /\ Fits(cmds[k].channel_index, typed[cmds[k].key])
    BY <1>2 DEF Fit, SaysFit
  <2> QED
    BY <1>3, <2>1, <2>2 DEF Fits
<1>7. SaysFit(wire)'
  <2> SUFFICES ASSUME NEW k \in DOMAIN wire', wire'[k].type = "Say"
               PROVE  /\ wire'[k].key \in DOMAIN typed
                      /\ room'[wire'[k].channel_index] \in {NoChannel, typed[wire'[k].key]}
    BY <1>3 DEF SaysFit, Fits
  <2>1. PICK l \in DOMAIN wire : wire'[k] = wire[l]
    BY WireMembers DEF Types, ServiceType, Passes
  <2>2. wire[l].channel_index \in Indices
    BY <2>1, RequestShapes DEF Types, ServiceType
  <2>3. wire[l].key \in DOMAIN typed /\ Fits(wire[l].channel_index, typed[wire[l].key])
    BY <1>2, <2>1 DEF Fit, SaysFit
  <2> QED
    BY <1>3, <2>1, <2>2, <2>3 DEF Fits
<1>8. TabsFit'
  <2> SUFFICES ASSUME ~Has(events', "WebAuthentication"), NEW p \in DOMAIN tabs,
                      tabs[p].channel_index # 0
               PROVE  room'[tabs[p].channel_index] \in {NoChannel, tabs[p].channel}
    BY <1>3 DEF TabsFit, Fits, Has
  <2>1. ~Has(events, "WebAuthentication")
    BY <1>4 DEF Has
  <2>2. tabs[p].channel_index \in Indices
    BY TabTypes DEF Types, AppType
  <2> QED
    BY <1>2, <1>3, <2>1, <2>2 DEF Fit, TabsFit, Fits
<1>9. JoinsFit'
  <2> SUFFICES ASSUME NEW k \in DOMAIN events', events'[k].type = "Joined"
               PROVE  room'[events'[k].channel_index] \in {NoChannel, events'[k].channel}
    BY DEF JoinsFit, Fits
  <2>1. k \in DOMAIN events /\ events'[k] = events[k]
    BY <1>4
  <2>2. events[k].channel_index \in Indices
    BY <2>1 DEF Types, ChatType, Events
  <2> QED
    BY <1>2, <1>3, <2>1, <2>2 DEF Fit, JoinsFit, Fits
<1> QED
  BY <1>6, <1>7, <1>8, <1>9 DEF Fit

\* What the application may use stays open.
LEMMA PassesHeld ==
  ASSUME Types, Types', NEW es, Passes(es), live /\ Sound => Held
  PROVE  live' /\ Sound' => Held'
<1> SUFFICES ASSUME Sound' PROVE Held'
  OBVIOUS
<1>1. Held
  BY DEF Passes, Sound
<1>2. /\ cmds' = cmds /\ tabs' = tabs /\ \A i \in Indices : Open(i) => Open(i)'
  BY DEF Passes, appVars
<1>3. /\ \A k \in DOMAIN events : k \in DOMAIN events' /\ events'[k] = events[k]
      /\ \A k \in DOMAIN events' : events'[k].type \in StageNames \cup {"Joined"} =>
              k \in DOMAIN events /\ events'[k] = events[k]
  BY PassedEvents DEF Types, ChatType
<1>4. CmdsOpen'
  BY <1>1, <1>2 DEF Held, CmdsOpen
<1>5. JoinsOpen'
  <2> SUFFICES ASSUME NEW k \in DOMAIN events', events'[k].type = "Joined"
               PROVE  Open(events[k].channel_index)' /\ events'[k] = events[k]
    BY DEF JoinsOpen, Open
  <2>1. k \in DOMAIN events /\ events'[k] = events[k]
    BY <1>3
  <2>2. events[k].channel_index \in Indices
    BY <2>1 DEF Types, ChatType, Events
  <2>3. Open(events[k].channel_index)
    BY <1>1, <2>1 DEF Held, JoinsOpen
  <2>4. channels'[events[k].channel_index].there /\ channels'[events[k].channel_index].mine
    BY <1>2, <2>2, <2>3 DEF Open
  <2> QED
    BY <1>3, <2>1, <2>4 DEF Open
<1>6. JoinsDiffer'
  BY <1>1, <1>3 DEF Held, JoinsDiffer
<1>7. TabsOpen'
  <2> SUFFICES ASSUME ~Has(events', "WebAuthentication"), NEW p \in DOMAIN tabs,
                      tabs[p].channel_index # 0
               PROVE  /\ channels'[tabs[p].channel_index].there /\ channels'[tabs[p].channel_index].mine
                      /\ \A q \in DOMAIN tabs : tabs[q].channel_index = tabs[p].channel_index => p = q
                      /\ \A k \in DOMAIN events' :
                           events'[k].type = "Joined" /\ events'[k].channel_index = tabs[p].channel_index =>
                             events'[k].channel = tabs[p].channel
    BY <1>2 DEF TabsOpen, Open, Has
  <2>1. ~Has(events, "WebAuthentication")
    BY <1>3 DEF Has
  <2>2. tabs[p].channel_index \in Indices
    BY TabTypes DEF Types, AppType
  <2>3. /\ Open(tabs[p].channel_index)
        /\ \A q \in DOMAIN tabs : tabs[q].channel_index = tabs[p].channel_index => p = q
        /\ \A k \in DOMAIN events :
             events[k].type = "Joined" /\ events[k].channel_index = tabs[p].channel_index =>
               events[k].channel = tabs[p].channel
    BY <1>1, <2>1 DEF Held, TabsOpen
  <2>4. channels'[tabs[p].channel_index].there /\ channels'[tabs[p].channel_index].mine
    BY <1>2, <2>2, <2>3 DEF Open
  <2> QED
    BY <1>3, <2>3, <2>4
<1>8. LeftForGood'
  BY <1>1, <1>2, <1>3 DEF Held, LeftForGood, Refers
<1> QED
  BY <1>4, <1>5, <1>6, <1>7, <1>8 DEF Held

\* All together.
LEMMA PassesInv ==
  ASSUME IInv, Types', NEW es, Passes(es), Kept' => HeardFits'
  PROVE  IInv'
<1>1. Course'
  BY PassesCourse DEF IInv
<1>2. TokensFit'
  <2> SUFFICES ASSUME NEW k \in DOMAIN wire', wire'[k].type = "Join"
               PROVE  /\ wire'[k].key \in 1 .. last_token
                      /\ \A j \in pending_joins' : j.token = wire'[k].key => j.channel = wire'[k].channel
    BY DEF TokensFit, Passes
  <2>1. PICK l \in DOMAIN wire : wire'[k] = wire[l]
    BY WireMembers DEF IInv, Types, ServiceType, Passes
  <2> QED
    BY <2>1 DEF IInv, TokensFit, Passes
<1>3. Kept' => Fit'
  BY PassesFit DEF IInv
<1>4. live' /\ Sound' => Held'
  BY PassesHeld DEF IInv
<1>5. CommandsSurvive'
  BY DEF Passes, CommandsSurvive
<1> QED
  BY <1>1, <1>2, <1>3, <1>4, <1>5 DEF IInv

-----------------------------------------------------------------------------
(* The connection ends.                                                    *)

Stops ==
  /\ live /\ Ends
  /\ UNCHANGED <<appVars, typed, heard>>
  /\ cmds' = cmds \/ (cmds # <<>> /\ cmds' = Tail(cmds))
  /\ slips \subseteq slips'

\* A command that is left was there before.
LEMMA CmdsMembers ==
  ASSUME cmds \in Seq(Requests \cup Connects),
         cmds' = cmds \/ (cmds # <<>> /\ cmds' = Tail(cmds))
  PROVE  /\ cmds' \in Seq(Requests \cup Connects)
         /\ \A k \in DOMAIN cmds' : \E l \in DOMAIN cmds : cmds'[k] = cmds[l]
<1>1. CASE cmds' = cmds
  BY <1>1
<1>2. CASE cmds # <<>> /\ cmds' = Tail(cmds)
  <2>1. /\ Tail(cmds) \in Seq(Requests \cup Connects)
        /\ \A k \in DOMAIN Tail(cmds) : k + 1 \in DOMAIN cmds /\ Tail(cmds)[k] = cmds[k + 1]
    BY <1>2, TailPlaces
  <2> QED
    BY <1>2, <2>1
<1> QED
  BY <1>1, <1>2

\* A slot that is not there.
LEMMA AbsentSlot == Absent \in Slots
  BY DEF Absent, Slots

\* The types after the end.
LEMMA StopsTypes ==
  ASSUME Types, Stops
  PROVE  Types'
<1>1. AppType' /\ OneTab' /\ LineType'
  BY DEF Types, Stops, appVars, AppType, OneTab, LineType
<1>2. cmds' \in Seq(Requests \cup Connects)
  BY CmdsMembers DEF Types, ChatType, Stops
<1>3. events' \in Seq(Events)
  <2>1. Stage("Error") \in Events
    BY EventShapes DEF StageNames
  <2>2. <<Stage("Error")>> \in Seq(Events)
    BY <2>1
  <2> QED
    BY <2>2, Emission DEF Types, ChatType, Stops, Ends, Emit
<1>4. channels' \in [Indices -> Slots]
  BY AbsentSlot DEF Stops, Ends
<1>5. ChatType'
  BY <1>2, <1>3, <1>4 DEF Types, ChatType, Stops, Ends
<1>6. ServiceType'
  BY DEF Types, ServiceType, Stops, Ends
<1> QED
  BY <1>1, <1>5, <1>6 DEF Types

\* The error is the last event.
LEMMA StopsCourse ==
  ASSUME Types, Course, Stops
  PROVE  Course'
<1>1. /\ live /\ ~live' /\ joining' = joining /\ wire' = <<>> /\ owed' = {}
      /\ warning' = warning /\ connecting' = connecting /\ tab_close' = tab_close
      /\ events' = events \o <<Stage("Error")>>
  BY DEF Stops, Ends, Emit, appVars
<1>2. /\ \A k \in DOMAIN events' :
              \/ k \in DOMAIN events /\ events'[k] = events[k]
              \/ k = Len(events') /\ events'[k].type = "Error"
  <2>1. Stage("Error") \in Events /\ Stage("Error").type = "Error"
    BY EventShapes, EventFields DEF StageNames
  <2> DEFINE es == <<Stage("Error")>>
  <2>2. es \in Seq(Events) /\ DOMAIN es = {1} /\ es[1].type = "Error" /\ Len(es) = 1
    BY <2>1
  <2>3. events' = events \o es
    BY <1>1
  <2> HIDE DEF es
  <2>4. /\ \A k \in DOMAIN events' :
              \/ k \in DOMAIN events /\ events'[k] = events[k]
              \/ /\ k \notin DOMAIN events /\ k - Len(events) \in DOMAIN es
                 /\ events'[k] = es[k - Len(events)]
        /\ Len(events') = Len(events) + Len(es) /\ Len(events) \in Nat
        /\ events' \in Seq(Events)
    BY <2>2, <2>3, Emission DEF Types, ChatType
  <2> QED
    BY <2>2, <2>4
<1>3. joining = <<>> /\ ~Calls
  BY <1>1 DEF Course, Dialing, Called, Calls
<1>4. \A k \in DOMAIN cmds' : \E l \in DOMAIN cmds : cmds'[k] = cmds[l]
  BY CmdsMembers DEF Types, ChatType, Stops
<1>5. cmds = <<>> => cmds' = <<>>
  BY DEF Stops
<1>6. ~Calls'
  BY <1>3, <1>4 DEF Calls
<1>7. Offline' /\ Dialing' /\ Called'
  BY <1>1, <1>3, <1>6 DEF Offline, Dialing, Called, Calls
<1>8. FailedLast'
  BY <1>1, <1>2, <1>3, <1>6 DEF Course, FailedLast, Stopped
<1>9. FailureShown'
  BY <1>1 DEF Course, FailureShown, Stopped
<1>10. ConnectedOnce' /\ StageFirst'
  BY <1>1, <1>2, <1>5 DEF Course, ConnectedOnce, StageFirst, Shut
<1> QED
  BY <1>7, <1>8, <1>9, <1>10 DEF Course

\* All together: no index stands for a room any more.
LEMMA StopsInv ==
  ASSUME IInv, Stops, CommandsSurvive'
  PROVE  IInv'
<1>1. Types'
  BY StopsTypes DEF IInv
<1>2. Course'
  BY StopsCourse DEF IInv
<1>3. TokensFit'
  BY DEF TokensFit, Stops, Ends
<1>4. ASSUME Kept' PROVE Fit'
  <2>1. Fit
    BY <1>4 DEF IInv, Kept, Stops
  <2>2. \A i \in Indices : room'[i] = NoChannel
    BY DEF Stops, Ends
  <2>3. SaysFit(cmds)'
    <3> SUFFICES ASSUME NEW k \in DOMAIN cmds', cmds'[k].type = "Say"
                 PROVE  /\ cmds'[k].key \in DOMAIN typed
                        /\ room'[cmds'[k].channel_index] \in {NoChannel, typed[cmds'[k].key]}
      BY DEF SaysFit, Fits, Stops
    <3>1. PICK l \in DOMAIN cmds : cmds'[k] = cmds[l]
      BY CmdsMembers DEF IInv, Types, ChatType, Stops
    <3>2. cmds[l].channel_index \in Indices
      BY <3>1, Commands, RequestShapes DEF IInv, Types, ChatType
    <3>3. cmds[l].key \in DOMAIN typed
      BY <2>1, <3>1 DEF Fit, SaysFit
    <3> QED
      BY <2>2, <3>1, <3>2, <3>3
  <2>4. SaysFit(wire)'
    BY DEF SaysFit, Stops, Ends
  <2>5. TabsFit'
    <3> SUFFICES ASSUME NEW p \in DOMAIN tabs, tabs[p].channel_index # 0
                 PROVE  room'[tabs[p].channel_index] = NoChannel
      BY DEF TabsFit, Fits, Stops, appVars
    <3>1. tabs[p].channel_index \in Indices
      BY TabTypes DEF IInv, Types, AppType
    <3> QED
      BY <2>2, <3>1
  <2>6. JoinsFit'
    <3> SUFFICES ASSUME NEW k \in DOMAIN events', events'[k].type = "Joined"
                 PROVE  room'[events'[k].channel_index] = NoChannel
      BY DEF JoinsFit, Fits
    <3>1. events'[k] \in Events
      BY <1>1 DEF Types, ChatType
    <3> QED
      BY <2>2, <3>1 DEF Events
  <2>7. HeardFits'
    BY <2>1 DEF Fit, HeardFits, Stops
  <2> QED
    BY <2>3, <2>4, <2>5, <2>6, <2>7 DEF Fit
<1>5. ~live'
  BY DEF Stops, Ends
<1> QED
  BY <1>1, <1>2, <1>3, <1>4, <1>5 DEF IInv

-----------------------------------------------------------------------------
(* The application takes an event that is not about the connection and     *)
(* gives no tab an index, or does something of its own accord; it may send *)
(* a request.                                                              *)

TakesPlain ==
  events' = events
    \/ (events # <<>> /\ Head(events).type \notin StageNames /\ events' = Tail(events))
SameTab(p, q) == tabs'[p].channel = tabs[q].channel /\ tabs'[p].channel_index = tabs[q].channel_index
TabsFrom ==
  \A p \in DOMAIN tabs' : tabs'[p].channel_index # 0 => \E q \in DOMAIN tabs : SameTab(p, q)
SayFine(q) ==
  q.type = "Say" => q.key \in DOMAIN typed' /\ room[q.channel_index] \in {NoChannel, typed'[q.key]}
UseFine(q) ==
  /\ \A i \in Indices : Refers(q, i) =>
       Open(i) /\ \A k \in DOMAIN cmds : ~(cmds[k].type = "Leave" /\ cmds[k].channel_index = i)
  /\ q.type = "Leave" =>
       /\ \A p \in DOMAIN tabs' : tabs'[p].channel_index # q.channel_index
       /\ \A k \in DOMAIN events' :
            ~(events'[k].type = "Joined" /\ events'[k].channel_index = q.channel_index)
Sends(q) ==
  /\ q \in Requests /\ cmds' = Append(cmds, q) /\ ~Shut
  /\ Kept' => SayFine(q)
  /\ live /\ Sound' => UseFine(q)
ShiftedBy(d) ==
  /\ Len(events) = Len(events') + d
  /\ \A k \in DOMAIN events' : k \in Nat /\ k + d \in DOMAIN events /\ events'[k] = events[k + d]
Shifted == ShiftedBy(0) \/ ShiftedBy(1)
\* What all of the application's steps have in common, but for RECONNECT,
Quietly ==
  /\ UNCHANGED <<chatVars, serviceVars, dropped>>
  /\ slips \subseteq slips'
  /\ \A n \in DOMAIN typed : n \in DOMAIN typed' /\ typed'[n] = typed[n]
  /\ cmds' = cmds \/ \E q \in Requests : Sends(q)
\* those that say nothing of the connection,
Aside ==
  /\ Quietly /\ TakesPlain
  /\ events = <<>> => TabsFrom
  /\ connecting' = connecting
  /\ Shut => Shut'
  /\ warning'.kind = "disconnected" => warning.kind = "disconnected"
\* those that give no tab an index,
Keeps ==
  /\ Quietly /\ TabsFrom /\ Shifted
  /\ tabs' # <<>> /\ Has(events, "WebAuthentication") => Has(events', "WebAuthentication")
\* and those that do neither.
Moves == Aside /\ TabsFrom

\* The events that are left, and their places.
LEMMA MovedEvents ==
  ASSUME events \in Seq(Events), StageFirst, TakesPlain
  PROVE  /\ events' \in Seq(Events)
         /\ events = <<>> => events' = <<>>
         /\ Has(events, "WebAuthentication") => events' = events
         /\ Shifted
<1>1. CASE events' = events
  <2>1. Len(events) \in Nat /\ \A k \in DOMAIN events : k \in Nat
    OBVIOUS
  <2>2. Len(events) = Len(events') + 0
    BY <1>1, <2>1
  <2>3. ASSUME NEW k \in DOMAIN events'
        PROVE  k \in Nat /\ k + 0 \in DOMAIN events /\ events'[k] = events[k + 0]
    <3>1. k \in Nat /\ k + 0 = k
      BY <1>1, <2>1
    <3> QED
      BY <1>1, <3>1
  <2>4. ShiftedBy(0)
    BY <2>2, <2>3, Zenon DEF ShiftedBy
  <2> QED
    BY <1>1, <2>4 DEF Shifted
<1>2. CASE events # <<>> /\ Head(events).type \notin StageNames /\ events' = Tail(events)
  <2>1. /\ Tail(events) \in Seq(Events) /\ Head(events) = events[1] /\ Len(events) \in Nat
        /\ Len(Tail(events)) = Len(events) - 1
        /\ \A k \in DOMAIN Tail(events) : k + 1 \in DOMAIN events /\ Tail(events)[k] = events[k + 1] /\ k \in Nat \ {0}
    BY <1>2, TailPlaces
  <2>2. ~Has(events, "WebAuthentication")
    BY <1>2, <2>1 DEF Has, StageFirst, StageNames
  <2>3. Len(events) = Len(events') + 1
    BY <1>2, <2>1
  <2>4. \A k \in DOMAIN events' : k \in Nat /\ k + 1 \in DOMAIN events /\ events'[k] = events[k + 1]
    BY <1>2, <2>1
  <2>5. ShiftedBy(1)
    BY <2>3, <2>4, Zenon DEF ShiftedBy
  <2> QED
    BY <1>2, <2>1, <2>2, <2>5, Zenon DEF Shifted
<1> QED
  BY <1>1, <1>2 DEF TakesPlain

\* The commands: those before, in their places, and the request.
LEMMA SentCmds ==
  ASSUME cmds \in Seq(Requests \cup Connects), NEW q \in Requests, cmds' = Append(cmds, q)
  PROVE  /\ cmds' \in Seq(Requests \cup Connects)
         /\ Len(cmds) \in Nat /\ DOMAIN cmds = 1 .. Len(cmds) /\ Len(cmds') = Len(cmds) + 1
         /\ \A k \in DOMAIN cmds : k \in DOMAIN cmds' /\ cmds'[k] = cmds[k]
         /\ \A k \in DOMAIN cmds' :
              (k \in DOMAIN cmds /\ cmds'[k] = cmds[k]) \/ (k = Len(cmds) + 1 /\ cmds'[k] = q)
         /\ q.type # "Connect"
<1>1. q \in Requests \cup Connects
  OBVIOUS
<1>2. /\ Append(cmds, q) \in Seq(Requests \cup Connects) /\ Len(Append(cmds, q)) = Len(cmds) + 1 /\ Len(cmds) \in Nat
      /\ DOMAIN Append(cmds, q) = 1 .. Len(cmds) + 1
      /\ \A k \in DOMAIN cmds : Append(cmds, q)[k] = cmds[k]
      /\ Append(cmds, q)[Len(cmds) + 1] = q
      /\ \A k \in DOMAIN Append(cmds, q) : k \in DOMAIN cmds \/ k = Len(cmds) + 1
  BY <1>1, AppendPlaces
<1>3. q.type # "Connect"
  BY RequestShapes
<1>4. DOMAIN cmds = 1 .. Len(cmds)
  OBVIOUS
<1> QED
  BY <1>2, <1>3, <1>4

\* The course of the connection is the same.
LEMMA AsideCourse ==
  ASSUME Types, Course, Aside
  PROVE  Course'
<1>1. /\ live' = live /\ joining' = joining /\ wire' = wire /\ owed' = owed
      /\ connecting' = connecting
      /\ Shut => Shut'
      /\ warning'.kind = "disconnected" => warning.kind = "disconnected"
  BY DEF Aside, Quietly, chatVars, serviceVars
<1>2. /\ events = <<>> => events' = <<>>
      /\ Has(events, "WebAuthentication") => events' = events
      /\ events' \in Seq(Events)
  BY MovedEvents DEF Types, ChatType, Course, Aside, Quietly
<1>3. PICK d \in {0, 1} :
        /\ Len(events) = Len(events') + d
        /\ \A k \in DOMAIN events' : k \in Nat /\ k + d \in DOMAIN events /\ events'[k] = events[k + d]
  BY MovedEvents DEF Types, ChatType, Course, Aside, Quietly, Shifted, ShiftedBy
<1>4. /\ Shut => cmds' = cmds
      /\ \A k \in DOMAIN cmds' : cmds'[k].type = "Connect" => k \in DOMAIN cmds /\ cmds'[k] = cmds[k]
  <2>1. CASE cmds' = cmds
    BY <2>1
  <2>2. CASE \E q \in Requests : Sends(q)
    <3>1. PICK q \in Requests : cmds' = Append(cmds, q) /\ ~Shut
      BY <2>2 DEF Sends
    <3>2. /\ \A k \in DOMAIN cmds' :
              (k \in DOMAIN cmds /\ cmds'[k] = cmds[k]) \/ (k = Len(cmds) + 1 /\ cmds'[k] = q)
          /\ q.type # "Connect"
      BY <3>1, SentCmds DEF Types, ChatType
    <3> QED
      BY <3>1, <3>2
  <2> QED
    BY <2>1, <2>2 DEF Aside, Quietly
<1>5. Stopped => Stopped'
  BY <1>1, <1>4 DEF Stopped, Calls
<1>6. Offline'
  BY <1>1 DEF Course, Offline
<1>7. Dialing'
  <2> SUFFICES ASSUME joining # <<>>
               PROVE  /\ ~live /\ cmds' = <<>> /\ Shut'
                      /\ \/ events' = <<Stage("WebAuthentication")>>
                         \/ (events' = <<>> /\ \A p \in DOMAIN tabs' : tabs'[p].channel_index = 0)
    BY <1>1 DEF Dialing, Shut, Stage, Event
  <2>1. /\ ~live /\ cmds = <<>> /\ Shut
        /\ events = <<Stage("WebAuthentication")>>
             \/ (events = <<>> /\ \A p \in DOMAIN tabs : tabs[p].channel_index = 0)
    BY DEF Course, Dialing
  <2>2. CASE events = <<Stage("WebAuthentication")>>
    <3>1. Has(events, "WebAuthentication")
      BY <2>2, EventFields DEF Has
    <3> QED
      BY <1>1, <1>2, <1>4, <2>1, <2>2, <3>1
  <2>3. CASE events = <<>> /\ \A p \in DOMAIN tabs : tabs[p].channel_index = 0
    <3>1. \A p \in DOMAIN tabs' : tabs'[p].channel_index = 0
      BY <2>3 DEF Aside, Quietly, TabsFrom, SameTab
    <3> QED
      BY <1>1, <1>2, <1>4, <2>1, <2>3, <3>1
  <2> QED
    BY <2>1, <2>2, <2>3
<1>8. Called'
  <2> SUFFICES ASSUME NEW k \in DOMAIN cmds', cmds'[k].type = "Connect"
               PROVE  k = Len(cmds') /\ ~live /\ joining = <<>> /\ events' = <<>> /\ Shut'
    BY <1>1 DEF Called, Shut
  <2>1. k \in DOMAIN cmds /\ cmds[k].type = "Connect"
    BY <1>4
  <2>2. k = Len(cmds) /\ ~live /\ joining = <<>> /\ events = <<>> /\ Shut
    BY <2>1 DEF Course, Called
  <2> QED
    BY <1>1, <1>2, <1>4, <2>2
<1>9. FailedLast'
  <2> SUFFICES ASSUME NEW k \in DOMAIN events', events'[k].type = "Error"
               PROVE  k = Len(events') /\ Stopped'
    BY DEF FailedLast
  <2>1. k + d \in DOMAIN events /\ events[k + d].type = "Error" /\ k \in Nat /\ Len(events') \in Nat
    BY <1>2, <1>3
  <2>2. k + d = Len(events) /\ Stopped
    BY <2>1 DEF Course, FailedLast
  <2> QED
    BY <1>3, <1>5, <2>1, <2>2
<1>10. FailureShown'
  BY <1>1, <1>2, <1>5 DEF Course, FailureShown
<1>11. ConnectedOnce'
  <2> SUFFICES ASSUME NEW k \in DOMAIN events', events'[k].type = "Connected"
               PROVE  /\ Shut' /\ cmds' = <<>>
                      /\ \A l \in DOMAIN events' : events'[l].type = "Connected" => l = k
    BY DEF ConnectedOnce
  <2>1. k + d \in DOMAIN events /\ events[k + d].type = "Connected" /\ k \in Nat
    BY <1>3
  <2>2. Shut /\ cmds = <<>> /\ \A l \in DOMAIN events : events[l].type = "Connected" => l = k + d
    BY <2>1 DEF Course, ConnectedOnce
  <2>3. ASSUME NEW l \in DOMAIN events', events'[l].type = "Connected"
        PROVE  l = k
    <3>1. l + d \in DOMAIN events /\ events[l + d].type = "Connected" /\ l \in Nat
      BY <1>3, <2>3
    <3>2. l + d = k + d
      BY <2>2, <3>1
    <3> QED
      BY <2>1, <3>1, <3>2
  <2> QED
    BY <1>1, <1>4, <2>2, <2>3
<1>12. StageFirst'
  <2> SUFFICES ASSUME NEW k \in DOMAIN events', events'[k].type = "WebAuthentication"
               PROVE  k = 1 /\ Shut' /\ cmds' = <<>>
    BY DEF StageFirst
  <2>1. k + d \in DOMAIN events /\ events[k + d].type = "WebAuthentication"
    BY <1>3
  <2>2. events' = events
    BY <1>2, <2>1 DEF Has
  <2>3. k = 1 /\ Shut /\ cmds = <<>>
    BY <2>2 DEF Course, StageFirst
  <2> QED
    BY <1>1, <1>4, <2>3
<1> QED
  BY <1>6, <1>7, <1>8, <1>9, <1>10, <1>11, <1>12 DEF Course

\* Each line under way goes to its room, or to none.
LEMMA KeepsFit ==
  ASSUME IInv, Types', Keeps, Kept' => HeardFits'
  PROVE  Kept' => Fit'
<1> SUFFICES ASSUME Kept' PROVE Fit'
  OBVIOUS
<1>1. Fit
  BY DEF IInv, Keeps, Quietly, Kept
<1>2. /\ room' = room /\ wire' = wire
      /\ \A n \in DOMAIN typed : n \in DOMAIN typed' /\ typed'[n] = typed[n]
  BY DEF Keeps, Quietly, serviceVars
<1>3. /\ \E d \in {0, 1} : /\ Len(events) = Len(events') + d
                           /\ \A k \in DOMAIN events' : /\ k \in Nat /\ k + d \in DOMAIN events
                                                        /\ events'[k] = events[k + d]
  BY DEF Keeps, Shifted, ShiftedBy
<1>4. SaysFit(cmds)'
  <2> SUFFICES ASSUME NEW k \in DOMAIN cmds', cmds'[k].type = "Say"
               PROVE  /\ cmds'[k].key \in DOMAIN typed'
                      /\ room[cmds'[k].channel_index] \in {NoChannel, typed'[cmds'[k].key]}
    BY <1>2 DEF SaysFit, Fits
  <2>1. CASE k \in DOMAIN cmds /\ cmds'[k] = cmds[k]
    <3>1. cmds[k].key \in DOMAIN typed /\ Fits(cmds[k].channel_index, typed[cmds[k].key])
      BY <1>1, <2>1 DEF Fit, SaysFit
    <3> QED
      BY <1>2, <2>1, <3>1 DEF Fits
  <2>2. CASE ~(k \in DOMAIN cmds /\ cmds'[k] = cmds[k])
    <3>1. PICK q \in Requests : Sends(q)
      BY <2>2 DEF Keeps, Quietly
    <3>2. cmds'[k] = q
      BY <2>2, <3>1, SentCmds DEF Sends, IInv, Types, ChatType
    <3> QED
      BY <3>1, <3>2 DEF Sends, SayFine
  <2> QED
    BY <2>1, <2>2
<1>5. SaysFit(wire)'
  BY <1>1, <1>2 DEF Fit, SaysFit, Fits
<1>6. TabsFit'
  <2> SUFFICES ASSUME ~Has(events', "WebAuthentication"), NEW p \in DOMAIN tabs',
                      tabs'[p].channel_index # 0
               PROVE  room[tabs'[p].channel_index] \in {NoChannel, tabs'[p].channel}
    BY <1>2 DEF TabsFit, Fits, Has
  <2>1. ~Has(events, "WebAuthentication")
    BY DEF Keeps
  <2>2. PICK q \in DOMAIN tabs : SameTab(p, q)
    BY DEF Keeps, Quietly, TabsFrom
  <2> QED
    BY <1>1, <2>1, <2>2 DEF Fit, TabsFit, Fits, SameTab
<1>7. JoinsFit'
  BY <1>1, <1>2, <1>3 DEF Fit, JoinsFit, Fits
<1> QED
  BY <1>4, <1>5, <1>6, <1>7 DEF Fit

\* What the application may use stays open.
LEMMA KeepsHeld ==
  ASSUME IInv, Types', Keeps
  PROVE  live' /\ Sound' => Held'
<1> SUFFICES ASSUME live', Sound' PROVE Held'
  OBVIOUS
<1>1. Held /\ live
  BY DEF IInv, Keeps, Quietly, Sound, chatVars
<1>2. channels' = channels
  BY DEF Keeps, Quietly, chatVars
<1>4. PICK d \in {0, 1} :
        /\ Len(events) = Len(events') + d
        /\ \A k \in DOMAIN events' : k \in Nat /\ k + d \in DOMAIN events /\ events'[k] = events[k + d]
  BY DEF Keeps, Shifted, ShiftedBy
<1>5. CmdsOpen'
  <2> SUFFICES ASSUME NEW k \in DOMAIN cmds', NEW i \in Indices, Refers(cmds'[k], i)
               PROVE  Open(i)
    BY <1>2 DEF CmdsOpen, Open, Refers
  <2>1. CASE k \in DOMAIN cmds /\ cmds'[k] = cmds[k]
    BY <1>1, <2>1 DEF Held, CmdsOpen
  <2>2. CASE ~(k \in DOMAIN cmds /\ cmds'[k] = cmds[k])
    <3>1. PICK q \in Requests : Sends(q)
      BY <2>2 DEF Keeps, Quietly
    <3>2. cmds'[k] = q
      BY <2>2, <3>1, SentCmds DEF Sends, IInv, Types, ChatType
    <3> QED
      BY <1>1, <3>1, <3>2 DEF Sends, UseFine
  <2> QED
    BY <2>1, <2>2
<1>6. JoinsOpen'
  BY <1>1, <1>2, <1>4 DEF Held, JoinsOpen, Open
<1>7. JoinsDiffer'
  <2> SUFFICES ASSUME NEW k \in DOMAIN events', NEW l \in DOMAIN events',
                      events'[k].type = "Joined", events'[l].type = "Joined",
                      events'[k].channel_index = events'[l].channel_index
               PROVE  k = l
    BY DEF JoinsDiffer
  <2>1. k + d = l + d
    BY <1>1, <1>4 DEF Held, JoinsDiffer
  <2> QED
    BY <1>4, <2>1
<1>8. TabsOpen'
  <2> SUFFICES ASSUME ~Has(events', "WebAuthentication"), NEW p \in DOMAIN tabs',
                      tabs'[p].channel_index # 0
               PROVE  /\ Open(tabs'[p].channel_index)
                      /\ \A q \in DOMAIN tabs' : tabs'[q].channel_index = tabs'[p].channel_index => p = q
                      /\ \A k \in DOMAIN events' :
                           events'[k].type = "Joined" /\ events'[k].channel_index = tabs'[p].channel_index =>
                             events'[k].channel = tabs'[p].channel
    BY <1>2 DEF TabsOpen, Open, Has
  <2>1. ~Has(events, "WebAuthentication")
    BY DEF Keeps
  <2>2. PICK r \in DOMAIN tabs : SameTab(p, r)
    BY DEF Keeps, Quietly, TabsFrom
  <2>3. /\ Open(tabs[r].channel_index)
        /\ \A q \in DOMAIN tabs : tabs[q].channel_index = tabs[r].channel_index => r = q
        /\ \A k \in DOMAIN events :
             events[k].type = "Joined" /\ events[k].channel_index = tabs[r].channel_index =>
               events[k].channel = tabs[r].channel
    BY <1>1, <2>1, <2>2 DEF Held, TabsOpen, SameTab
  <2>4. ASSUME NEW q \in DOMAIN tabs', tabs'[q].channel_index = tabs'[p].channel_index
        PROVE  p = q
    <3>1. PICK s \in DOMAIN tabs : SameTab(q, s)
      BY <2>4 DEF Keeps, Quietly, TabsFrom
    <3>2. r = s
      BY <2>2, <2>3, <2>4, <3>1 DEF SameTab
    <3>3. tabs'[p].channel = tabs'[q].channel
      BY <2>2, <3>1, <3>2 DEF SameTab
    <3> QED
      BY <3>3 DEF Types, OneTab
  <2>5. ASSUME NEW k \in DOMAIN events', events'[k].type = "Joined",
               events'[k].channel_index = tabs'[p].channel_index
        PROVE  events'[k].channel = tabs'[p].channel
    BY <1>4, <2>2, <2>3, <2>5 DEF SameTab
  <2> QED
    BY <2>2, <2>3, <2>4, <2>5 DEF SameTab
<1>9. LeftForGood'
  <2> SUFFICES ASSUME NEW k \in DOMAIN cmds', cmds'[k].type = "Leave"
               PROVE  /\ \A l \in DOMAIN cmds' : l > k => ~Refers(cmds'[l], cmds'[k].channel_index)
                      /\ \A p \in DOMAIN tabs' : tabs'[p].channel_index # cmds'[k].channel_index
                      /\ \A l \in DOMAIN events' :
                           ~(events'[l].type = "Joined" /\ events'[l].channel_index = cmds'[k].channel_index)
    BY DEF LeftForGood, Refers
  <2>0. cmds'[k].channel_index \in Indices /\ 0 \notin Indices
    <3>1. cmds' \in Seq(Requests \cup Connects)
      BY DEF Types, ChatType
    <3>2. cmds'[k] \in Requests \cup Connects
      BY <3>1
    <3>3. cmds'[k] \in Requests
      BY <3>2, RequestShapes
    <3> QED
      BY <3>3, RequestShapes, ChannelsAssumption
  <2>1. CASE k \in DOMAIN cmds /\ cmds'[k] = cmds[k]
    <3>1. /\ \A l \in DOMAIN cmds : l > k => ~Refers(cmds[l], cmds[k].channel_index)
          /\ \A p \in DOMAIN tabs : tabs[p].channel_index # cmds[k].channel_index
          /\ \A l \in DOMAIN events :
               ~(events[l].type = "Joined" /\ events[l].channel_index = cmds[k].channel_index)
      BY <1>1, <2>1 DEF Held, LeftForGood
    <3>2. ASSUME NEW l \in DOMAIN cmds', l > k
          PROVE  ~Refers(cmds'[l], cmds'[k].channel_index)
      <4>1. CASE l \in DOMAIN cmds /\ cmds'[l] = cmds[l]
        BY <2>1, <3>1, <3>2, <4>1
      <4>2. CASE ~(l \in DOMAIN cmds /\ cmds'[l] = cmds[l])
        <5>1. PICK q \in Requests : Sends(q)
          BY <4>2 DEF Keeps, Quietly
        <5>2. cmds'[l] = q
          BY <4>2, <5>1, SentCmds DEF Sends, IInv, Types, ChatType
        <5> QED
          BY <1>1, <2>0, <2>1, <5>1, <5>2 DEF Sends, UseFine
      <4> QED
        BY <4>1, <4>2
    <3>3. ASSUME NEW p \in DOMAIN tabs'
          PROVE  tabs'[p].channel_index # cmds'[k].channel_index
      BY <2>0, <2>1, <3>1 DEF Keeps, Quietly, TabsFrom, SameTab
    <3>4. ASSUME NEW l \in DOMAIN events'
          PROVE  ~(events'[l].type = "Joined" /\ events'[l].channel_index = cmds'[k].channel_index)
      BY <1>4, <2>1, <3>1
    <3> QED
      BY <3>2, <3>3, <3>4
  <2>2. CASE ~(k \in DOMAIN cmds /\ cmds'[k] = cmds[k])
    <3>1. PICK q \in Requests : Sends(q)
      BY <2>2 DEF Keeps, Quietly
    <3>2. /\ cmds'[k] = q /\ k = Len(cmds) + 1 /\ Len(cmds') = Len(cmds) + 1 /\ Len(cmds) \in Nat
          /\ cmds' \in Seq(Requests \cup Connects)
      BY <2>2, <3>1, SentCmds DEF Sends, IInv, Types, ChatType
    <3>3. \A l \in DOMAIN cmds' : ~(l > k)
      BY <3>2
    <3> QED
      BY <1>1, <3>1, <3>2, <3>3 DEF Sends, UseFine
  <2> QED
    BY <2>1, <2>2
<1> QED
  BY <1>5, <1>6, <1>7, <1>8, <1>9 DEF Held

\* All together.
LEMMA KeepsInv ==
  ASSUME IInv, Types', Course', Keeps, Kept' => HeardFits'
  PROVE  IInv'
<1>1. TokensFit'
  BY DEF IInv, TokensFit, Keeps, Quietly, chatVars, serviceVars
<1>2. Kept' => Fit'
  BY KeepsFit
<1>3. live' /\ Sound' => Held'
  BY KeepsHeld
<1>4. CommandsSurvive'
  BY DEF IInv, Keeps, Quietly, CommandsSurvive, chatVars
<1> QED
  BY <1>1, <1>2, <1>3, <1>4 DEF IInv

\* A step that leaves the tab strip's order as it was, all together.
LEMMA MovesInv ==
  ASSUME IInv, Types', Moves, Kept' => HeardFits'
  PROVE  IInv'
<1>1. Course'
  BY AsideCourse DEF IInv, Moves
<1>2. Keeps
  <2>1. Shifted /\ (Has(events, "WebAuthentication") => events' = events)
    BY MovedEvents DEF IInv, Types, ChatType, Course, Moves, Aside
  <2> QED
    BY <2>1 DEF Keeps, Moves, Aside
<1> QED
  BY <1>1, <1>2, KeepsInv

-----------------------------------------------------------------------------
(* The tab strip.                                                          *)

\* A tab without an index, and the tab of a join.
LEMMA NewTabs ==
  /\ \A c \in Channels : /\ pending_live(c) \in TabSet /\ pending_live(c).channel = c
                         /\ pending_live(c).channel_index = 0
  /\ \A c \in Channels : \A i \in Indices :
       Tab(c, i) \in TabSet /\ Tab(c, i).channel = c /\ Tab(c, i).channel_index = i
  BY DEF pending_live, Tab, TabSet

\* A tab goes: the others are the same.
LEMMA TabRemoved ==
  ASSUME tabs \in Seq(TabSet), OneTab, NEW p \in DOMAIN tabs, tabs' = RemoveAt(tabs, p)
  PROVE  /\ tabs' \in Seq(TabSet) /\ OneTab' /\ TabsFrom
         /\ \A k \in DOMAIN tabs' : /\ k \in Nat /\ Before(k, p) \in DOMAIN tabs
                                    /\ tabs'[k] = tabs[Before(k, p)]
<1>1. /\ tabs' \in Seq(TabSet)
      /\ \A k \in DOMAIN tabs' : /\ k \in Nat /\ Before(k, p) \in DOMAIN tabs
                                 /\ tabs'[k] = tabs[Before(k, p)]
  BY RemoveAtMembers
<1>2. OneTab'
  <2> SUFFICES ASSUME NEW k \in DOMAIN tabs', NEW l \in DOMAIN tabs',
                      tabs'[k].channel = tabs'[l].channel
               PROVE  k = l
    BY DEF OneTab
  <2>1. Before(k, p) = Before(l, p)
    BY <1>1 DEF OneTab
  <2>2. k \in Nat /\ l \in Nat /\ p \in Nat
    BY <1>1
  <2> QED
    BY <2>1, <2>2 DEF Before
<1>3. TabsFrom
  BY <1>1 DEF TabsFrom, SameTab
<1> QED
  BY <1>1, <1>2, <1>3

\* The same when the last one leaves General behind.
LEMMA WithoutTabs ==
  ASSUME tabs \in Seq(TabSet), OneTab, NEW p \in DOMAIN tabs, tabs' = WithoutTab(p)
  PROVE  tabs' \in Seq(TabSet) /\ OneTab' /\ TabsFrom
<1>1. CASE tabs' = RemoveAt(tabs, p)
  BY <1>1, TabRemoved
<1>2. CASE tabs' = <<pending_live(General)>>
  <2>1. pending_live(General) \in TabSet /\ pending_live(General).channel_index = 0
    BY NewTabs, ChannelsAssumption
  <2> DEFINE t == pending_live(General)
  <2> HIDE DEF t
  <2>2. tabs' = <<t>> /\ t \in TabSet /\ t.channel_index = 0
    BY <1>2, <2>1 DEF t
  <2>3. DOMAIN tabs' = {1} /\ tabs'[1] = t
    BY <2>2
  <2>4. tabs' \in Seq(TabSet)
    BY <2>2
  <2> QED
    BY <2>2, <2>3, <2>4 DEF OneTab, TabsFrom
<1> QED
  BY <1>1, <1>2 DEF WithoutTab

\* The strip after a drag has the same tabs.
LEMMA DraggedTabs ==
  ASSUME tabs \in Seq(TabSet), OneTab, NEW from \in DOMAIN tabs, NEW to \in DOMAIN tabs, from # to,
         tabs' = [p \in DOMAIN tabs |-> tabs[Carried(p, from, to)]]
  PROVE  /\ tabs' \in Seq(TabSet) /\ OneTab' /\ TabsFrom
         /\ DOMAIN tabs' = DOMAIN tabs
         /\ \A p \in DOMAIN tabs : Carried(p, from, to) \in DOMAIN tabs /\ tabs'[p] = tabs[Carried(p, from, to)]
         /\ \A q \in DOMAIN tabs : \E p \in DOMAIN tabs : Carried(p, from, to) = q /\ tabs'[p] = tabs[q]
<1>1. Len(tabs) \in Nat /\ DOMAIN tabs = 1 .. Len(tabs) /\ \A p \in 1 .. Len(tabs) : tabs[p] \in TabSet
  OBVIOUS
<1>2. /\ \A p \in DOMAIN tabs : Carried(p, from, to) \in DOMAIN tabs
      /\ \A q \in DOMAIN tabs : Carried(q, to, from) \in DOMAIN tabs /\ Carried(Carried(q, to, from), from, to) = q
      /\ \A p, q \in DOMAIN tabs : Carried(p, from, to) = Carried(q, from, to) => p = q
  <2> DEFINE n == Len(tabs)
  <2>1. n \in Nat /\ DOMAIN tabs = 1 .. n /\ from \in 1 .. n /\ to \in 1 .. n
    BY <1>1
  <2> HIDE DEF n
  <2>2. \A p \in 1 .. n : Carried(p, from, to) \in 1 .. n
    BY <2>1 DEF Carried
  <2>3. ASSUME NEW q \in 1 .. n
        PROVE  Carried(q, to, from) \in 1 .. n /\ Carried(Carried(q, to, from), from, to) = q
    <3>1. PICK k \in 1 .. n : k = Carried(q, to, from)
      BY <2>1 DEF Carried
    <3>2. Carried(k, from, to) = q
      BY <2>1, <3>1 DEF Carried
    <3> QED
      BY <3>1, <3>2
  <2>4. ASSUME NEW p \in 1 .. n, NEW q \in 1 .. n, Carried(p, from, to) = Carried(q, from, to)
        PROVE  p = q
    BY <2>1, <2>4 DEF Carried
  <2> QED
    BY <2>1, <2>2, <2>3, <2>4
<1>3. DOMAIN tabs' = DOMAIN tabs /\ \A p \in DOMAIN tabs : tabs'[p] = tabs[Carried(p, from, to)]
  OBVIOUS
<1>4. tabs' \in Seq(TabSet)
  <2>1. \A p \in 1 .. Len(tabs) : tabs[Carried(p, from, to)] \in TabSet
    BY <1>1, <1>2
  <2>2. [p \in 1 .. Len(tabs) |-> tabs[Carried(p, from, to)]] \in Seq(TabSet)
    BY <1>1, <2>1
  <2> QED
    BY <1>1, <2>2
<1>5. OneTab'
  BY <1>2, <1>3 DEF OneTab
<1>6. TabsFrom
  BY <1>2, <1>3 DEF TabsFrom, SameTab
<1> QED
  BY <1>2, <1>3, <1>4, <1>5, <1>6

\* A tab without an index comes for a channel that has none.
LEMMA TabAdded ==
  ASSUME tabs \in Seq(TabSet), OneTab, NEW t \in TabSet, tabs' = Append(tabs, t),
         \A p \in DOMAIN tabs : tabs[p].channel # t.channel
  PROVE  /\ tabs' \in Seq(TabSet) /\ OneTab'
         /\ t.channel_index = 0 => TabsFrom
         /\ \A p \in DOMAIN tabs' : (p \in DOMAIN tabs /\ tabs'[p] = tabs[p]) \/ tabs'[p] = t
<1>1. /\ tabs' \in Seq(TabSet)
      /\ \A k \in DOMAIN tabs : tabs'[k] = tabs[k]
      /\ tabs'[Len(tabs) + 1] = t
      /\ \A k \in DOMAIN tabs' : k \in DOMAIN tabs \/ k = Len(tabs) + 1
  BY AppendPlaces
<1>2. OneTab'
  BY <1>1 DEF OneTab
<1>3. t.channel_index = 0 => TabsFrom
  BY <1>1 DEF TabsFrom, SameTab
<1> QED
  BY <1>1, <1>2, <1>3

\* No tab is the one of a channel that TabOf does not find.
LEMMA NoTabFound ==
  ASSUME tabs \in Seq(TabSet), NEW c, TabOf(c) = 0
  PROVE  \A p \in DOMAIN tabs : tabs[p].channel # c
<1> DEFINE all == {i \in 1 .. Len(tabs) : tabs[i].channel = c}
<1>1. TabOf(c) = IF all # {} THEN Min(all) ELSE 0
  BY DEF TabOf, SelectInSeq
<1>2. all \in SUBSET Nat /\ 0 \notin all
  OBVIOUS
<1>3. all # {} => Min(all) \in all
  <2> HIDE DEF all
  <2> QED
    BY <1>2, MinIsMember
<1>4. all = {}
  BY <1>1, <1>2, <1>3
<1> QED
  BY <1>4

-----------------------------------------------------------------------------
(* The application's own steps.                                            *)

\* What a step of the application leaves alone keeps its type.
LEMMA AppTypes ==
  ASSUME Types, UNCHANGED <<chatVars, serviceVars, typed, heard>>,
         AppType', OneTab', cmds' \in Seq(Requests \cup Connects), events' \in Seq(Events)
  PROVE  Types'
<1>1. ChatType'
  BY DEF Types, ChatType, chatVars
<1>2. ServiceType' /\ LineType'
  BY DEF Types, ServiceType, LineType, serviceVars
<1> QED
  BY <1>1, <1>2 DEF Types

\* What was heard is not changed.
LEMMA HeardKept ==
  ASSUME IInv, UNCHANGED <<typed, heard>>, slips \subseteq slips'
  PROVE  Kept' => HeardFits'
  BY DEF IInv, Fit, Kept, HeardFits

\* JOIN: a tab without an index, and a request for it.
LEMMA JoinPress ==
  ASSUME IInv, NEW c \in Channels, join_channel_target(c)
  PROVE  IInv'
<1>1. /\ tabs \in Seq(TabSet) /\ OneTab /\ AppType /\ cmds \in Seq(Requests \cup Connects)
      /\ events \in Seq(Events) /\ Types
  BY DEF IInv, Types, AppType, ChatType
<1>2. /\ UNCHANGED <<chatVars, serviceVars, typed, heard, slips, dropped, events>>
      /\ UNCHANGED <<connecting, tab_close, pending_rosters>>
      /\ connecting = "no"
  BY DEF join_channel_target, history, CanPress
<1>3. Kept' => HeardFits'
  BY <1>2, HeardKept
<1>4. CASE UNCHANGED <<tabs, awaiting_joins, cmds>> /\ show_channel_warning(0)
  <2>1. AppType' /\ OneTab' /\ TabsFrom
    BY <1>1, <1>2, <1>4 DEF AppType, OneTab, TabsFrom, SameTab
  <2>2. Types'
    BY <1>1, <1>2, <1>4, <2>1, AppTypes
  <2>3. Moves
    BY <1>2, <1>4, <2>1 DEF Moves, Aside, Quietly, TakesPlain, Shut, show_channel_warning
  <2> QED
    BY <1>3, <2>2, <2>3, MovesInv
<1>5. CASE /\ tabs' = Append(tabs, pending_live(c))
           /\ awaiting_joins' = awaiting_joins \cup {c}
           /\ cmds' = Append(cmds, Request("Join", c, 0, 0))
           /\ UNCHANGED warning
  <2>1. \A p \in DOMAIN tabs : tabs[p].channel # c
    BY <1>1, NoTabFound DEF join_channel_target
  <2> DEFINE t == pending_live(c)
             q == Request("Join", c, 0, 0)
  <2>2. t \in TabSet /\ t.channel = c /\ t.channel_index = 0
    BY NewTabs
  <2>3. q \in Requests /\ q.type = "Join"
    BY RequestShapes
  <2> HIDE DEF t, q
  <2>4. tabs' = Append(tabs, t) /\ cmds' = Append(cmds, q)
    BY <1>5 DEF t, q
  <2>5. tabs' \in Seq(TabSet) /\ OneTab' /\ TabsFrom
    BY <1>1, <2>1, <2>2, <2>4, TabAdded
  <2>6. cmds' \in Seq(Requests \cup Connects)
    BY <1>1, <2>3, <2>4, SentCmds
  <2>7. AppType'
    BY <1>1, <1>2, <1>5, <2>5 DEF AppType
  <2>8. Types'
    BY <1>1, <1>2, <2>5, <2>6, <2>7, AppTypes
  <2>9. Sends(q)
    BY <1>2, <2>3, <2>4 DEF Sends, SayFine, UseFine, Refers, Shut
  <2>10. Moves
    BY <1>2, <1>5, <2>3, <2>5, <2>9 DEF Moves, Aside, Quietly, TakesPlain, Shut
  <2> QED
    BY <1>3, <2>8, <2>10, MovesInv
<1> QED
  BY <1>4, <1>5 DEF join_channel_target

\* The close animation of a tab begins.
LEMMA BeginTabClose ==
  ASSUME IInv, NEW p \in DOMAIN tabs, begin_tab_close(p)
  PROVE  IInv'
<1>1. /\ tabs \in Seq(TabSet) /\ OneTab /\ AppType /\ cmds \in Seq(Requests \cup Connects)
      /\ events \in Seq(Events) /\ Types
  BY DEF IInv, Types, AppType, ChatType
<1>2. /\ UNCHANGED <<chatVars, serviceVars, typed, heard, slips, dropped, events>>
      /\ UNCHANGED <<tabs, cmds, connecting, warning, awaiting_joins, pending_rosters>>
      /\ connecting = "no" /\ tab_close' = p
  BY DEF begin_tab_close, history, CanPress
<1>3. AppType' /\ OneTab' /\ TabsFrom
  BY <1>1, <1>2 DEF AppType, OneTab, TabsFrom, SameTab
<1>4. Types'
  BY <1>1, <1>2, <1>3, AppTypes
<1>5. Moves
  BY <1>2, <1>3 DEF Moves, Aside, Quietly, TakesPlain, Shut
<1> QED
  BY <1>2, <1>4, <1>5, MovesInv, HeardKept

\* SEND: the line goes out under the index of its tab.
LEMMA SendMessage ==
  ASSUME IInv, NEW p \in DOMAIN tabs, send_message(p)
  PROVE  IInv'
<1>1. /\ tabs \in Seq(TabSet) /\ OneTab /\ AppType /\ cmds \in Seq(Requests \cup Connects)
      /\ events \in Seq(Events) /\ Types /\ LineType /\ ServiceType /\ ChatType
  BY DEF IInv, Types, AppType, ChatType
<1> DEFINE i == tabs[p].channel_index
           c == tabs[p].channel
           n == Len(typed) + 1
           q == Request("Say", NoChannel, i, n)
<1>2. /\ UNCHANGED <<chatVars, serviceVars, slips, dropped, events, appVars>>
      /\ connecting = "no" /\ i # 0
      /\ typed' = Append(typed, c) /\ heard' = Append(heard, NoChannel) /\ cmds' = Append(cmds, q)
  BY DEF send_message, CanPress
<1>3. i \in Indices /\ c \in Channels /\ n \in Nat
  <2>1. typed \in Seq(Channels)
    BY <1>1 DEF LineType
  <2> QED
    BY <1>1, <1>2, <2>1, TabTypes
<1>4. q \in Requests /\ q.type = "Say" /\ q.key = n /\ q.channel_index = i
  BY <1>3, RequestShapes
<1> HIDE DEF q
<1>5. /\ typed' \in Seq(Channels) /\ Len(typed') = Len(typed) + 1
      /\ \A m \in DOMAIN typed : m \in DOMAIN typed' /\ typed'[m] = typed[m]
      /\ n \in DOMAIN typed' /\ typed'[n] = c
  <2>1. typed \in Seq(Channels)
    BY <1>1 DEF LineType
  <2>2. /\ Append(typed, c) \in Seq(Channels) /\ Len(Append(typed, c)) = Len(typed) + 1 /\ Len(typed) \in Nat
        /\ DOMAIN Append(typed, c) = 1 .. Len(typed) + 1
        /\ \A k \in DOMAIN typed : Append(typed, c)[k] = typed[k]
        /\ Append(typed, c)[Len(typed) + 1] = c
    BY <1>3, <2>1, AppendPlaces
  <2> QED
    BY <1>2, <2>1, <2>2
<1>6. /\ heard' \in Seq(Channels \cup {NoChannel}) /\ Len(heard') = Len(heard) + 1
      /\ \A m \in DOMAIN heard' : (m \in DOMAIN heard /\ heard'[m] = heard[m]) \/ heard'[m] = NoChannel
  <2>1. heard \in Seq(Channels \cup {NoChannel}) /\ NoChannel \in Channels \cup {NoChannel}
    BY <1>1 DEF LineType
  <2>2. /\ Append(heard, NoChannel) \in Seq(Channels \cup {NoChannel})
        /\ Len(Append(heard, NoChannel)) = Len(heard) + 1 /\ Len(heard) \in Nat
        /\ \A k \in DOMAIN heard : Append(heard, NoChannel)[k] = heard[k]
        /\ Append(heard, NoChannel)[Len(heard) + 1] = NoChannel
        /\ \A k \in DOMAIN Append(heard, NoChannel) : k \in DOMAIN heard \/ k = Len(heard) + 1
    BY <2>1, AppendPlaces
  <2> QED
    BY <1>2, <2>2
<1>7. Types'
  <2>1. AppType' /\ OneTab' /\ ServiceType'
    BY <1>1, <1>2 DEF appVars, serviceVars, AppType, OneTab, ServiceType
  <2>2. LineType'
    BY <1>1, <1>5, <1>6 DEF LineType
  <2>3. cmds' \in Seq(Requests \cup Connects)
    BY <1>1, <1>2, <1>4, SentCmds
  <2>4. ChatType'
    BY <1>1, <1>2, <2>3 DEF ChatType, chatVars
  <2> QED
    BY <2>1, <2>2, <2>4 DEF Types
<1>8. ~Has(events, "WebAuthentication") /\ ~Shut
  BY <1>2 DEF IInv, Course, StageFirst, Shut, Has
<1>9. Kept' => HeardFits'
  <2> SUFFICES ASSUME Kept', NEW m \in DOMAIN heard'
               PROVE  heard'[m] \in {NoChannel, typed'[m]}
    BY DEF HeardFits
  <2>1. HeardFits
    BY <1>2 DEF IInv, Fit, Kept
  <2>2. CASE m \in DOMAIN heard /\ heard'[m] = heard[m]
    <3>1. m \in DOMAIN typed
      BY <1>1, <2>2 DEF LineType
    <3> QED
      BY <1>5, <2>1, <2>2, <3>1 DEF HeardFits
  <2> QED
    BY <1>6, <2>2
<1>10. Kept' => SayFine(q)
  <2> SUFFICES ASSUME Kept' PROVE room[i] \in {NoChannel, c}
    BY <1>4, <1>5 DEF SayFine
  <2>1. TabsFit
    BY <1>2 DEF IInv, Fit, Kept
  <2> QED
    BY <1>2, <1>8, <2>1 DEF TabsFit, Fits
<1>11. live /\ Sound' => UseFine(q)
  <2> SUFFICES ASSUME live, Sound' PROVE UseFine(q)
    OBVIOUS
  <2>1. Held
    BY <1>2 DEF IInv, Sound
  <2>2. Open(i)
    BY <1>2, <1>8, <2>1 DEF Held, TabsOpen
  <2>3. \A k \in DOMAIN cmds : ~(cmds[k].type = "Leave" /\ cmds[k].channel_index = i)
    BY <2>1 DEF Held, LeftForGood
  <2>4. \A j \in Indices : Refers(q, j) => j = i
    BY <1>4 DEF Refers
  <2> QED
    BY <1>4, <2>2, <2>3, <2>4 DEF UseFine
<1>12. Sends(q)
  BY <1>2, <1>4, <1>8, <1>10, <1>11 DEF Sends
<1>13. tabs' = tabs /\ warning' = warning /\ connecting' = connecting /\ tab_close' = tab_close
  BY <1>2 DEF appVars
<1>14. Moves
  <2>1. TabsFrom /\ TakesPlain /\ (Shut => Shut')
    BY <1>2, <1>13 DEF TabsFrom, SameTab, TakesPlain, Shut
  <2> QED
    BY <1>2, <1>4, <1>5, <1>12, <1>13, <2>1 DEF Moves, Aside, Quietly
<1> QED
  BY <1>7, <1>9, <1>14, MovesInv

\* CLOSE of a warning: the tab it is about goes without a word to the worker.
LEMMA BeginWarningClose ==
  ASSUME IInv, begin_warning_close
  PROVE  IInv'
<1>1. /\ tabs \in Seq(TabSet) /\ OneTab /\ AppType /\ cmds \in Seq(Requests \cup Connects)
      /\ events \in Seq(Events) /\ Types
  BY DEF IInv, Types, AppType, ChatType
<1>2. /\ UNCHANGED <<chatVars, serviceVars, typed, heard, dropped, events>>
      /\ UNCHANGED <<cmds, connecting, tab_close, awaiting_joins, pending_rosters>>
      /\ warning' = NoWarning /\ slips \subseteq slips'
  BY DEF begin_warning_close
<1>3. tabs' \in Seq(TabSet) /\ OneTab' /\ TabsFrom
  <2>1. CASE warning.close_tab \in DOMAIN tabs
    <3>1. tabs' = WithoutTab(warning.close_tab)
      BY <2>1 DEF begin_warning_close
    <3> QED
      BY <1>1, <2>1, <3>1, WithoutTabs
  <2>2. CASE warning.close_tab \notin DOMAIN tabs
    <3>1. tabs' = tabs
      BY <2>2 DEF begin_warning_close
    <3> QED
      BY <1>1, <3>1 DEF OneTab, TabsFrom, SameTab
  <2> QED
    BY <2>1, <2>2
<1>4. AppType'
  BY <1>1, <1>2, <1>3 DEF AppType
<1>5. Types'
  BY <1>1, <1>2, <1>3, <1>4, AppTypes
<1>6. Moves
  BY <1>2, <1>3 DEF Moves, Aside, Quietly, TakesPlain, Shut, NoWarning
<1> QED
  BY <1>2, <1>5, <1>6, MovesInv, HeardKept

\* The dialog goes, and the tab strip stays as it is.
LEMMA WarningGoes ==
  ASSUME IInv, WarningGoesElsewhere
  PROVE  IInv'
<1>1. /\ tabs \in Seq(TabSet) /\ OneTab /\ AppType /\ cmds \in Seq(Requests \cup Connects)
      /\ events \in Seq(Events) /\ Types
  BY DEF IInv, Types, AppType, ChatType
<1>2. /\ UNCHANGED <<chatVars, serviceVars, typed, heard, dropped, events>>
      /\ UNCHANGED <<tabs, cmds, connecting, tab_close, awaiting_joins, pending_rosters>>
      /\ warning' = NoWarning /\ slips \subseteq slips'
  BY DEF WarningGoesElsewhere
<1>3. AppType' /\ OneTab' /\ TabsFrom
  BY <1>1, <1>2 DEF AppType, OneTab, TabsFrom, SameTab
<1>4. Types'
  BY <1>1, <1>2, <1>3, AppTypes
<1>5. Moves
  BY <1>2, <1>3 DEF Moves, Aside, Quietly, TakesPlain, Shut, NoWarning
<1> QED
  BY <1>2, <1>4, <1>5, MovesInv, HeardKept

\* A tab is dropped: the strip has the same tabs in another order.
LEMMA FinishTabDrag ==
  ASSUME IInv, NEW from \in DOMAIN tabs, NEW to \in DOMAIN tabs, finish_tab_drag(from, to)
  PROVE  IInv'
<1>1. /\ tabs \in Seq(TabSet) /\ OneTab /\ AppType /\ cmds \in Seq(Requests \cup Connects)
      /\ events \in Seq(Events) /\ Types
  BY DEF IInv, Types, AppType, ChatType
<1>2. /\ UNCHANGED <<chatVars, serviceVars, typed, heard, dropped, events, warning>>
      /\ UNCHANGED <<cmds, connecting, tab_close, awaiting_joins, pending_rosters>>
      /\ slips \subseteq slips' /\ from # to
      /\ tabs' = [p \in DOMAIN tabs |-> tabs[Carried(p, from, to)]]
  BY DEF finish_tab_drag
<1>3. tabs' \in Seq(TabSet) /\ OneTab' /\ TabsFrom
  BY <1>1, <1>2, DraggedTabs
<1>4. AppType'
  BY <1>1, <1>2, <1>3 DEF AppType
<1>5. Types'
  BY <1>1, <1>2, <1>3, <1>4, AppTypes
<1>6. Moves
  BY <1>2, <1>3 DEF Moves, Aside, Quietly, TakesPlain, Shut
<1> QED
  BY <1>2, <1>5, <1>6, MovesInv, HeardKept

\* The close animation ends: the tab goes, and the worker is told to leave.
LEMMA FinishTabClose ==
  ASSUME IInv, finish_tab_close
  PROVE  IInv'
<1>1. /\ tabs \in Seq(TabSet) /\ OneTab /\ AppType /\ cmds \in Seq(Requests \cup Connects)
      /\ events \in Seq(Events) /\ Types /\ tab_close \in Nat
  BY DEF IInv, Types, AppType, ChatType
<1>2. /\ UNCHANGED <<chatVars, serviceVars, typed, heard, dropped, events>>
      /\ UNCHANGED <<connecting, warning, awaiting_joins, pending_rosters>>
      /\ tab_close # 0 /\ tab_close' = 0
  BY DEF finish_tab_close
<1>3. slips \subseteq slips'
  BY DEF finish_tab_close
<1>4. Kept' => HeardFits'
  BY <1>2, <1>3, HeardKept
<1>5. ~Has(events, "WebAuthentication") /\ ~Shut
  BY <1>2 DEF IInv, Course, StageFirst, Shut, Has
<1>6. CASE tab_close > Len(tabs)
  <2>1. UNCHANGED <<tabs, cmds>>
    BY <1>6 DEF finish_tab_close
  <2>2. AppType' /\ OneTab' /\ TabsFrom
    BY <1>1, <1>2, <2>1 DEF AppType, OneTab, TabsFrom, SameTab
  <2>3. Types'
    BY <1>1, <1>2, <2>1, <2>2, AppTypes
  <2>4. Moves
    BY <1>2, <1>3, <1>5, <2>1, <2>2 DEF Moves, Aside, Quietly, TakesPlain
  <2> QED
    BY <1>4, <2>3, <2>4, MovesInv
<1>7. CASE ~(tab_close > Len(tabs))
  <2>1. tab_close \in DOMAIN tabs
    <3>1. Len(tabs) \in Nat /\ DOMAIN tabs = 1 .. Len(tabs)
      BY <1>1
    <3> QED
      BY <1>1, <1>2, <1>7, <3>1
  <2> DEFINE i == tabs[tab_close].channel_index
             q == Request("Leave", NoChannel, i, 0)
  <2>2. /\ tabs' = RemoveAt(tabs, tab_close)
        /\ cmds' = IF i = 0 THEN cmds ELSE Append(cmds, q)
        /\ slips' = slips \cup Slip("shifted",
              \/ warning.close_tab >= tab_close
              \/ \E k \in DOMAIN events :
                   events[k].type = "Joined" /\ events[k].channel_index = i)
    BY <1>7 DEF finish_tab_close
  <2>3. /\ tabs' \in Seq(TabSet) /\ OneTab' /\ TabsFrom
        /\ \A k \in DOMAIN tabs' : /\ k \in Nat /\ Before(k, tab_close) \in DOMAIN tabs
                                   /\ tabs'[k] = tabs[Before(k, tab_close)]
    BY <1>1, <2>1, <2>2, TabRemoved
  <2>4. AppType'
    BY <1>1, <1>2, <2>3 DEF AppType
  <2>5. CASE i = 0
    <3>1. cmds' = cmds
      BY <2>2, <2>5
    <3>2. Types'
      BY <1>1, <1>2, <2>3, <2>4, <3>1, AppTypes
    <3>3. Moves
      BY <1>2, <1>3, <1>5, <2>3, <3>1 DEF Moves, Aside, Quietly, TakesPlain
    <3> QED
      BY <1>4, <3>2, <3>3, MovesInv
  <2>6. CASE i # 0
    <3>1. i \in Indices
      BY <1>1, <2>1, <2>6, TabTypes
    <3>2. q \in Requests /\ q.type = "Leave" /\ q.channel_index = i
      BY <3>1, RequestShapes
    <3>3. cmds' = Append(cmds, q)
      BY <2>2, <2>6
    <3> HIDE DEF q
    <3>4. cmds' \in Seq(Requests \cup Connects)
      BY <1>1, <3>2, <3>3, SentCmds
    <3>5. Types'
      BY <1>1, <1>2, <2>3, <2>4, <3>4, AppTypes
    <3>6. live /\ Sound' => UseFine(q)
      <4> SUFFICES ASSUME live, Sound' PROVE UseFine(q)
        OBVIOUS
      <4>1. Held
        BY <1>3 DEF IInv, Sound
      <4>2. /\ Open(i)
            /\ \A r \in DOMAIN tabs : tabs[r].channel_index = i => r = tab_close
        BY <1>5, <2>1, <2>6, <4>1 DEF Held, TabsOpen
      <4>3. \A k \in DOMAIN cmds : ~(cmds[k].type = "Leave" /\ cmds[k].channel_index = i)
        BY <2>1, <4>1 DEF Held, LeftForGood
      <4>4. \A k \in DOMAIN events : ~(events[k].type = "Joined" /\ events[k].channel_index = i)
        BY <2>2 DEF Sound, Slip
      <4>5. \A k \in DOMAIN tabs' : tabs'[k].channel_index # i
        <5> SUFFICES ASSUME NEW k \in DOMAIN tabs' PROVE tabs'[k].channel_index # i
          OBVIOUS
        <5>1. k \in Nat /\ Before(k, tab_close) \in DOMAIN tabs /\ tabs'[k] = tabs[Before(k, tab_close)]
          BY <2>3
        <5>2. Before(k, tab_close) # tab_close
          BY <1>1, <5>1 DEF Before
        <5> QED
          BY <4>2, <5>1, <5>2
      <4>6. \A j \in Indices : Refers(q, j) => j = i
        BY <3>2 DEF Refers
      <4> QED
        BY <1>2, <3>2, <4>2, <4>3, <4>4, <4>5, <4>6 DEF UseFine
    <3>7. Sends(q)
      BY <1>5, <3>2, <3>3, <3>6 DEF Sends, SayFine
    <3>8. Moves
      BY <1>2, <1>3, <1>5, <2>3, <3>2, <3>7 DEF Moves, Aside, Quietly, TakesPlain
    <3> QED
      BY <1>4, <3>5, <3>8, MovesInv
  <2> QED
    BY <2>5, <2>6
<1> QED
  BY <1>6, <1>7

\* What a refusal, or a join that is given up, does to the tabs.
LEMMA RejectedTabs ==
  ASSUME Types, NEW c, reject_pending_join(c)
  PROVE  /\ tabs' \in Seq(TabSet) /\ OneTab' /\ TabsFrom /\ slips \subseteq slips'
         /\ awaiting_joins' \subseteq Channels /\ warning'.kind = "channel"
<1>1. tabs \in Seq(TabSet) /\ OneTab /\ awaiting_joins \subseteq Channels
  BY DEF Types, AppType
<1> DEFINE p == Waiting(c)
<1>2. p = 0 \/ p \in DOMAIN tabs
  BY <1>1, TabFound
<1>3. tabs' = IF p = 0 THEN tabs ELSE WithoutTab(p)
  BY DEF reject_pending_join, Waiting
<1>4. slips \subseteq slips' /\ awaiting_joins' = awaiting_joins \ {c} /\ warning'.kind = "channel"
  BY DEF reject_pending_join, show_channel_warning
<1> HIDE DEF p
<1>5. CASE p = 0
  <2>1. tabs' = tabs
    BY <1>3, <1>5
  <2> QED
    BY <1>1, <1>4, <2>1 DEF OneTab, TabsFrom, SameTab
<1>6. CASE p # 0
  <2>1. p \in DOMAIN tabs /\ tabs' = WithoutTab(p)
    BY <1>2, <1>3, <1>6
  <2> QED
    BY <1>1, <1>4, <2>1, WithoutTabs
<1> QED
  BY <1>5, <1>6

\* A join that was not answered in time: the tab that waits for it goes.
LEMMA ExpireAwaitedJoins ==
  ASSUME IInv, expire_awaited_joins
  PROVE  IInv'
<1>1. Types /\ AppType /\ cmds \in Seq(Requests \cup Connects) /\ events \in Seq(Events)
  BY DEF IInv, Types, ChatType
<1>2. PICK c \in awaiting_joins :
        /\ reject_pending_join(c)
        /\ UNCHANGED <<pending_rosters, tab_close, connecting, cmds, events, chatVars,
                       serviceVars, typed, heard, lines, dropped, bounds>>
  BY DEF expire_awaited_joins
<1>3. /\ tabs' \in Seq(TabSet) /\ OneTab' /\ TabsFrom /\ slips \subseteq slips'
      /\ awaiting_joins' \subseteq Channels /\ warning'.kind = "channel"
  BY <1>1, <1>2, RejectedTabs
<1>4. AppType'
  BY <1>1, <1>2, <1>3 DEF AppType
<1>5. Types'
  BY <1>1, <1>2, <1>3, <1>4, AppTypes
<1>6. Moves
  BY <1>2, <1>3 DEF Moves, Aside, Quietly, TakesPlain, Shut
<1> QED
  BY <1>2, <1>3, <1>5, <1>6, MovesInv, HeardKept

\* The rosters are drawn.
LEMMA FlushRosters ==
  ASSUME IInv, flush_rosters
  PROVE  IInv'
<1>1. /\ Types /\ AppType /\ cmds \in Seq(Requests \cup Connects) /\ events \in Seq(Events)
      /\ tabs \in Seq(TabSet) /\ pending_rosters \in [Indices -> RosterSet] /\ OneTab
  BY DEF IInv, Types, ChatType, AppType
<1>2. /\ UNCHANGED <<chatVars, serviceVars, typed, heard, slips, dropped, events>>
      /\ UNCHANGED <<cmds, connecting, tab_close, awaiting_joins, warning>>
      /\ pending_rosters' = [i \in Indices |-> NoRoster]
  BY DEF flush_rosters, history
<1>3. DOMAIN tabs' = DOMAIN tabs /\ DOMAIN tabs = 1 .. Len(tabs) /\ Len(tabs) \in Nat
  BY <1>1 DEF flush_rosters
<1>4. ASSUME NEW p \in DOMAIN tabs
      PROVE  /\ tabs'[p] \in TabSet /\ tabs'[p].channel = tabs[p].channel
             /\ tabs'[p].channel_index = tabs[p].channel_index
  <2> DEFINE i == tabs[p].channel_index
  <2>1. tabs[p] \in TabSet /\ (i # 0 => i \in Indices)
    BY <1>1, TabTypes
  <2>2. CASE i # 0 /\ tabs'[p] = apply_roster_snapshot(tabs[p], i)
    <3>1. pending_rosters[i] \in RosterSet
      BY <1>1, <2>1, <2>2
    <3> DEFINE r == pending_rosters[i]
               t == tabs[p]
    <3>2. r.users \in SUBSET People /\ r.complete \in BOOLEAN
      BY <3>1 DEF RosterSet
    <3>3. tabs'[p] = [t EXCEPT !.users = r.users, !.complete = r.complete]
      BY <2>2 DEF apply_roster_snapshot
    <3>4. t \in TabSet
      BY <2>1
    <3> HIDE DEF r, t
    <3>5. /\ tabs'[p] \in TabSet /\ tabs'[p].channel = t.channel
          /\ tabs'[p].channel_index = t.channel_index
      BY <3>2, <3>3, <3>4 DEF TabSet
    <3> QED
      BY <3>5 DEF t
  <2>3. CASE tabs'[p] = tabs[p]
    BY <2>1, <2>3
  <2> QED
    BY <2>2, <2>3 DEF flush_rosters
<1>5. tabs' \in Seq(TabSet)
  <2>1. tabs' = [p \in 1 .. Len(tabs) |-> tabs'[p]]
    BY <1>3 DEF flush_rosters
  <2>2. \A p \in 1 .. Len(tabs) : tabs'[p] \in TabSet
    BY <1>3, <1>4
  <2> QED
    BY <1>3, <2>1, <2>2
<1>6. OneTab' /\ TabsFrom
  BY <1>1, <1>3, <1>4 DEF OneTab, TabsFrom, SameTab
<1>7. AppType'
  <2>1. NoRoster \in RosterSet
    BY DEF NoRoster, RosterSet
  <2> QED
    BY <1>1, <1>2, <1>5, <2>1 DEF AppType
<1>8. Types'
  BY <1>1, <1>2, <1>6, <1>7, AppTypes
<1>9. Moves
  BY <1>2, <1>6 DEF Moves, Aside, Quietly, TakesPlain, Shut
<1> QED
  BY <1>2, <1>8, <1>9, MovesInv, HeardKept

\* RECONNECT: the call for a connection is the last command there is.
LEMMA Reconnect ==
  ASSUME IInv, reconnect
  PROVE  IInv'
<1>1. /\ Types /\ AppType /\ LineType /\ ServiceType /\ ChatType /\ Course
      /\ cmds \in Seq(Requests \cup Connects) /\ events \in Seq(Events) /\ tabs \in Seq(TabSet)
  BY DEF IInv, Types, ChatType, AppType
<1> DEFINE open == [p \in DOMAIN tabs |-> tabs[p].channel]
           q == Connect(open)
<1>2. /\ UNCHANGED <<tabs, awaiting_joins, pending_rosters, tab_close, events, chatVars,
                     serviceVars, typed, heard, dropped>>
      /\ cmds' = Append(cmds, q) /\ connecting' = "yes" /\ tab_close = 0
      /\ warning'.kind # "disconnected" /\ slips \subseteq slips'
      /\ warning.kind = "disconnected" \/ connecting = "failed"
  BY DEF reconnect, NoWarning
<1>3. /\ UNCHANGED <<live, joining, channels, pending_joins, last_token, wire, room, owed>>
  BY <1>2 DEF chatVars, serviceVars
<1>4. Stopped /\ events = <<>>
  BY <1>1, <1>2 DEF Course, FailureShown
<1>5. q \in Connects /\ q.type = "Connect"
  <2>1. Len(tabs) \in Nat /\ DOMAIN tabs = 1 .. Len(tabs)
    BY <1>1
  <2>2. \A p \in DOMAIN tabs : tabs[p].channel \in Channels
    BY <1>1, TabTypes
  <2>3. open \in Seq(Channels)
    BY <2>1, <2>2
  <2> HIDE DEF open
  <2> QED
    BY <2>3 DEF Connects, Connect
<1> HIDE DEF q
<1>6. /\ cmds' \in Seq(Requests \cup Connects) /\ Len(cmds') = Len(cmds) + 1
      /\ \A k \in DOMAIN cmds' : (k \in DOMAIN cmds /\ cmds'[k] = cmds[k]) \/ (k = Len(cmds) + 1 /\ cmds'[k] = q)
  <2>1. q \in Requests \cup Connects
    BY <1>5
  <2>2. /\ Append(cmds, q) \in Seq(Requests \cup Connects) /\ Len(Append(cmds, q)) = Len(cmds) + 1
        /\ \A k \in DOMAIN cmds : Append(cmds, q)[k] = cmds[k]
        /\ Append(cmds, q)[Len(cmds) + 1] = q
        /\ \A k \in DOMAIN Append(cmds, q) : k \in DOMAIN cmds \/ k = Len(cmds) + 1
    BY <1>1, <2>1, AppendPlaces
  <2> QED
    BY <1>2, <2>2
<1>7. Types'
  <2>1. AppType' /\ OneTab'
    BY <1>1, <1>2 DEF AppType, OneTab, Types
  <2> QED
    BY <1>1, <1>2, <1>6, <2>1, AppTypes
<1>8. Course'
  <2>1. Offline' /\ Dialing'
    BY <1>1, <1>3, <1>4 DEF Course, Offline, Stopped, Dialing
  <2>2. Called'
    <3> SUFFICES ASSUME NEW k \in DOMAIN cmds', cmds'[k].type = "Connect"
                 PROVE  k = Len(cmds') /\ ~live /\ joining = <<>> /\ events = <<>> /\ Shut'
      BY <1>2, <1>3 DEF Called, Shut
    <3>1. k = Len(cmds) + 1
      BY <1>4, <1>6 DEF Stopped, Calls
    <3> QED
      BY <1>2, <1>4, <1>6, <3>1 DEF Stopped, Shut
  <2>3. FailedLast' /\ ConnectedOnce' /\ StageFirst' /\ FailureShown'
    BY <1>2, <1>4 DEF FailedLast, ConnectedOnce, StageFirst, FailureShown
  <2> QED
    BY <2>1, <2>2, <2>3 DEF Course
<1>9. TokensFit'
  BY <1>3 DEF IInv, TokensFit
<1>10. ASSUME Kept' PROVE Fit'
  <2>1. Fit
    BY <1>2, <1>10 DEF IInv, Kept
  <2>2. SaysFit(cmds)'
    <3> SUFFICES ASSUME NEW k \in DOMAIN cmds', cmds'[k].type = "Say"
                 PROVE  /\ cmds'[k].key \in DOMAIN typed
                        /\ room[cmds'[k].channel_index] \in {NoChannel, typed[cmds'[k].key]}
      BY <1>2, <1>3 DEF SaysFit, Fits
    <3>1. k \in DOMAIN cmds /\ cmds'[k] = cmds[k]
      BY <1>5, <1>6
    <3> QED
      BY <2>1, <3>1 DEF Fit, SaysFit, Fits
  <2>3. SaysFit(wire)' /\ TabsFit' /\ JoinsFit' /\ HeardFits'
    BY <1>2, <1>3, <2>1 DEF Fit, SaysFit, TabsFit, JoinsFit, HeardFits, Fits, Has
  <2> QED
    BY <2>2, <2>3 DEF Fit
<1>11. ~live' /\ CommandsSurvive'
  BY <1>2, <1>3, <1>4 DEF IInv, CommandsSurvive, Stopped
<1> QED
  BY <1>7, <1>8, <1>9, <1>10, <1>11 DEF IInv

-----------------------------------------------------------------------------
(* The application's events.                                               *)

\* The first event is gone.
LEMMA Taken ==
  ASSUME events \in Seq(Events), events # <<>>, events' = Tail(events)
  PROVE  /\ events' \in Seq(Events) /\ Head(events) \in Events /\ Head(events) = events[1]
         /\ 1 \in DOMAIN events /\ Len(events) = Len(events') + 1 /\ Len(events') \in Nat
         /\ \A k \in DOMAIN events' : k \in Nat \ {0} /\ k + 1 \in DOMAIN events /\ events'[k] = events[k + 1]
         /\ Shifted
<1>1. /\ Tail(events) \in Seq(Events) /\ Head(events) \in Events /\ Head(events) = events[1] /\ 1 \in DOMAIN events
      /\ Len(events) \in Nat \ {0} /\ Len(Tail(events)) = Len(events) - 1
      /\ \A k \in DOMAIN Tail(events) : k + 1 \in DOMAIN events /\ Tail(events)[k] = events[k + 1] /\ k \in Nat \ {0}
  BY TailPlaces
<1>2. Len(events) = Len(events') + 1 /\ Len(events') \in Nat
  <2> DEFINE m == Len(events)
             n == Len(Tail(events))
  <2>1. m \in Nat \ {0} /\ n = m - 1
    BY <1>1
  <2> HIDE DEF m, n
  <2>2. m = n + 1 /\ n \in Nat
    BY <2>1
  <2> QED
    BY <2>2 DEF m, n
<1>3. \A k \in DOMAIN events' : k \in Nat \ {0} /\ k + 1 \in DOMAIN events /\ events'[k] = events[k + 1]
  BY <1>1
<1>4. \A k \in DOMAIN events' : k \in Nat
  BY <1>3
<1>5. ShiftedBy(1)
  BY <1>2, <1>3, <1>4, Zenon DEF ShiftedBy
<1>6. Shifted
  BY <1>5 DEF Shifted
<1>7. events' \in Seq(Events)
  BY <1>1
<1> QED
  BY <1>1, <1>2, <1>3, <1>6, <1>7, Zenon

\* What is left of the events when the first is taken.
LEMMA TakenPlaces ==
  ASSUME events \in Seq(Events), events # <<>>, events' = Tail(events)
  PROVE  /\ Head(events) \in Events /\ Head(events) = events[1] /\ 1 \in DOMAIN events
         /\ \A k \in DOMAIN events' : k \in Nat \ {0} /\ k + 1 \in DOMAIN events /\ events'[k] = events[k + 1]
         /\ \A k \in DOMAIN events : k # 1 =>
              k \in Nat \ {0} /\ k - 1 \in DOMAIN events' /\ events'[k - 1] = events[k]
<1>1. /\ Head(events) \in Events /\ Head(events) = events[1] /\ 1 \in DOMAIN events
      /\ \A k \in DOMAIN events' : k \in Nat \ {0} /\ k + 1 \in DOMAIN events /\ events'[k] = events[k + 1]
  BY Taken
<1>2. \A k \in DOMAIN events : k # 1 =>
        k \in Nat \ {0} /\ k - 1 \in DOMAIN events' /\ events'[k - 1] = events[k]
  <2>1. /\ Len(events) \in Nat /\ DOMAIN events = 1 .. Len(events)
        /\ Len(events') \in Nat /\ Len(events) = Len(events') + 1 /\ DOMAIN events' = 1 .. Len(events')
    BY Taken
  <2> SUFFICES ASSUME NEW k \in DOMAIN events, k # 1
               PROVE  k \in Nat \ {0} /\ k - 1 \in DOMAIN events' /\ events'[k - 1] = events[k]
    OBVIOUS
  <2>2. k \in Nat \ {0} /\ k - 1 \in 1 .. Len(events')
    BY <2>1
  <2>3. k - 1 \in DOMAIN events' /\ (k - 1) + 1 = k
    BY <2>1, <2>2
  <2>4. events'[k - 1] = events[(k - 1) + 1]
    BY <1>1, <2>3
  <2> QED
    BY <2>2, <2>3, <2>4
<1> QED
  BY <1>1, <1>2

\* What no event changes.
Handles ==
  /\ events # <<>> /\ events' = Tail(events)
  /\ UNCHANGED <<tab_close, cmds, chatVars, serviceVars, typed, heard, dropped>>

\* The types after an event.
LEMMA HandledTypes ==
  ASSUME Types, Handles, AppType', OneTab'
  PROVE  Types'
<1>1. events \in Seq(Events) /\ cmds \in Seq(Requests \cup Connects)
  BY DEF Types, ChatType
<1>2. events' \in Seq(Events)
  BY <1>1, Taken DEF Handles
<1>3. UNCHANGED <<chatVars, serviceVars, typed, heard>> /\ cmds' \in Seq(Requests \cup Connects)
  BY <1>1 DEF Handles
<1> QED
  BY <1>2, <1>3, AppTypes

\* An event that gives no tab an index and says nothing of the connection.
LEMMA HandledAside ==
  ASSUME IInv, Handles, AppType', OneTab', TabsFrom, Head(events).type \notin StageNames,
         slips \subseteq slips', connecting' = connecting,
         warning'.kind = "disconnected" => warning.kind = "disconnected"
  PROVE  IInv'
<1>1. Types'
  BY HandledTypes DEF IInv
<1>2. Moves
  BY DEF Handles, Moves, Aside, Quietly, TakesPlain, Shut
<1>3. Kept' => HeardFits'
  BY HeardKept DEF Handles
<1> QED
  BY <1>1, <1>2, <1>3, MovesInv

\* A refusal.
LEMMA HandleJoinRejected ==
  ASSUME IInv, Handles, Head(events).type = "JoinRejected", OnJoinRejected(Head(events))
  PROVE  IInv'
<1>1. /\ reject_pending_join(Head(events).channel)
      /\ UNCHANGED <<pending_rosters, connecting>>
  BY DEF OnJoinRejected
<1>2. /\ tabs' \in Seq(TabSet) /\ OneTab' /\ TabsFrom /\ slips \subseteq slips'
      /\ awaiting_joins' \subseteq Channels /\ warning'.kind = "channel"
  BY <1>1, RejectedTabs DEF IInv
<1>3. AppType'
  BY <1>1, <1>2 DEF IInv, Types, AppType, Handles
<1> QED
  BY <1>1, <1>2, <1>3, HandledAside DEF StageNames

\* A roster.
LEMMA HandleRoster ==
  ASSUME IInv, Handles, Head(events).type = "Roster", OnRoster(Head(events))
  PROVE  IInv'
<1>1. Head(events) \in Events
  BY Taken DEF Handles, IInv, Types, ChatType
<1> DEFINE e == Head(events)
<1>2. e.channel_index \in Indices /\ [there |-> TRUE, users |-> e.users, complete |-> e.complete] \in RosterSet
  BY <1>1 DEF Events, RosterSet
<1>3. pending_rosters' \in [Indices -> RosterSet]
  <2>1. pending_rosters' = [pending_rosters EXCEPT ![e.channel_index] =
          [there |-> TRUE, users |-> e.users, complete |-> e.complete]]
    BY DEF OnRoster
  <2> HIDE DEF e
  <2> QED
    BY <1>2, <2>1 DEF IInv, Types, AppType
<1>4. UNCHANGED <<tabs, awaiting_joins, warning, connecting, slips>>
  BY DEF OnRoster
<1>5. AppType' /\ OneTab' /\ TabsFrom
  BY <1>3, <1>4 DEF IInv, Types, AppType, Handles, OneTab, TabsFrom, SameTab
<1> QED
  BY <1>4, <1>5, HandledAside DEF StageNames

\* We were removed from a channel: a warning about its tab.
LEMMA HandleRemoved ==
  ASSUME IInv, Handles, Head(events).type = "Removed", OnRemoved(Head(events))
  PROVE  IInv'
<1>1. UNCHANGED <<tabs, awaiting_joins, pending_rosters, connecting>>
  BY DEF OnRemoved
<1>2. slips \subseteq slips' /\ (warning'.kind = "disconnected" => warning.kind = "disconnected")
  <2>1. CASE UNCHANGED <<warning, slips>>
    BY <2>1
  <2>2. CASE /\ show_channel_warning(Position(Head(events).channel_index))
             /\ slips' = slips \cup Replaces
    BY <2>2 DEF show_channel_warning
  <2> QED
    BY <2>1, <2>2 DEF OnRemoved
<1>3. AppType' /\ OneTab' /\ TabsFrom
  BY <1>1 DEF IInv, Types, AppType, Handles, OneTab, TabsFrom, SameTab
<1> QED
  BY <1>1, <1>2, <1>3, HandledAside DEF StageNames

\* A line, shown in the tab of its index.
LEMMA HandleMessage ==
  ASSUME IInv, Handles, Head(events).type = "Message", OnMessage(Head(events))
  PROVE  IInv'
<1>1. UNCHANGED <<tabs, awaiting_joins, pending_rosters, warning, connecting, slips>>
  BY DEF OnMessage
<1>2. AppType' /\ OneTab' /\ TabsFrom
  BY <1>1 DEF IInv, Types, AppType, Handles, OneTab, TabsFrom, SameTab
<1> QED
  BY <1>1, <1>2, HandledAside DEF StageNames

\* Every tab is that of the join, or it was there before for another channel.
JoinedTab(p, i, c) == tabs'[p].channel = c /\ tabs'[p].channel_index = i
OtherTab(p, c) == \E q \in DOMAIN tabs : SameTab(p, q) /\ tabs[q].channel # c

\* A channel that is joined gets its index, or a tab with it.
LEMMA JoinedTabs ==
  ASSUME tabs \in Seq(TabSet), OneTab, NEW i \in Indices, NEW c \in Channels,
         tabs' = IF TabOf(c) = 0 THEN Append(tabs, Tab(c, i))
                 ELSE [tabs EXCEPT ![TabOf(c)].channel_index = i]
  PROVE  /\ tabs' \in Seq(TabSet) /\ OneTab'
         /\ \A p \in DOMAIN tabs' : JoinedTab(p, i, c) \/ OtherTab(p, c)
<1>1. CASE TabOf(c) = 0
  <2>1. \A p \in DOMAIN tabs : tabs[p].channel # c
    BY <1>1, NoTabFound
  <2> DEFINE t == Tab(c, i)
  <2>2. t \in TabSet /\ t.channel = c /\ t.channel_index = i
    BY NewTabs
  <2>3. tabs' = Append(tabs, t)
    BY <1>1
  <2> HIDE DEF t
  <2>4. /\ tabs' \in Seq(TabSet) /\ OneTab'
        /\ \A p \in DOMAIN tabs' : (p \in DOMAIN tabs /\ tabs'[p] = tabs[p]) \/ tabs'[p] = t
    BY <2>1, <2>2, <2>3, TabAdded
  <2> QED
    BY <2>1, <2>2, <2>4 DEF JoinedTab, OtherTab, SameTab
<1>2. CASE TabOf(c) # 0
  <2> DEFINE r == TabOf(c)
  <2>1. r \in DOMAIN tabs /\ tabs[r].channel = c
    BY <1>2, TabFound
  <2>2. tabs' = [tabs EXCEPT ![r].channel_index = i]
    BY <1>2
  <2> HIDE DEF r
  <2>3. tabs' = [tabs EXCEPT ![r] = [tabs[r] EXCEPT !.channel_index = i]]
    BY <2>2
  <2> DEFINE t == [tabs[r] EXCEPT !.channel_index = i]
  <2>4. tabs[r] \in TabSet
    BY <2>1
  <2>5. t \in TabSet /\ t.channel = c /\ t.channel_index = i
    BY <2>1, <2>4 DEF TabSet
  <2> HIDE DEF t
  <2>6. tabs' = [tabs EXCEPT ![r] = t]
    BY <2>3 DEF t
  <2>7. /\ tabs' \in Seq(TabSet) /\ DOMAIN tabs' = DOMAIN tabs /\ tabs'[r] = t
        /\ \A p \in DOMAIN tabs : p # r => tabs'[p] = tabs[p]
    <3>1. r \in 1 .. Len(tabs) /\ DOMAIN tabs = 1 .. Len(tabs)
      BY <2>1
    <3>2. /\ [tabs EXCEPT ![r] = t] \in Seq(TabSet)
          /\ Len([tabs EXCEPT ![r] = t]) = Len(tabs)
          /\ \A j \in 1 .. Len(tabs) : [tabs EXCEPT ![r] = t][j] = IF j = r THEN t ELSE tabs[j]
      BY <2>5, <3>1, ExceptSeq
    <3>3. DOMAIN [tabs EXCEPT ![r] = t] = DOMAIN tabs
      OBVIOUS
    <3> QED
      BY <2>6, <3>1, <3>2, <3>3
  <2>8. OneTab'
    BY <2>1, <2>5, <2>7 DEF OneTab
  <2>9. \A p \in DOMAIN tabs' : JoinedTab(p, i, c) \/ OtherTab(p, c)
    BY <2>1, <2>5, <2>7 DEF JoinedTab, OtherTab, SameTab, OneTab
  <2> QED
    BY <2>7, <2>8, <2>9
<1> QED
  BY <1>1, <1>2

\* A join: the tab of the channel gets the index.
LEMMA HandleJoined ==
  ASSUME IInv, Handles, Head(events).type = "Joined", OnJoined(Head(events))
  PROVE  IInv'
<1> DEFINE e == Head(events)
           i == e.channel_index
           c == e.channel
<1>1. /\ events \in Seq(Events) /\ Types /\ Course /\ tabs \in Seq(TabSet) /\ OneTab /\ AppType
  BY DEF IInv, Types, ChatType, AppType
<1>2. /\ events' \in Seq(Events) /\ e \in Events /\ e = events[1] /\ 1 \in DOMAIN events
      /\ \A k \in DOMAIN events' : k \in Nat \ {0} /\ k + 1 \in DOMAIN events /\ events'[k] = events[k + 1]
  BY <1>1, Taken DEF Handles
<1>3. i \in Indices /\ c \in Channels
  BY <1>2 DEF Events
<1>4. /\ awaiting_joins' = awaiting_joins \ {c}
      /\ tabs' = IF TabOf(c) = 0 THEN Append(tabs, Tab(c, i))
                 ELSE [tabs EXCEPT ![TabOf(c)].channel_index = i]
      /\ UNCHANGED <<pending_rosters, warning, connecting>>
      /\ slips \subseteq slips'
  BY DEF OnJoined
<1> HIDE DEF e
<1>5. events[1].type = "Joined" /\ events[1].channel_index = i /\ events[1].channel = c
  BY <1>2 DEF e
<1>6. /\ tabs' \in Seq(TabSet) /\ OneTab'
      /\ \A p \in DOMAIN tabs' : JoinedTab(p, i, c) \/ OtherTab(p, c)
  BY <1>1, <1>3, <1>4, JoinedTabs
<1>7. UNCHANGED <<tab_close, cmds, chatVars, serviceVars, typed, heard, dropped>>
  BY DEF Handles
<1>8. UNCHANGED <<live, joining, channels, pending_joins, last_token, wire, room, owed>>
  BY <1>7 DEF chatVars, serviceVars
<1>9. Types'
  <2>1. AppType'
    BY <1>1, <1>4, <1>6, <1>7 DEF AppType
  <2> QED
    BY <1>1, <1>6, <2>1, HandledTypes
<1>10. Course'
  <2>1. TakesPlain /\ events # <<>>
    BY DEF Handles, TakesPlain, StageNames
  <2>2. Aside
    BY <1>4, <1>7, <2>1 DEF Aside, Quietly, Shut
  <2> QED
    BY <1>1, <2>2, AsideCourse
<1>11. ~Has(events, "WebAuthentication")
  <2> SUFFICES ASSUME NEW k \in DOMAIN events, events[k].type = "WebAuthentication" PROVE FALSE
    BY DEF Has
  <2>1. k = 1
    BY <1>1 DEF Course, StageFirst
  <2> QED
    BY <1>5, <2>1
<1>12. TokensFit'
  BY <1>8 DEF IInv, TokensFit
<1>13. ASSUME Kept' PROVE Fit'
  <2>1. Fit
    BY <1>4, <1>13 DEF IInv, Kept
  <2>2. SaysFit(cmds)' /\ SaysFit(wire)' /\ HeardFits'
    BY <1>7, <1>8, <2>1 DEF Fit, SaysFit, HeardFits, Fits
  <2>3. JoinsFit'
    BY <1>2, <1>8, <2>1 DEF Fit, JoinsFit, Fits
  <2>4. TabsFit'
    <3> SUFFICES ASSUME NEW p \in DOMAIN tabs', tabs'[p].channel_index # 0
                 PROVE  room[tabs'[p].channel_index] \in {NoChannel, tabs'[p].channel}
      BY <1>8 DEF TabsFit, Fits
    <3>1. CASE JoinedTab(p, i, c)
      BY <1>2, <1>5, <2>1, <3>1 DEF Fit, JoinsFit, Fits, JoinedTab
    <3>2. CASE OtherTab(p, c)
      BY <1>11, <2>1, <3>2 DEF Fit, TabsFit, Fits, OtherTab, SameTab
    <3> QED
      BY <1>6, <3>1, <3>2
  <2> QED
    BY <2>2, <2>3, <2>4 DEF Fit
<1>14. ASSUME live', Sound' PROVE Held'
  <2>1. Held
    BY <1>4, <1>8, <1>14 DEF IInv, Sound
  <2>2. CmdsOpen'
    BY <1>7, <1>8, <2>1 DEF Held, CmdsOpen, Open, Refers
  <2>3. JoinsOpen'
    BY <1>2, <1>8, <2>1 DEF Held, JoinsOpen, Open
  <2>4. JoinsDiffer'
    <3> SUFFICES ASSUME NEW k \in DOMAIN events', NEW l \in DOMAIN events',
                        events'[k].type = "Joined", events'[l].type = "Joined",
                        events'[k].channel_index = events'[l].channel_index
                 PROVE  k = l
      BY DEF JoinsDiffer
    <3>1. k + 1 = l + 1
      BY <1>2, <2>1 DEF Held, JoinsDiffer
    <3> QED
      BY <1>2, <3>1
  <2>5. \A k \in DOMAIN events' : events'[k].type = "Joined" => events'[k].channel_index # i
    <3> SUFFICES ASSUME NEW k \in DOMAIN events', events'[k].type = "Joined", events'[k].channel_index = i
                 PROVE  FALSE
      OBVIOUS
    <3>1. k + 1 = 1 /\ k \in Nat \ {0}
      BY <1>2, <1>5, <2>1 DEF Held, JoinsDiffer
    <3> QED
      BY <3>1
  <2>6. \A q \in DOMAIN tabs : tabs[q].channel # c => tabs[q].channel_index # i
    <3> SUFFICES ASSUME NEW q \in DOMAIN tabs, tabs[q].channel_index = i PROVE tabs[q].channel = c
      OBVIOUS
    <3>1. i # 0
      BY <1>3, ChannelsAssumption
    <3> QED
      BY <1>2, <1>5, <1>11, <2>1, <3>1 DEF Held, TabsOpen
  <2>7. TabsOpen'
    <3> SUFFICES ASSUME NEW p \in DOMAIN tabs', tabs'[p].channel_index # 0
                 PROVE  /\ Open(tabs'[p].channel_index)
                        /\ \A q \in DOMAIN tabs' : tabs'[q].channel_index = tabs'[p].channel_index => p = q
                        /\ \A k \in DOMAIN events' :
                             events'[k].type = "Joined" /\ events'[k].channel_index = tabs'[p].channel_index =>
                               events'[k].channel = tabs'[p].channel
      BY <1>8 DEF TabsOpen, Open
    <3>1. CASE JoinedTab(p, i, c)
      <4>1. Open(i)
        BY <1>2, <1>5, <2>1 DEF Held, JoinsOpen
      <4>2. ASSUME NEW q \in DOMAIN tabs', tabs'[q].channel_index = i
            PROVE  p = q
        <5>1. JoinedTab(q, i, c)
          BY <1>6, <2>6, <4>2 DEF OtherTab, SameTab
        <5> QED
          BY <1>6, <3>1, <5>1 DEF OneTab, JoinedTab
      <4> QED
        BY <2>5, <3>1, <4>1, <4>2 DEF JoinedTab
    <3>2. CASE OtherTab(p, c)
      <4>1. PICK r \in DOMAIN tabs : SameTab(p, r) /\ tabs[r].channel # c
        BY <3>2 DEF OtherTab
      <4>2. /\ Open(tabs[r].channel_index)
            /\ \A q \in DOMAIN tabs : tabs[q].channel_index = tabs[r].channel_index => r = q
            /\ \A k \in DOMAIN events :
                 events[k].type = "Joined" /\ events[k].channel_index = tabs[r].channel_index =>
                   events[k].channel = tabs[r].channel
        BY <1>11, <2>1, <4>1 DEF Held, TabsOpen, SameTab
      <4>3. ASSUME NEW q \in DOMAIN tabs', tabs'[q].channel_index = tabs'[p].channel_index
            PROVE  p = q
        <5>1. ~JoinedTab(q, i, c)
          BY <2>6, <4>1, <4>3 DEF JoinedTab, SameTab
        <5>2. PICK s \in DOMAIN tabs : SameTab(q, s)
          BY <1>6, <5>1 DEF OtherTab
        <5>3. r = s
          BY <4>1, <4>2, <4>3, <5>2 DEF SameTab
        <5> QED
          BY <1>6, <4>1, <5>2, <5>3 DEF SameTab, OneTab
      <4>4. \A k \in DOMAIN events' :
              events'[k].type = "Joined" /\ events'[k].channel_index = tabs'[p].channel_index =>
                events'[k].channel = tabs'[p].channel
        BY <1>2, <4>1, <4>2 DEF SameTab
      <4> QED
        BY <4>1, <4>2, <4>3, <4>4 DEF SameTab
    <3> QED
      BY <1>6, <3>1, <3>2
  <2>8. LeftForGood'
    <3> SUFFICES ASSUME NEW k \in DOMAIN cmds, cmds[k].type = "Leave"
                 PROVE  /\ \A l \in DOMAIN cmds : l > k => ~Refers(cmds[l], cmds[k].channel_index)
                        /\ \A p \in DOMAIN tabs' : tabs'[p].channel_index # cmds[k].channel_index
                        /\ \A l \in DOMAIN events' :
                             ~(events'[l].type = "Joined" /\ events'[l].channel_index = cmds[k].channel_index)
      BY <1>7 DEF LeftForGood, Refers
    <3>1. /\ \A l \in DOMAIN cmds : l > k => ~Refers(cmds[l], cmds[k].channel_index)
          /\ \A p \in DOMAIN tabs : tabs[p].channel_index # cmds[k].channel_index
          /\ \A l \in DOMAIN events :
               ~(events[l].type = "Joined" /\ events[l].channel_index = cmds[k].channel_index)
      BY <2>1 DEF Held, LeftForGood
    <3>2. i # cmds[k].channel_index
      BY <1>2, <1>5, <3>1
    <3>3. \A p \in DOMAIN tabs' : tabs'[p].channel_index # cmds[k].channel_index
      BY <1>6, <3>1, <3>2 DEF JoinedTab, OtherTab, SameTab
    <3> QED
      BY <1>2, <3>1, <3>3
  <2> QED
    BY <2>2, <2>3, <2>4, <2>7, <2>8 DEF Held
<1>15. CommandsSurvive'
  BY <1>4, <1>7, <1>8 DEF IInv, CommandsSurvive
<1> QED
  BY <1>9, <1>10, <1>12, <1>13, <1>14, <1>15 DEF IInv

\* The stages of a connection.
LEMMA HandleStage ==
  ASSUME IInv, Handles, Head(events).type \in StageNames, OnStage(Head(events))
  PROVE  IInv'
<1> DEFINE e == Head(events)
<1>1. /\ events \in Seq(Events) /\ Types /\ Course /\ tabs \in Seq(TabSet) /\ OneTab /\ AppType
  BY DEF IInv, Types, ChatType, AppType
<1>2. /\ events' \in Seq(Events) /\ e = events[1] /\ 1 \in DOMAIN events
      /\ Len(events) = Len(events') + 1 /\ Len(events') \in Nat
      /\ \A k \in DOMAIN events' : k \in Nat \ {0} /\ k + 1 \in DOMAIN events /\ events'[k] = events[k + 1]
      /\ Shifted
  BY <1>1, Taken DEF Handles
<1>3. /\ UNCHANGED <<tab_close, cmds, chatVars, serviceVars, typed, heard, dropped>>
      /\ UNCHANGED <<awaiting_joins, pending_rosters>> /\ events # <<>>
  BY DEF Handles, OnStage
<1>4. UNCHANGED <<live, joining, channels, pending_joins, last_token, wire, room, owed>>
  BY <1>3 DEF chatVars, serviceVars
<1>5. ASSUME AppType', OneTab', Course', TabsFrom, slips \subseteq slips',
             tabs' = <<>> \/ ~Has(events, "WebAuthentication")
      PROVE  IInv'
  <2>1. Types'
    BY <1>1, <1>5, HandledTypes
  <2>2. Keeps
    BY <1>2, <1>3, <1>5 DEF Keeps, Quietly
  <2>3. Kept' => HeardFits'
    BY <1>3, <1>5, HeardKept
  <2> QED
    BY <1>5, <2>1, <2>2, <2>3, KeepsInv
<1>6. ~Has(events', "WebAuthentication")
  <2> SUFFICES ASSUME NEW k \in DOMAIN events', events'[k].type = "WebAuthentication" PROVE FALSE
    BY DEF Has
  <2>1. k + 1 = 1 /\ k \in Nat \ {0}
    BY <1>1, <1>2 DEF Course, StageFirst
  <2> QED
    BY <2>1
<1>7. Offline'
  BY <1>1, <1>4 DEF Course, Offline
<1>8. StageFirst'
  BY <1>6 DEF StageFirst, Has
<1>9. ~Calls
  BY <1>1, <1>3 DEF Course, Called, Calls
<1>10. Called' /\ (Stopped => Stopped')
  BY <1>3, <1>4, <1>9 DEF Called, Calls, Stopped
<1>11. FailedLast'
  <2> SUFFICES ASSUME NEW k \in DOMAIN events', events'[k].type = "Error"
               PROVE  k = Len(events') /\ Stopped'
    BY DEF FailedLast
  <2>1. k + 1 = Len(events) /\ Stopped
    BY <1>1, <1>2 DEF Course, FailedLast
  <2> QED
    BY <1>2, <1>10, <2>1
<1>12. CASE e.type = "WebAuthentication"
  <2>1. tabs' = <<>> /\ connecting' = "yes" /\ UNCHANGED <<warning, slips>>
    BY <1>12 DEF OnStage
  <2>2. Shut /\ cmds = <<>>
    BY <1>1, <1>2, <1>12 DEF Course, StageFirst
  <2>3. connecting' = connecting /\ (Shut => Shut')
    BY <1>3, <2>1, <2>2 DEF Shut
  <2>4. AppType' /\ OneTab' /\ TabsFrom
    BY <1>1, <1>3, <2>1 DEF AppType, OneTab, TabsFrom
  <2>5. Dialing'
    <3> SUFFICES ASSUME joining # <<>>
                 PROVE  ~live /\ cmds = <<>> /\ Shut' /\ events' = <<>>
      BY <1>3, <1>4, <2>1 DEF Dialing, Shut
    <3>1. ~live /\ events = <<Stage("WebAuthentication")>>
      BY <1>1, <1>3 DEF Course, Dialing
    <3>2. Len(events) = 1
      BY <3>1
    <3>3. events' \in Seq(Events) /\ Len(events) = Len(events') + 1 /\ Len(events') \in Nat
      BY <1>2
    <3> DEFINE m == Len(events')
               n == Len(events)
    <3> HIDE DEF m, n
    <3>4. n = m + 1 /\ m \in Nat /\ n = 1
      BY <3>2, <3>3 DEF m, n
    <3>5. m = 0
      BY <3>4
    <3>6. events' = <<>>
      BY <3>3, <3>5, EmptySeq DEF m
    <3> QED
      BY <2>2, <2>3, <3>1, <3>6
  <2>6. FailureShown'
    BY <1>1, <1>3, <2>1 DEF Course, FailureShown
  <2>7. ConnectedOnce'
    <3> SUFFICES ASSUME NEW k \in DOMAIN events', events'[k].type = "Connected"
                 PROVE  \A l \in DOMAIN events' : events'[l].type = "Connected" => l = k
      BY <1>3, <2>2, <2>3 DEF ConnectedOnce, Shut
    <3>1. \A l \in DOMAIN events : events[l].type = "Connected" => l = k + 1
      BY <1>1, <1>2 DEF Course, ConnectedOnce
    <3>2. \A l \in DOMAIN events' : events'[l].type = "Connected" => l + 1 = k + 1
      BY <1>2, <3>1
    <3> QED
      BY <1>2, <3>2
  <2>8. Course'
    BY <1>7, <1>8, <1>10, <1>11, <2>5, <2>6, <2>7 DEF Course
  <2> QED
    BY <1>5, <2>1, <2>4, <2>8
<1>13. CASE e.type \in {"Connected", "Error"}
  <2>1. ~Has(events, "WebAuthentication") /\ events # <<Stage("WebAuthentication")>>
    <3>1. ~Has(events, "WebAuthentication")
      <4> SUFFICES ASSUME NEW k \in DOMAIN events, events[k].type = "WebAuthentication" PROVE FALSE
        BY DEF Has
      <4>1. k = 1
        BY <1>1 DEF Course, StageFirst
      <4> QED
        BY <1>2, <1>13, <4>1
    <3>2. \A s : s = <<Stage("WebAuthentication")>> => Has(s, "WebAuthentication")
      BY EventFields DEF Has
    <3> QED
      BY <3>1, <3>2
  <2>2. tabs' = tabs /\ slips \subseteq slips'
    BY <1>13 DEF OnStage
  <2>3. AppType' /\ OneTab' /\ TabsFrom
    BY <1>1, <1>3, <2>2 DEF AppType, OneTab, TabsFrom, SameTab
  <2>4. Dialing'
    BY <1>1, <1>3, <1>4, <2>1 DEF Course, Dialing
  <2>5. FailureShown' /\ ConnectedOnce'
    <3>1. CASE e.type = "Connected"
      <4>1. connecting' = "no" /\ warning' = NoWarning
        BY <3>1 DEF OnStage
      <4>2. \A k \in DOMAIN events' : events'[k].type # "Connected"
        <5> SUFFICES ASSUME NEW k \in DOMAIN events', events'[k].type = "Connected" PROVE FALSE
          OBVIOUS
        <5>1. k + 1 = 1 /\ k \in Nat \ {0}
          BY <1>1, <1>2, <3>1 DEF Course, ConnectedOnce
        <5> QED
          BY <5>1
      <4> QED
        BY <4>1, <4>2 DEF FailureShown, ConnectedOnce, NoWarning
    <3>2. CASE e.type = "Error"
      <4>1. 1 = Len(events) /\ Stopped
        BY <1>1, <1>2, <3>2 DEF Course, FailedLast
      <4>2. events' = <<>>
        BY <1>2, <4>1
      <4> QED
        BY <1>10, <4>1, <4>2 DEF FailureShown, ConnectedOnce
    <3> QED
      BY <1>13, <3>1, <3>2
  <2>6. Course'
    BY <1>7, <1>8, <1>10, <1>11, <2>4, <2>5 DEF Course
  <2> QED
    BY <1>5, <2>1, <2>2, <2>3, <2>6
<1> QED
  BY <1>12, <1>13 DEF StageNames

\* An event, whichever it is.
LEMMA HandleClientEvent ==
  ASSUME IInv, handle_client_event
  PROVE  IInv'
<1> DEFINE e == Head(events)
<1>1. Handles
  BY DEF handle_client_event, Handles
<1>2. e \in Events
  BY <1>1, Taken DEF Handles, IInv, Types, ChatType
<1>3. e.type \in {"Joined", "JoinRejected", "Roster", "Removed", "Message"} \cup StageNames
  BY <1>2 DEF Events
<1>4. CASE e.type = "Joined"
  <2>1. OnJoined(e)
    BY <1>4 DEF handle_client_event
  <2> QED
    BY <1>1, <1>4, <2>1, HandleJoined
<1>5. CASE e.type = "JoinRejected"
  <2>1. OnJoinRejected(e)
    BY <1>5 DEF handle_client_event
  <2> QED
    BY <1>1, <1>5, <2>1, HandleJoinRejected
<1>6. CASE e.type = "Roster"
  <2>1. OnRoster(e)
    BY <1>6 DEF handle_client_event
  <2> QED
    BY <1>1, <1>6, <2>1, HandleRoster
<1>7. CASE e.type = "Removed"
  <2>1. OnRemoved(e)
    BY <1>7 DEF handle_client_event
  <2> QED
    BY <1>1, <1>7, <2>1, HandleRemoved
<1>8. CASE e.type = "Message"
  <2>1. OnMessage(e)
    BY <1>8 DEF handle_client_event
  <2> QED
    BY <1>1, <1>8, <2>1, HandleMessage
<1>9. CASE e.type \in StageNames
  <2>1. OnStage(e)
    BY <1>9 DEF handle_client_event, StageNames
  <2> QED
    BY <1>1, <1>9, <2>1, HandleStage
<1> QED
  BY <1>3, <1>4, <1>5, <1>6, <1>7, <1>8, <1>9

-----------------------------------------------------------------------------
(* The worker takes a command and sends a request of its own.              *)

Serves(w, es) ==
  /\ live /\ live' = live /\ cmds # <<>> /\ cmds' = Tail(cmds)
  /\ UNCHANGED <<appVars, joining, room, typed, heard, dropped>> /\ slips \subseteq slips'
  /\ w \in Requests /\ wire' = Append(wire, w)
  /\ es \in Seq(Events) /\ Plain(es) /\ events' = events \o es
  /\ w.type = "Say" => /\ Head(cmds).type = "Say" /\ Head(cmds).key = w.key
                       /\ Head(cmds).channel_index = w.channel_index
  /\ \A i \in Indices :
       Open(i) /\ ~(Head(cmds).type = "Leave" /\ Head(cmds).channel_index = i) => Open(i)'

\* No stage or join comes among the events.
LEMMA ServedEvents ==
  ASSUME events \in Seq(Events), NEW w, NEW es, Serves(w, es)
  PROVE  \A k \in DOMAIN events' : events'[k].type \in StageNames \cup {"Joined"} =>
           k \in DOMAIN events /\ events'[k] = events[k]
<1>1. es \in Seq(Events) /\ events' = events \o es /\ Plain(es)
  BY DEF Serves
<1> QED
  BY <1>1, Emission DEF Plain

\* While commands are taken no stage of the connection is under way.
LEMMA ServesCourse ==
  ASSUME Types, Course, NEW w, NEW es, Serves(w, es)
  PROVE  Course'
<1>1. \A k \in DOMAIN events' : events'[k].type \in StageNames \cup {"Joined"} =>
        k \in DOMAIN events /\ events'[k] = events[k]
  BY ServedEvents DEF Types, ChatType
<1>2. /\ live /\ live' /\ cmds # <<>> /\ joining' = joining /\ warning' = warning
      /\ connecting' = connecting /\ tab_close' = tab_close
  BY DEF Serves, appVars
<1>3. joining = <<>> /\ ~Calls
  BY <1>2 DEF Course, Dialing, Called, Calls
<1>4. ~Calls'
  <2>1. \A k \in DOMAIN cmds' : \E l \in DOMAIN cmds : cmds'[k] = cmds[l]
    BY CmdsMembers DEF Types, ChatType, Serves
  <2> QED
    BY <1>3, <2>1 DEF Calls
<1>5. Offline' /\ Dialing' /\ Called' /\ FailureShown'
  BY <1>2, <1>3, <1>4 DEF Course, Offline, Dialing, Called, Calls, FailureShown, Stopped
<1>6. \A k \in DOMAIN events : events[k].type \notin StageNames
  BY <1>2 DEF Course, FailedLast, ConnectedOnce, StageFirst, Stopped, StageNames
<1>7. FailedLast' /\ ConnectedOnce' /\ StageFirst'
  BY <1>1, <1>6 DEF FailedLast, ConnectedOnce, StageFirst, StageNames
<1> QED
  BY <1>5, <1>7 DEF Course

\* Each line under way goes to its room, or to none.
LEMMA ServesFit ==
  ASSUME IInv, NEW w, NEW es, Serves(w, es)
  PROVE  Kept' => Fit'
<1> SUFFICES ASSUME Kept' PROVE Fit'
  OBVIOUS
<1>1. Fit
  BY DEF IInv, Serves, Kept
<1>2. UNCHANGED <<tabs, room, typed, heard>> /\ wire \in Seq(Requests) /\ events \in Seq(Events)
  BY DEF Serves, appVars, IInv, Types, ServiceType, ChatType
<1>3. \A k \in DOMAIN events' : events'[k].type \in StageNames \cup {"Joined"} =>
        k \in DOMAIN events /\ events'[k] = events[k]
  BY <1>2, ServedEvents
<1>4. \A k \in DOMAIN events : k \in DOMAIN events' /\ events'[k] = events[k]
  BY <1>2, Emission DEF Serves
<1>5. /\ Tail(cmds) \in Seq(Requests \cup Connects) /\ Head(cmds) = cmds[1] /\ 1 \in DOMAIN cmds
      /\ \A k \in DOMAIN Tail(cmds) : k + 1 \in DOMAIN cmds /\ Tail(cmds)[k] = cmds[k + 1]
  BY TailPlaces DEF Serves, IInv, Types, ChatType
<1>6. SaysFit(cmds)'
  BY <1>1, <1>2, <1>5 DEF Fit, SaysFit, Fits, Serves
<1>7. SaysFit(wire)'
  <2> SUFFICES ASSUME NEW k \in DOMAIN wire', wire'[k].type = "Say"
               PROVE  /\ wire'[k].key \in DOMAIN typed
                      /\ room[wire'[k].channel_index] \in {NoChannel, typed[wire'[k].key]}
    BY <1>2 DEF SaysFit, Fits
  <2>1. w \in Requests /\ wire' = Append(wire, w)
    BY DEF Serves
  <2>2. (k \in DOMAIN wire /\ wire'[k] = wire[k]) \/ wire'[k] = w
    <3>1. /\ \A l \in DOMAIN wire : Append(wire, w)[l] = wire[l]
          /\ Append(wire, w)[Len(wire) + 1] = w
          /\ \A l \in DOMAIN Append(wire, w) : l \in DOMAIN wire \/ l = Len(wire) + 1
      BY <1>2, <2>1, AppendPlaces
    <3> QED
      BY <2>1, <3>1
  <2>3. CASE k \in DOMAIN wire /\ wire'[k] = wire[k]
    BY <1>1, <2>3 DEF Fit, SaysFit, Fits
  <2>4. CASE wire'[k] = w
    <3>1. cmds[1].type = "Say" /\ cmds[1].key = w.key /\ cmds[1].channel_index = w.channel_index
      BY <1>5, <2>4 DEF Serves
    <3> QED
      BY <1>1, <1>5, <2>4, <3>1 DEF Fit, SaysFit, Fits
  <2> QED
    BY <2>2, <2>3, <2>4
<1>8. TabsFit'
  <2>1. Has(events, "WebAuthentication") => Has(events', "WebAuthentication")
    BY <1>4 DEF Has
  <2> QED
    BY <1>1, <1>2, <2>1 DEF Fit, TabsFit, Fits, Has
<1>9. JoinsFit' /\ HeardFits'
  BY <1>1, <1>2, <1>3 DEF Fit, JoinsFit, HeardFits, Fits
<1> QED
  BY <1>6, <1>7, <1>8, <1>9 DEF Fit

\* What the application may use stays open: nothing refers to an index after its leave.
LEMMA ServesHeld ==
  ASSUME IInv, NEW w, NEW es, Serves(w, es)
  PROVE  live' /\ Sound' => Held'
<1> SUFFICES ASSUME Sound' PROVE Held'
  OBVIOUS
<1>1. Held
  BY DEF IInv, Serves, Sound
<1>2. tabs' = tabs /\ events \in Seq(Events) /\ tabs \in Seq(TabSet)
  BY DEF Serves, appVars, IInv, Types, ChatType, AppType
<1>3. \A k \in DOMAIN events' : events'[k].type \in StageNames \cup {"Joined"} =>
        k \in DOMAIN events /\ events'[k] = events[k]
  BY <1>2, ServedEvents
<1>4. \A k \in DOMAIN events : k \in DOMAIN events' /\ events'[k] = events[k]
  BY <1>2, Emission DEF Serves
<1>5. /\ cmds' = Tail(cmds) /\ Head(cmds) = cmds[1] /\ 1 \in DOMAIN cmds
      /\ \A k \in DOMAIN cmds' : k \in Nat \ {0} /\ k + 1 \in DOMAIN cmds /\ cmds'[k] = cmds[k + 1]
  BY TailPlaces DEF Serves, IInv, Types, ChatType
<1> DEFINE Left(i) == cmds[1].type = "Leave" /\ cmds[1].channel_index = i
<1>6. \A i \in Indices : Open(i) /\ ~Left(i) => Open(i)'
  BY <1>5 DEF Serves
<1>7. ASSUME NEW i, Left(i)
      PROVE  /\ \A l \in DOMAIN cmds : l > 1 => ~Refers(cmds[l], i)
             /\ \A p \in DOMAIN tabs : tabs[p].channel_index # i
             /\ \A l \in DOMAIN events : ~(events[l].type = "Joined" /\ events[l].channel_index = i)
  BY <1>1, <1>5, <1>7 DEF Held, LeftForGood
<1> HIDE DEF Left
<1>8. CmdsOpen'
  <2> SUFFICES ASSUME NEW k \in DOMAIN cmds', NEW i \in Indices, Refers(cmds'[k], i)
               PROVE  Open(i)'
    BY DEF CmdsOpen, Refers
  <2>1. k + 1 \in DOMAIN cmds /\ k + 1 > 1 /\ Refers(cmds[k + 1], i)
    BY <1>5
  <2>2. Open(i)
    BY <1>1, <2>1 DEF Held, CmdsOpen
  <2>3. ~Left(i)
    BY <1>7, <2>1
  <2> QED
    BY <1>6, <2>2, <2>3
<1>9. JoinsOpen'
  <2> SUFFICES ASSUME NEW k \in DOMAIN events', events'[k].type = "Joined"
               PROVE  /\ channels'[events'[k].channel_index].there
                      /\ channels'[events'[k].channel_index].mine
    BY DEF JoinsOpen, Open
  <2>1. k \in DOMAIN events /\ events'[k] = events[k]
    BY <1>3
  <2>2. events[k].channel_index \in Indices
    BY <1>2, <2>1 DEF Events
  <2>3. Open(events[k].channel_index)
    BY <1>1, <2>1 DEF Held, JoinsOpen
  <2>4. ~Left(events[k].channel_index)
    BY <1>7, <2>1
  <2> QED
    BY <1>6, <2>1, <2>2, <2>3, <2>4 DEF Open
<1>10. JoinsDiffer'
  BY <1>1, <1>3 DEF Held, JoinsDiffer
<1>11. TabsOpen'
  <2> SUFFICES ASSUME ~Has(events', "WebAuthentication"), NEW p \in DOMAIN tabs,
                      tabs[p].channel_index # 0
               PROVE  /\ channels'[tabs[p].channel_index].there /\ channels'[tabs[p].channel_index].mine
                      /\ \A q \in DOMAIN tabs : tabs[q].channel_index = tabs[p].channel_index => p = q
                      /\ \A k \in DOMAIN events' :
                           events'[k].type = "Joined" /\ events'[k].channel_index = tabs[p].channel_index =>
                             events'[k].channel = tabs[p].channel
    BY <1>2 DEF TabsOpen, Open, Has
  <2>1. ~Has(events, "WebAuthentication")
    BY <1>4 DEF Has
  <2>2. tabs[p].channel_index \in Indices
    BY <1>2, TabTypes
  <2>3. /\ Open(tabs[p].channel_index)
        /\ \A q \in DOMAIN tabs : tabs[q].channel_index = tabs[p].channel_index => p = q
        /\ \A k \in DOMAIN events :
             events[k].type = "Joined" /\ events[k].channel_index = tabs[p].channel_index =>
               events[k].channel = tabs[p].channel
    BY <1>1, <2>1 DEF Held, TabsOpen
  <2>4. ~Left(tabs[p].channel_index)
    BY <1>7
  <2>5. channels'[tabs[p].channel_index].there /\ channels'[tabs[p].channel_index].mine
    BY <1>6, <2>2, <2>3, <2>4 DEF Open
  <2> QED
    BY <1>3, <2>3, <2>5
<1>12. LeftForGood'
  <2> SUFFICES ASSUME NEW k \in DOMAIN cmds', cmds'[k].type = "Leave"
               PROVE  /\ \A l \in DOMAIN cmds' : l > k => ~Refers(cmds'[l], cmds'[k].channel_index)
                      /\ \A p \in DOMAIN tabs : tabs[p].channel_index # cmds'[k].channel_index
                      /\ \A l \in DOMAIN events' :
                           ~(events'[l].type = "Joined" /\ events'[l].channel_index = cmds'[k].channel_index)
    BY <1>2 DEF LeftForGood, Refers
  <2>1. k + 1 \in DOMAIN cmds /\ cmds'[k] = cmds[k + 1] /\ k \in Nat
    BY <1>5
  <2>2. /\ \A l \in DOMAIN cmds : l > k + 1 => ~Refers(cmds[l], cmds[k + 1].channel_index)
        /\ \A p \in DOMAIN tabs : tabs[p].channel_index # cmds[k + 1].channel_index
        /\ \A l \in DOMAIN events :
             ~(events[l].type = "Joined" /\ events[l].channel_index = cmds[k + 1].channel_index)
    BY <1>1, <2>1 DEF Held, LeftForGood
  <2>3. \A l \in DOMAIN cmds' : l > k => ~Refers(cmds'[l], cmds'[k].channel_index)
    BY <1>5, <2>1, <2>2
  <2> QED
    BY <1>3, <2>1, <2>2, <2>3
<1> QED
  BY <1>8, <1>9, <1>10, <1>11, <1>12 DEF Held

\* All together.
LEMMA ServesInv ==
  ASSUME IInv, NEW w, NEW es, Serves(w, es), Types', TokensFit'
  PROVE  IInv'
<1>1. Course'
  BY ServesCourse DEF IInv
<1>2. Kept' => Fit'
  BY ServesFit
<1>3. live' /\ Sound' => Held'
  BY ServesHeld
<1>4. CommandsSurvive'
  BY DEF Serves, CommandsSurvive
<1> QED
  BY <1>1, <1>2, <1>3, <1>4 DEF IInv

\* The types after a command.
LEMMA ServesTypes ==
  ASSUME Types, NEW w, NEW es, Serves(w, es), channels' \in [Indices -> Slots], last_token' \in Nat,
         pending_joins' \subseteq [token : 1 .. last_token', channel : Channels], owed' = owed
  PROVE  Types'
<1>1. AppType' /\ OneTab' /\ LineType'
  BY DEF Types, Serves, appVars, AppType, OneTab, LineType
<1>2. cmds' \in Seq(Requests \cup Connects)
  BY CmdsMembers DEF Types, ChatType, Serves
<1>3. events' \in Seq(Events)
  BY Emission DEF Types, ChatType, Serves
<1>4. wire' \in Seq(Requests)
  <2>1. wire \in Seq(Requests) /\ w \in Requests /\ wire' = Append(wire, w)
    BY DEF Types, ServiceType, Serves
  <2> QED
    BY <2>1, AppendPlaces
<1>5. ChatType' /\ ServiceType'
  BY <1>2, <1>3, <1>4 DEF Types, ChatType, ServiceType, Serves
<1> QED
  BY <1>1, <1>5 DEF Types

\* The requests on their way, and the new one.
LEMMA WireAppended ==
  ASSUME wire \in Seq(Requests), NEW w \in Requests, wire' = Append(wire, w)
  PROVE  \A k \in DOMAIN wire' : (k \in DOMAIN wire /\ wire'[k] = wire[k]) \/ wire'[k] = w
<1>1. /\ \A l \in DOMAIN wire : Append(wire, w)[l] = wire[l]
      /\ Append(wire, w)[Len(wire) + 1] = w
      /\ \A l \in DOMAIN Append(wire, w) : l \in DOMAIN wire \/ l = Len(wire) + 1
  BY AppendPlaces
<1> QED
  BY <1>1

\* An emission of nothing.
LEMMA NoEmission ==
  ASSUME events \in Seq(Events)
  PROVE  events = events \o <<>> /\ <<>> \in Seq(Events) /\ Plain(<<>>)
  BY ConcatEmptySeq, EmptySeq DEF Plain

\* An emission of one event.
LEMMA OneEmission ==
  ASSUME NEW e \in Events, e.type \notin StageNames \cup {"Joined"}
  PROVE  <<e>> \in Seq(Events) /\ Plain(<<e>>)
<1>1. <<e>> \in Seq(Events) /\ DOMAIN <<e>> = {1} /\ <<e>>[1] = e
  OBVIOUS
<1> QED
  BY <1>1 DEF Plain

\* What run_live leaves alone.
LEMMA RunLiveKeeps ==
  ASSUME IInv, run_live
  PROVE  /\ live /\ cmds # <<>> /\ cmds' = Tail(cmds) /\ Head(cmds) \in Requests
         /\ UNCHANGED <<appVars, typed, heard, dropped>>
         /\ events \in Seq(Events) /\ wire \in Seq(Requests) /\ Types
<1>1. /\ live /\ cmds # <<>> /\ cmds' = Tail(cmds) /\ UNCHANGED <<appVars, typed, heard, dropped>>
  BY DEF run_live
<1>2. events \in Seq(Events) /\ wire \in Seq(Requests) /\ Types /\ cmds \in Seq(Requests \cup Connects)
  BY DEF IInv, Types, ChatType, ServiceType
<1>3. Head(cmds) = cmds[1] /\ 1 \in DOMAIN cmds
  BY <1>1, <1>2, TailPlaces
<1>4. cmds[1].type # "Connect"
  BY <1>1, <1>3 DEF IInv, Course, Called
<1> QED
  BY <1>1, <1>2, <1>3, <1>4, Commands

\* The worker asks for a channel, with a token that no request before has.
LEMMA RunJoin ==
  ASSUME IInv, run_live, Head(cmds).type = "Join", ChatJoin(Head(cmds).channel)
  PROVE  IInv'
<1>1. /\ live /\ cmds # <<>> /\ cmds' = Tail(cmds) /\ Head(cmds) \in Requests
      /\ UNCHANGED <<appVars, typed, heard, dropped>>
      /\ events \in Seq(Events) /\ wire \in Seq(Requests) /\ Types
  BY RunLiveKeeps
<1> DEFINE c == Head(cmds).channel
           t == last_token + 1
           w == Request("Join", c, 0, t)
<1>2. c \in Channels /\ last_token \in Nat /\ t \in Nat
  BY <1>1, RequestShapes DEF Types, ChatType
<1>3. w \in Requests /\ w.type = "Join" /\ w.key = t /\ w.channel = c
  BY <1>2, RequestShapes
<1>4. /\ last_token' = t /\ wire' = Append(wire, w)
      /\ \E cut \in 0 .. last_token : pending_joins' = expire_pending_joins(cut) \cup {[token |-> t, channel |-> c]}
      /\ UNCHANGED <<events, live, joining, channels, room, owed, slips>>
  BY DEF ChatJoin
<1>5. \A j \in pending_joins' : j \in pending_joins \/ j = [token |-> t, channel |-> c]
  BY <1>4 DEF expire_pending_joins
<1> HIDE DEF w
<1>6. events' = events \o <<>> /\ <<>> \in Seq(Events) /\ Plain(<<>>)
  BY <1>1, <1>4, NoEmission
<1>7. Serves(w, <<>>)
  BY <1>1, <1>3, <1>4, <1>6 DEF Serves, Open
<1>8. pending_joins' \subseteq [token : 1 .. t, channel : Channels]
  <2> SUFFICES ASSUME NEW j \in pending_joins' PROVE j \in [token : 1 .. t, channel : Channels]
    OBVIOUS
  <2>1. CASE j \in pending_joins
    <3>1. j \in [token : 1 .. last_token, channel : Channels]
      BY <1>1, <2>1 DEF Types, ChatType
    <3> QED
      BY <1>2, <3>1
  <2>2. CASE j = [token |-> t, channel |-> c]
    BY <1>2, <2>2
  <2> QED
    BY <1>5, <2>1, <2>2
<1>9. Types'
  <2>1. channels' \in [Indices -> Slots] /\ owed' = owed
    BY <1>1, <1>4 DEF Types, ChatType
  <2> QED
    BY <1>1, <1>2, <1>4, <1>7, <1>8, <2>1, ServesTypes
<1>10. TokensFit'
  <2> SUFFICES ASSUME NEW k \in DOMAIN wire', wire'[k].type = "Join"
               PROVE  /\ wire'[k].key \in 1 .. t
                      /\ \A j \in pending_joins' : j.token = wire'[k].key => j.channel = wire'[k].channel
    BY <1>4 DEF TokensFit
  <2>1. (k \in DOMAIN wire /\ wire'[k] = wire[k]) \/ wire'[k] = w
    BY <1>1, <1>3, <1>4, WireAppended
  <2>2. \A j \in pending_joins : j.token \in 1 .. last_token
    BY <1>1 DEF Types, ChatType
  <2>3. CASE k \in DOMAIN wire /\ wire'[k] = wire[k]
    <3>1. /\ wire[k].key \in 1 .. last_token
          /\ \A j \in pending_joins : j.token = wire[k].key => j.channel = wire[k].channel
      BY <2>3 DEF IInv, TokensFit
    <3> QED
      BY <1>2, <1>5, <2>3, <3>1
  <2>4. CASE wire'[k] = w
    BY <1>2, <1>3, <1>5, <2>2, <2>4
  <2> QED
    BY <2>1, <2>3, <2>4
<1> QED
  BY <1>7, <1>9, <1>10, ServesInv

\* A command that is sent on leaves the joins as they are.
LEMMA SentOn ==
  ASSUME IInv, NEW w, NEW es, Serves(w, es), w.type # "Join",
         UNCHANGED <<last_token, pending_joins, owed>>, channels' \in [Indices -> Slots]
  PROVE  IInv'
<1>1. Types'
  BY ServesTypes DEF IInv, Types, ChatType
<1>2. wire \in Seq(Requests) /\ w \in Requests /\ wire' = Append(wire, w)
  BY DEF Serves, IInv, Types, ServiceType
<1>3. TokensFit'
  <2> SUFFICES ASSUME NEW k \in DOMAIN wire', wire'[k].type = "Join"
               PROVE  /\ wire'[k].key \in 1 .. last_token
                      /\ \A j \in pending_joins : j.token = wire'[k].key => j.channel = wire'[k].channel
    BY DEF TokensFit
  <2>1. k \in DOMAIN wire /\ wire'[k] = wire[k]
    BY <1>2, WireAppended
  <2> QED
    BY <2>1 DEF IInv, TokensFit
<1> QED
  BY <1>1, <1>3, ServesInv

\* The worker leaves a channel; LiveChat knows its index while Sound holds.
LEMMA RunLeave ==
  ASSUME IInv, run_live, Head(cmds).type = "Leave", leave_channel(Head(cmds).channel_index)
  PROVE  IInv'
<1>1. /\ live /\ cmds # <<>> /\ cmds' = Tail(cmds) /\ Head(cmds) \in Requests
      /\ UNCHANGED <<appVars, typed, heard, dropped>>
      /\ events \in Seq(Events) /\ wire \in Seq(Requests) /\ Types
  BY RunLiveKeeps
<1> DEFINE i == Head(cmds).channel_index
           w == Request("Leave", NoChannel, i, 0)
<1>2. i \in Indices /\ channels \in [Indices -> Slots]
  BY <1>1, RequestShapes DEF Types, ChatType
<1>3. w \in Requests /\ w.type = "Leave"
  BY <1>2, RequestShapes
<1> HIDE DEF w
<1>4. CASE channels[i].there
  <2>1. /\ wire' = Append(wire, w) /\ channels' = [channels EXCEPT ![i] = Absent]
        /\ UNCHANGED <<events, live, joining, pending_joins, last_token, room, owed, slips>>
    BY <1>4 DEF leave_channel, w
  <2>2. events' = events \o <<>> /\ <<>> \in Seq(Events) /\ Plain(<<>>)
    BY <1>1, <2>1, NoEmission
  <2>3. /\ channels' \in [Indices -> Slots]
        /\ \A j \in Indices : j # i => channels'[j] = channels[j]
    BY <1>2, <2>1, AbsentSlot
  <2>4. Serves(w, <<>>)
    BY <1>1, <1>3, <2>1, <2>2, <2>3 DEF Serves, Open
  <2> QED
    BY <1>3, <2>1, <2>3, <2>4, SentOn
<1>5. CASE ~channels[i].there
  <2>1. Ends /\ UNCHANGED slips
    BY <1>5 DEF leave_channel
  <2>2. Stops
    BY <1>1, <2>1 DEF Stops
  <2>3. ~Sound
    <3> SUFFICES ASSUME Sound PROVE FALSE
      OBVIOUS
    <3>1. CmdsOpen
      BY <1>1 DEF IInv, Held
    <3>2. cmds[1] = Head(cmds) /\ 1 \in DOMAIN cmds
      BY <1>1, TailPlaces DEF Types, ChatType
    <3>3. Refers(cmds[1], i)
      BY <3>2 DEF Refers
    <3>4. Open(i)
      BY <1>2, <3>1, <3>2, <3>3 DEF CmdsOpen
    <3> QED
      BY <1>5, <3>4 DEF Open
  <2>4. CommandsSurvive'
    BY <2>1, <2>3 DEF CommandsSurvive, Sound
  <2> QED
    BY <2>2, <2>4, StopsInv
<1> QED
  BY <1>4, <1>5

\* The worker sends a line; LiveChat knows its index, and its roster, while Sound holds.
LEMMA RunSay ==
  ASSUME IInv, run_live, Head(cmds).type = "Say", ChatSay(Head(cmds).channel_index, Head(cmds).key)
  PROVE  IInv'
<1>1. /\ live /\ cmds # <<>> /\ cmds' = Tail(cmds) /\ Head(cmds) \in Requests
      /\ UNCHANGED <<appVars, typed, heard, dropped>>
      /\ events \in Seq(Events) /\ wire \in Seq(Requests) /\ Types
  BY RunLiveKeeps
<1> DEFINE i == Head(cmds).channel_index
           n == Head(cmds).key
           w == Request("Say", NoChannel, i, n)
           e == Message(i, n)
<1>2. i \in Indices /\ n \in Nat /\ channels \in [Indices -> Slots]
  BY <1>1, RequestShapes DEF Types, ChatType
<1>3. w \in Requests /\ w.type = "Say" /\ w.key = n /\ w.channel_index = i
  BY <1>2, RequestShapes
<1>4. e \in Events /\ e.type = "Message"
  BY <1>2, EventShapes, EventFields
<1> HIDE DEF w, e
<1>5. <<e>> \in Seq(Events) /\ Plain(<<e>>)
  BY <1>4, OneEmission DEF StageNames
<1>6. CASE channels[i].there /\ channels[i].complete /\ channels[i].mine
  <2>1. /\ wire' = Append(wire, w) /\ events' = events \o <<e>>
        /\ UNCHANGED <<live, joining, channels, pending_joins, last_token, room, owed>>
        /\ slips \subseteq slips'
    BY <1>6 DEF ChatSay, Emit, w, e
  <2>2. Serves(w, <<e>>)
    BY <1>1, <1>3, <1>5, <2>1 DEF Serves, Open
  <2> QED
    BY <1>2, <1>3, <2>1, <2>2, SentOn
<1>7. CASE ~(channels[i].there /\ channels[i].complete /\ channels[i].mine)
  <2>1. Ends /\ slips' = slips \cup Slip("unready", channels[i].there /\ ~channels[i].complete)
    BY <1>7 DEF ChatSay
  <2>2. Stops
    BY <1>1, <2>1 DEF Stops
  <2>3. ~Sound' \/ "unready" \in slips'
    <3> SUFFICES ASSUME Sound' PROVE "unready" \in slips'
      OBVIOUS
    <3>1. CmdsOpen
      BY <1>1, <2>1 DEF IInv, Held, Sound
    <3>2. cmds[1] = Head(cmds) /\ 1 \in DOMAIN cmds
      BY <1>1, TailPlaces DEF Types, ChatType
    <3>3. Refers(cmds[1], i)
      BY <3>2 DEF Refers
    <3>4. Open(i)
      BY <1>2, <3>1, <3>2, <3>3 DEF CmdsOpen
    <3>5. channels[i].there /\ ~channels[i].complete
      BY <1>7, <3>4 DEF Open
    <3> QED
      BY <2>1, <3>5 DEF Slip
  <2>4. CommandsSurvive'
    BY <2>3 DEF CommandsSurvive, Sound
  <2> QED
    BY <2>2, <2>4, StopsInv
<1> QED
  BY <1>6, <1>7

\* A command of run_live, whichever it is.
LEMMA RunLive ==
  ASSUME IInv, run_live
  PROVE  IInv'
<1>1. \/ Head(cmds).type = "Join" /\ ChatJoin(Head(cmds).channel)
      \/ Head(cmds).type = "Leave" /\ leave_channel(Head(cmds).channel_index)
      \/ Head(cmds).type = "Say" /\ ChatSay(Head(cmds).channel_index, Head(cmds).key)
  BY DEF run_live
<1> QED
  BY <1>1, RunJoin, RunLeave, RunSay

-----------------------------------------------------------------------------
(* The worker between two connections.                                     *)

\* Between two connections a command of the chat is dropped.
LEMMA IdleIgnore ==
  ASSUME IInv, IdleIgnores
  PROVE  IInv'
<1>1. /\ ~live /\ joining = <<>> /\ cmds # <<>> /\ cmds' = Tail(cmds)
      /\ UNCHANGED <<appVars, events, chatVars, serviceVars, typed, heard, slips, dropped>>
  BY DEF IdleIgnores, Idle, history
<1>2. /\ UNCHANGED <<live, joining, channels, pending_joins, last_token, wire, room, owed>>
      /\ UNCHANGED <<tabs, warning, connecting, tab_close>>
  BY <1>1 DEF chatVars, serviceVars, appVars
<1>3. /\ cmds' \in Seq(Requests \cup Connects) /\ Len(cmds') = Len(cmds) - 1 /\ Len(cmds) \in Nat
      /\ \A k \in DOMAIN cmds' : k \in Nat \ {0} /\ k + 1 \in DOMAIN cmds /\ cmds'[k] = cmds[k + 1]
  BY <1>1, TailPlaces DEF IInv, Types, ChatType
<1>4. Types'
  <2>1. AppType' /\ OneTab'
    BY <1>1 DEF IInv, Types, AppType, OneTab, appVars
  <2> QED
    BY <1>1, <1>3, <2>1, AppTypes DEF IInv, Types, ChatType
<1>5. Course'
  <2>1. Offline' /\ Dialing'
    BY <1>1, <1>2 DEF IInv, Course, Offline, Dialing
  <2>2. Called'
    <3> SUFFICES ASSUME NEW k \in DOMAIN cmds', cmds'[k].type = "Connect"
                 PROVE  k = Len(cmds') /\ ~live /\ joining = <<>> /\ events = <<>> /\ Shut
      BY <1>1, <1>2 DEF Called, Shut
    <3>1. k + 1 = Len(cmds) /\ ~live /\ joining = <<>> /\ events = <<>> /\ Shut
      BY <1>3 DEF IInv, Course, Called
    <3> QED
      BY <1>3, <3>1
  <2>3. Stopped => Stopped'
    BY <1>2, <1>3 DEF Stopped, Calls
  <2>4. FailedLast' /\ FailureShown'
    BY <1>1, <1>2, <2>3 DEF IInv, Course, FailedLast, FailureShown
  <2>5. ConnectedOnce' /\ StageFirst'
    BY <1>1 DEF IInv, Course, ConnectedOnce, StageFirst
  <2> QED
    BY <2>1, <2>2, <2>4, <2>5 DEF Course
<1>6. TokensFit' /\ ~live' /\ CommandsSurvive'
  BY <1>1, <1>2 DEF IInv, TokensFit, CommandsSurvive
<1>7. ASSUME Kept' PROVE Fit'
  <2>1. Fit
    BY <1>1, <1>7 DEF IInv, Kept
  <2>2. SaysFit(cmds)' /\ SaysFit(wire)' /\ HeardFits' /\ JoinsFit' /\ TabsFit'
    BY <1>1, <1>2, <1>3, <2>1 DEF Fit, SaysFit, HeardFits, JoinsFit, TabsFit, Fits, Has
  <2> QED
    BY <2>2 DEF Fit
<1> QED
  BY <1>4, <1>5, <1>6, <1>7 DEF IInv

\* The channels of a call are channels.
LEMMA NormalizedChannels ==
  ASSUME NEW cs \in Seq(Channels)
  PROVE  normalized_channels(cs) \in Seq(Channels)
<1>1. CASE cs = <<>>
  BY <1>1, ChannelsAssumption DEF normalized_channels
<1>2. CASE cs # <<>>
  <2> DEFINE S == {Len(cs), MaxJoined}
             m == Min(S)
  <2>1. S \in SUBSET Nat /\ S # {}
    BY ChannelsAssumption
  <2> HIDE DEF S
  <2>2. m \in S /\ \A y \in S : m <= y
    BY <2>1, MinIsMember
  <2> HIDE DEF m
  <2>3. m \in Nat /\ m <= Len(cs) /\ Len(cs) \in Nat
    BY <2>1, <2>2 DEF S
  <2>4. \A k \in 1 .. m : cs[k] \in Channels
    BY <2>3
  <2>5. 1 \in Int /\ m \in Int
    BY <2>3
  <2>6. SubSeq(cs, 1, m) \in Seq(Channels)
    BY <2>4, <2>5, SubSeqProperties
  <2>7. normalized_channels(cs) = SubSeq(cs, 1, m)
    BY <1>2 DEF normalized_channels, m, S
  <2> QED
    BY <2>6, <2>7
<1> QED
  BY <1>1, <1>2

\* A connection begins: nothing else is under way, and the tabs are to go.
LEMMA BeginConnection ==
  ASSUME IInv, Begin
  PROVE  IInv'
<1> DEFINE es == <<Stage("WebAuthentication")>>
<1>1. /\ ~live /\ joining = <<>> /\ cmds # <<>> /\ cmds' = Tail(cmds) /\ Head(cmds).type = "Connect"
      /\ joining' = normalized_channels(Head(cmds).channels) /\ events' = events \o es
      /\ UNCHANGED <<appVars, live, channels, pending_joins, last_token, wire, room, owed>>
      /\ UNCHANGED <<typed, heard, slips, dropped>>
  BY DEF Begin, Idle, Emit, history, serviceVars
<1>2. /\ Head(cmds) = cmds[1] /\ 1 \in DOMAIN cmds /\ cmds \in Seq(Requests \cup Connects)
      /\ Tail(cmds) \in Seq(Requests \cup Connects) /\ Len(Tail(cmds)) = Len(cmds) - 1
  BY <1>1, TailPlaces DEF IInv, Types, ChatType
<1>3. 1 = Len(cmds) /\ events = <<>> /\ Shut
  BY <1>1, <1>2 DEF IInv, Course, Called
<1>4. cmds' = <<>>
  BY <1>1, <1>2, <1>3, EmptySeq
<1>5. es \in Seq(Events) /\ DOMAIN es = {1} /\ es[1].type = "WebAuthentication"
  <2>1. Stage("WebAuthentication") \in Events /\ Stage("WebAuthentication").type = "WebAuthentication"
    BY EventShapes, EventFields DEF StageNames
  <2> QED
    BY <2>1
<1>6. events' = es
  BY <1>1, <1>3, <1>5, ConcatEmptySeq
<1>7. Types'
  <2>1. AppType' /\ OneTab' /\ ServiceType' /\ LineType'
    BY <1>1 DEF IInv, Types, AppType, OneTab, appVars, ServiceType, LineType
  <2>2. joining' \in Seq(Channels)
    <3>1. Head(cmds).channels \in Seq(Channels)
      BY <1>1, <1>2, Commands, RequestShapes
    <3> QED
      BY <1>1, <3>1, NormalizedChannels
  <2>3. ChatType'
    <3>1. cmds' \in Seq(Requests \cup Connects) /\ events' \in Seq(Events)
      BY <1>1, <1>2, <1>5, <1>6
    <3> QED
      BY <1>1, <2>2, <3>1 DEF IInv, Types, ChatType
  <2> QED
    BY <2>1, <2>3 DEF Types
<1>8. UNCHANGED <<tabs, warning, connecting, tab_close>> /\ Shut'
  BY <1>1, <1>3 DEF appVars, Shut
<1>9. Course'
  <2>1. Offline' /\ Called'
    BY <1>1, <1>4 DEF IInv, Course, Offline, Called
  <2>2. Dialing'
    BY <1>1, <1>4, <1>6, <1>8 DEF Dialing, Stage, Event
  <2>3. FailedLast' /\ ConnectedOnce' /\ StageFirst'
    BY <1>4, <1>5, <1>6, <1>8 DEF FailedLast, ConnectedOnce, StageFirst
  <2>4. FailureShown'
    BY <1>1, <1>2, <1>8 DEF IInv, Course, FailureShown, Stopped, Calls
  <2> QED
    BY <2>1, <2>2, <2>3, <2>4 DEF Course
<1>10. TokensFit' /\ ~live' /\ CommandsSurvive'
  BY <1>1 DEF IInv, TokensFit, CommandsSurvive
<1>11. ASSUME Kept' PROVE Fit'
  <2>1. Fit
    BY <1>1, <1>11 DEF IInv, Kept
  <2>2. SaysFit(cmds)' /\ SaysFit(wire)' /\ HeardFits'
    BY <1>1, <1>4, <2>1 DEF Fit, SaysFit, HeardFits, Fits
  <2>3. JoinsFit' /\ TabsFit'
    BY <1>5, <1>6 DEF JoinsFit, TabsFit, Has
  <2> QED
    BY <2>2, <2>3 DEF Fit
<1> QED
  BY <1>7, <1>9, <1>10, <1>11 DEF IInv

\* Before a connection is up its first stage is all that was told, or nothing.
LEMMA DialingEvents ==
  ASSUME IInv, joining # <<>>
  PROVE  /\ ~live /\ cmds = <<>> /\ Shut /\ wire = <<>> /\ owed = {}
         /\ \A k \in DOMAIN events : k = 1 /\ events[k].type = "WebAuthentication"
         /\ \/ Has(events, "WebAuthentication")
            \/ \A p \in DOMAIN tabs : tabs[p].channel_index = 0
         /\ warning.kind # "disconnected" /\ connecting # "failed"
<1>1. /\ ~live /\ cmds = <<>> /\ Shut
      /\ events = <<Stage("WebAuthentication")>>
           \/ (events = <<>> /\ \A p \in DOMAIN tabs : tabs[p].channel_index = 0)
  BY DEF IInv, Course, Dialing
<1>2. wire = <<>> /\ owed = {}
  BY <1>1 DEF IInv, Course, Offline
<1>3. warning.kind # "disconnected" /\ connecting # "failed"
  BY DEF IInv, Course, FailureShown, Stopped
<1>4. CASE events = <<Stage("WebAuthentication")>>
  <2> DEFINE e == Stage("WebAuthentication")
  <2>1. e.type = "WebAuthentication"
    BY EventFields
  <2> HIDE DEF e
  <2>2. events = <<e>>
    BY <1>4 DEF e
  <2> QED
    BY <1>1, <1>2, <1>3, <2>1, <2>2 DEF Has
<1>5. CASE events = <<>> /\ \A p \in DOMAIN tabs : tabs[p].channel_index = 0
  BY <1>1, <1>2, <1>3, <1>5
<1> QED
  BY <1>1, <1>4, <1>5

\* A connection fails to come up.
LEMMA EstablishFail ==
  ASSUME IInv, EstablishFails
  PROVE  IInv'
<1> DEFINE e == Stage("Error")
           es == <<e>>
<1>1. /\ joining # <<>> /\ joining' = <<>> /\ events' = events \o es
      /\ UNCHANGED <<appVars, cmds, live, channels, pending_joins, last_token, wire, room, owed>>
      /\ UNCHANGED <<typed, heard, slips, dropped>>
  BY DEF EstablishFails, Emit, history, serviceVars
<1>2. /\ ~live /\ cmds = <<>> /\ Shut
      /\ \A k \in DOMAIN events : k = 1 /\ events[k].type = "WebAuthentication"
      /\ \/ Has(events, "WebAuthentication")
         \/ \A p \in DOMAIN tabs : tabs[p].channel_index = 0
      /\ warning.kind # "disconnected" /\ connecting # "failed"
  BY <1>1, DialingEvents
<1>3. es \in Seq(Events) /\ DOMAIN es = {1} /\ es[1].type = "Error" /\ Len(es) = 1
  <2>1. e \in Events /\ e.type = "Error"
    BY EventShapes, EventFields DEF StageNames
  <2> HIDE DEF e
  <2> QED
    BY <2>1
<1> HIDE DEF e, es
<1>4. /\ events' \in Seq(Events)
      /\ \A k \in DOMAIN events : k \in DOMAIN events' /\ events'[k] = events[k]
      /\ \A k \in DOMAIN events' :
           \/ k \in DOMAIN events /\ events'[k] = events[k]
           \/ k - Len(events) \in DOMAIN es /\ events'[k] = es[k - Len(events)]
      /\ Len(events') = Len(events) + Len(es) /\ Len(events) \in Nat
  BY <1>1, <1>3, Emission DEF IInv, Types, ChatType
<1>5. \A k \in DOMAIN events' :
        \/ k \in DOMAIN events /\ events'[k] = events[k] /\ k = 1 /\ events'[k].type = "WebAuthentication"
        \/ k = Len(events') /\ events'[k].type = "Error"
  BY <1>2, <1>3, <1>4
<1>6. Types'
  <2>1. AppType' /\ OneTab' /\ ServiceType' /\ LineType'
    BY <1>1 DEF IInv, Types, AppType, OneTab, appVars, ServiceType, LineType
  <2>2. ChatType'
    BY <1>1, <1>4 DEF IInv, Types, ChatType
  <2> QED
    BY <2>1, <2>2 DEF Types
<1>7. UNCHANGED <<tabs, warning, connecting, tab_close>> /\ Shut'
  BY <1>1, <1>2 DEF appVars, Shut
<1>8. Course'
  <2>1. Offline' /\ Called' /\ Dialing' /\ Stopped'
    BY <1>1, <1>2 DEF IInv, Course, Offline, Called, Dialing, Stopped, Calls
  <2>2. FailedLast' /\ ConnectedOnce' /\ StageFirst'
    BY <1>1, <1>2, <1>5, <1>7, <2>1 DEF FailedLast, ConnectedOnce, StageFirst
  <2>3. FailureShown'
    BY <1>2, <1>7 DEF FailureShown
  <2> QED
    BY <2>1, <2>2, <2>3 DEF Course
<1>9. TokensFit' /\ ~live' /\ CommandsSurvive'
  BY <1>1, <1>2 DEF IInv, TokensFit, CommandsSurvive
<1>10. ASSUME Kept' PROVE Fit'
  <2>1. Fit
    BY <1>1, <1>10 DEF IInv, Kept
  <2>2. SaysFit(cmds)' /\ SaysFit(wire)' /\ HeardFits'
    BY <1>1, <2>1 DEF Fit, SaysFit, HeardFits, Fits
  <2>3. JoinsFit'
    BY <1>5 DEF JoinsFit
  <2>4. TabsFit'
    <3>1. Has(events, "WebAuthentication") => Has(events', "WebAuthentication")
      BY <1>4 DEF Has
    <3> QED
      BY <1>1, <1>7, <2>1, <3>1 DEF Fit, TabsFit, Fits, Has
  <2> QED
    BY <2>2, <2>3, <2>4 DEF Fit
<1> QED
  BY <1>6, <1>8, <1>9, <1>10 DEF IInv

\* The slot of a channel that is joined at the start.
Entered(c) == [there |-> TRUE, channel |-> c, mine |-> TRUE, roster |-> Members(c), complete |-> TRUE]

\* The slot of the channel that a connection starts in.
LEMMA EnteredSlot ==
  ASSUME NEW c \in Channels
  PROVE  Entered(c) \in Slots /\ Entered(c).there /\ Entered(c).mine
<1>1. Members(c) \in SUBSET People
  BY DEF Members, People
<1> QED
  BY <1>1 DEF Entered, Slots

\* What is told of a connection that is up: one join, and the last stage at the end.
Told(refused, head, i, first) ==
  (IF refused THEN <<JoinRejected(head)>> ELSE <<>>)
    \o <<Joined(i, first), Roster(i, Entered(first)), Stage("Connected")>>

\* What the application is told of a connection that is up: one join, no failure, nothing twice.
LEMMA ToldEvents ==
  ASSUME NEW refused \in BOOLEAN, NEW head \in Channels, NEW i \in Indices, NEW first \in Channels
  PROVE  LET es == Told(refused, head, i, first)
         IN /\ es \in Seq(Events)
            /\ \A k \in DOMAIN es :
                 /\ es[k].type \notin {"Error", "WebAuthentication"}
                 /\ es[k].type = "Joined" => es[k].channel_index = i /\ es[k].channel = first
            /\ \A k, l \in DOMAIN es : es[k].type = es[l].type => k = l
<1> DEFINE a == JoinRejected(head)
           b == Joined(i, first)
           c == Roster(i, Entered(first))
           d == Stage("Connected")
<1>1. a \in Events /\ b \in Events /\ c \in Events /\ d \in Events
  <2>1. Entered(first) \in Slots
    BY EnteredSlot
  <2> QED
    BY <2>1, EventShapes DEF StageNames
<1>2. /\ a.type = "JoinRejected" /\ b.type = "Joined" /\ c.type = "Roster" /\ d.type = "Connected"
      /\ b.channel_index = i /\ b.channel = first
  BY EventFields
<1>3. Told(refused, head, i, first) = (IF refused THEN <<a>> ELSE <<>>) \o <<b, c, d>>
  BY DEF Told
<1> HIDE DEF a, b, c, d
<1>4. CASE refused
  <2> DEFINE s == <<a>>
             t == <<b, c, d>>
             es == s \o t
  <2>1. Told(refused, head, i, first) = es
    BY <1>3, <1>4
  <2>2. es \in Seq(Events) /\ DOMAIN es = 1 .. 4 /\ es[1] = a /\ es[2] = b /\ es[3] = c /\ es[4] = d
    <3>1. /\ s \in Seq(Events) /\ Len(s) = 1 /\ s[1] = a
          /\ t \in Seq(Events) /\ Len(t) = 3 /\ t[1] = b /\ t[2] = c /\ t[3] = d
      BY <1>1
    <3> HIDE DEF s, t
    <3>5. s \in Seq(Events) /\ t \in Seq(Events)
      BY <3>1
    <3>2. /\ s \o t \in Seq(Events) /\ DOMAIN (s \o t) = 1 .. Len(s) + Len(t)
          /\ \A k \in 1 .. Len(s) : (s \o t)[k] = s[k]
          /\ \A k \in 1 .. Len(t) : (s \o t)[Len(s) + k] = t[k]
      <4> QED
        BY ONLY <3>5, ConcatPlaces
    <3> DEFINE all == s \o t
    <3> HIDE DEF all
    <3>3. /\ all \in Seq(Events) /\ DOMAIN all = 1 .. 4 /\ all[1] = a
          /\ \A k \in 1 .. 3 : all[1 + k] = t[k]
      BY <3>1, <3>2 DEF all
    <3>4. all[2] = b /\ all[3] = c /\ all[4] = d
      BY <3>1, <3>3
    <3> QED
      BY <3>3, <3>4 DEF all
  <2> HIDE DEF es
  <2>3. \A k \in DOMAIN es : k = 1 \/ k = 2 \/ k = 3 \/ k = 4
    BY <2>2
  <2> QED
    BY <1>2, <2>1, <2>2, <2>3
<1>5. CASE ~refused
  <2> DEFINE es == <<b, c, d>>
  <2>2. es \in Seq(Events) /\ DOMAIN es = 1 .. 3 /\ es[1] = b /\ es[2] = c /\ es[3] = d
    BY <1>1
  <2> HIDE DEF es
  <2>1. Told(refused, head, i, first) = es
    BY <1>3, <1>5, <2>2, ConcatEmptySeq DEF es
  <2>3. \A k \in DOMAIN es : k = 1 \/ k = 2 \/ k = 3
    BY <2>2
  <2> QED
    BY <1>2, <2>1, <2>2, <2>3
<1> QED
  BY <1>4, <1>5

\* The requests for the channels after the first, each with a token of its own.
JoinsFor(others, t) == {[token |-> t + k, channel |-> others[k]] : k \in DOMAIN others}
AskedFor(others, t) == [k \in DOMAIN others |-> Request("Join", others[k], 0, t + k)]

\* The requests that LiveChat waits for and those on their way fit one another.
FreshJoins(last, joins, asked) ==
  /\ joins \subseteq [token : 1 .. last, channel : Channels]
  /\ asked \in Seq(Requests) /\ last \in Nat
  /\ \A k \in DOMAIN asked :
       /\ asked[k].type = "Join" /\ asked[k].key \in 1 .. last
       /\ \A j \in joins : j.token = asked[k].key => j.channel = asked[k].channel

\* The tokens of the requests for the other channels are new, and each has its own.
LEMMA OtherJoins ==
  ASSUME NEW others \in Seq(Channels), NEW t \in Nat
  PROVE  FreshJoins(t + Len(others), JoinsFor(others, t), AskedFor(others, t))
<1> DEFINE joins == JoinsFor(others, t)
           asked == AskedFor(others, t)
<1>1. Len(others) \in Nat /\ DOMAIN others = 1 .. Len(others) /\ \A k \in DOMAIN others : others[k] \in Channels
  OBVIOUS
<1>2. \A k \in DOMAIN others : t + k \in Nat /\ t + k \in 1 .. t + Len(others)
  BY <1>1
<1>3. \A k \in DOMAIN others :
        /\ Request("Join", others[k], 0, t + k) \in Requests
        /\ Request("Join", others[k], 0, t + k).type = "Join"
        /\ Request("Join", others[k], 0, t + k).key = t + k
        /\ Request("Join", others[k], 0, t + k).channel = others[k]
  BY <1>1, <1>2, RequestShapes
<1>4. DOMAIN asked = 1 .. Len(others) /\ \A k \in 1 .. Len(others) : asked[k] = Request("Join", others[k], 0, t + k)
  BY <1>1 DEF AskedFor
<1>5. asked \in Seq(Requests)
  <2>1. \A k \in 1 .. Len(others) : Request("Join", others[k], 0, t + k) \in Requests
    BY <1>1, <1>3
  <2>2. asked = [k \in 1 .. Len(others) |-> Request("Join", others[k], 0, t + k)]
    BY <1>1 DEF AskedFor
  <2> QED
    BY <1>1, <2>1, <2>2
<1>6. joins \subseteq [token : 1 .. t + Len(others), channel : Channels]
  BY <1>1, <1>2 DEF JoinsFor
<1>7. ASSUME NEW k \in DOMAIN asked
      PROVE  /\ asked[k].type = "Join" /\ asked[k].key \in 1 .. t + Len(others)
             /\ \A j \in joins : j.token = asked[k].key => j.channel = asked[k].channel
  <2>1. k \in DOMAIN others /\ asked[k].type = "Join" /\ asked[k].key = t + k /\ asked[k].channel = others[k]
    BY <1>1, <1>3, <1>4
  <2>2. ASSUME NEW j \in joins, j.token = t + k
        PROVE  j.channel = others[k]
    <3>1. PICK l \in DOMAIN others : j = [token |-> t + l, channel |-> others[l]]
      BY DEF JoinsFor
    <3>2. t + l = t + k
      BY <2>2, <3>1
    <3>3. l = k
      BY <1>1, <2>1, <3>2
    <3> QED
      BY <3>1, <3>3
  <2> QED
    BY <1>2, <2>1, <2>2
<1> HIDE DEF joins, asked
<1>8. FreshJoins(t + Len(others), joins, asked)
  BY <1>1, <1>5, <1>6, <1>7 DEF FreshJoins
<1> QED
  BY <1>8 DEF joins, asked

\* What is joined in the place of a channel is a channel.
LEMMA ListedChannels == \A c \in Channels : Listed(c) \subseteq Channels
  BY ChannelsAssumption DEF Listed

\* A connection comes up: one index is given out, and nothing uses any other.
LEMMA EstablishConnection ==
  ASSUME IInv, Establish
  PROVE  IInv'
<1> DEFINE others == Tail(joining)
<1>1. PICK head \in Listed(Head(joining)), i \in Indices, refused \in BOOLEAN :
        LET first == IF refused THEN General ELSE head
        IN /\ live' = TRUE /\ dropped' = FALSE
           /\ channels' = [channels EXCEPT ![i] = Entered(first)]
           /\ room' = [room EXCEPT ![i] = first]
           /\ pending_joins' = {[token |-> last_token + k, channel |-> others[k]] : k \in DOMAIN others}
           /\ wire' = [k \in DOMAIN others |-> Request("Join", others[k], 0, last_token + k)]
           /\ last_token' = last_token + Len(others)
           /\ events' = events \o Told(refused, head, i, first)
  BY DEF Establish, Emit, Told, Entered
<1>2. /\ joining # <<>> /\ joining' = <<>> /\ slips \subseteq slips'
      /\ UNCHANGED <<appVars, cmds, owed, typed, heard>>
  BY DEF Establish
<1>3. head \in Channels /\ others \in Seq(Channels)
  <2>1. joining \in Seq(Channels)
    BY DEF IInv, Types, ChatType
  <2>2. Head(joining) \in Channels /\ others \in Seq(Channels)
    BY <1>2, <2>1, TailPlaces
  <2> QED
    BY <2>2, ListedChannels
<1>4. refused \in BOOLEAN
  OBVIOUS
<1> DEFINE first == IF refused THEN General ELSE head
           es == Told(refused, head, i, first)
<1>5. first \in Channels
  BY <1>3, ChannelsAssumption
<1>6. /\ live' = TRUE
      /\ channels' = [channels EXCEPT ![i] = Entered(first)]
      /\ room' = [room EXCEPT ![i] = first]
      /\ pending_joins' = {[token |-> last_token + k, channel |-> others[k]] : k \in DOMAIN others}
      /\ wire' = [k \in DOMAIN others |-> Request("Join", others[k], 0, last_token + k)]
      /\ last_token' = last_token + Len(others)
      /\ events' = events \o es
  BY <1>1
<1> HIDE DEF first, others, es
<1>7. /\ es \in Seq(Events)
      /\ \A k \in DOMAIN es :
           /\ es[k].type \notin {"Error", "WebAuthentication"}
           /\ es[k].type = "Joined" => es[k].channel_index = i /\ es[k].channel = first
      /\ \A k, l \in DOMAIN es : es[k].type = es[l].type => k = l
  BY <1>3, <1>4, <1>5, ToldEvents DEF es
<1>8. /\ ~live /\ cmds = <<>> /\ Shut /\ wire = <<>> /\ owed = {}
      /\ \A k \in DOMAIN events : k = 1 /\ events[k].type = "WebAuthentication"
      /\ \/ Has(events, "WebAuthentication")
         \/ \A p \in DOMAIN tabs : tabs[p].channel_index = 0
      /\ warning.kind # "disconnected" /\ connecting # "failed"
  BY <1>2, DialingEvents
<1>9. /\ events' \in Seq(Events) /\ Len(events) \in Nat
      /\ \A k \in DOMAIN events : k \in DOMAIN events' /\ events'[k] = events[k]
      /\ \A k \in DOMAIN events' :
           \/ k \in DOMAIN events /\ events'[k] = events[k]
           \/ k - Len(events) \in DOMAIN es /\ events'[k] = es[k - Len(events)]
  BY <1>6, <1>7, Emission DEF IInv, Types, ChatType
<1>10. \A k \in DOMAIN events' :
         \/ k = 1 /\ events'[k].type = "WebAuthentication"
         \/ /\ k - Len(events) \in DOMAIN es /\ events'[k] = es[k - Len(events)]
            /\ events'[k].type \notin {"Error", "WebAuthentication"}
            /\ events'[k].type = "Joined" => events'[k].channel_index = i /\ events'[k].channel = first
  BY <1>7, <1>8, <1>9
<1>11. ASSUME NEW k \in DOMAIN events', NEW l \in DOMAIN events', events'[k].type = events'[l].type,
              events'[k].type # "WebAuthentication"
       PROVE  k = l
  <2>1. /\ k - Len(events) \in DOMAIN es /\ events'[k] = es[k - Len(events)]
        /\ l - Len(events) \in DOMAIN es /\ events'[l] = es[l - Len(events)]
    BY <1>10, <1>11
  <2>2. k - Len(events) = l - Len(events)
    BY <1>7, <1>11, <2>1
  <2>3. k \in Nat /\ l \in Nat
    BY <1>9
  <2> QED
    BY <1>9, <2>2, <2>3
<1>12. /\ pending_joins' \subseteq [token : 1 .. last_token', channel : Channels]
       /\ wire' \in Seq(Requests) /\ last_token' \in Nat
       /\ \A k \in DOMAIN wire' :
            /\ wire'[k].type = "Join" /\ wire'[k].key \in 1 .. last_token'
            /\ \A j \in pending_joins' : j.token = wire'[k].key => j.channel = wire'[k].channel
  <2>1. last_token \in Nat
    BY DEF IInv, Types, ChatType
  <2>2. pending_joins' = JoinsFor(others, last_token) /\ wire' = AskedFor(others, last_token)
    BY <1>6 DEF JoinsFor, AskedFor
  <2>3. last_token' = last_token + Len(others)
    BY <1>6
  <2>4. FreshJoins(last_token + Len(others), JoinsFor(others, last_token), AskedFor(others, last_token))
    <3> HIDE DEF others
    <3> QED
      BY <1>3, <2>1, OtherJoins
  <2>5. FreshJoins(last_token', pending_joins', wire')
    BY <2>2, <2>3, <2>4
  <2> QED
    BY <2>5 DEF FreshJoins
<1>13. channels' \in [Indices -> Slots] /\ channels'[i].there /\ channels'[i].mine
  <2> DEFINE slot == Entered(first)
  <2>1. slot \in Slots /\ slot.there /\ slot.mine
    BY <1>5, EnteredSlot
  <2>2. channels \in [Indices -> Slots] /\ channels' = [channels EXCEPT ![i] = slot]
    BY <1>6 DEF IInv, Types, ChatType
  <2> HIDE DEF slot
  <2> QED
    BY <2>1, <2>2
<1>14. room' \in [Indices -> Channels \cup {NoChannel}] /\ room'[i] = first
  BY <1>5, <1>6 DEF IInv, Types, ServiceType
<1>15. Types'
  <2>1. AppType' /\ OneTab' /\ LineType'
    BY <1>2 DEF IInv, Types, AppType, OneTab, appVars, LineType
  <2>2. ChatType'
    <3>1. cmds' \in Seq(Requests \cup Connects) /\ joining' \in Seq(Channels) /\ live' \in BOOLEAN
      BY <1>2, <1>6, <1>8
    <3> QED
      BY <1>9, <1>12, <1>13, <3>1 DEF ChatType
  <2>3. ServiceType'
    BY <1>2, <1>12, <1>14 DEF IInv, Types, ServiceType
  <2> QED
    BY <2>1, <2>2, <2>3 DEF Types
<1>16. UNCHANGED <<tabs, warning, connecting, tab_close>> /\ Shut' /\ cmds' = <<>> /\ live'
  BY <1>2, <1>6, <1>8 DEF appVars, Shut
<1>17. Course'
  <2>1. Offline' /\ Dialing' /\ Called'
    BY <1>2, <1>16 DEF Offline, Dialing, Called
  <2>2. FailedLast' /\ StageFirst'
    BY <1>10, <1>16 DEF FailedLast, StageFirst
  <2>3. FailureShown'
    BY <1>8, <1>16 DEF FailureShown
  <2>4. ConnectedOnce'
    BY <1>11, <1>16 DEF ConnectedOnce
  <2> QED
    BY <2>1, <2>2, <2>3, <2>4 DEF Course
<1>18. TokensFit' /\ CommandsSurvive'
  BY <1>12, <1>16 DEF TokensFit, CommandsSurvive
<1>19. Has(events, "WebAuthentication") => Has(events', "WebAuthentication")
  BY <1>9 DEF Has
<1>20. ~Has(events', "WebAuthentication") => \A p \in DOMAIN tabs' : tabs'[p].channel_index = 0
  BY <1>8, <1>16, <1>19
<1>21. ASSUME Kept' PROVE Fit'
  <2>1. Fit
    BY <1>2, <1>21 DEF IInv, Kept
  <2>2. SaysFit(cmds)' /\ SaysFit(wire)' /\ HeardFits'
    BY <1>2, <1>12, <1>16, <2>1 DEF Fit, SaysFit, HeardFits
  <2>3. JoinsFit'
    BY <1>10, <1>14 DEF JoinsFit, Fits
  <2>4. TabsFit'
    BY <1>20 DEF TabsFit, Has
  <2> QED
    BY <2>2, <2>3, <2>4 DEF Fit
<1>22. Held'
  <2>1. CmdsOpen' /\ LeftForGood'
    BY <1>16 DEF CmdsOpen, LeftForGood
  <2>2. JoinsOpen'
    BY <1>10, <1>13 DEF JoinsOpen, Open
  <2>3. JoinsDiffer'
    BY <1>11 DEF JoinsDiffer
  <2>4. TabsOpen'
    BY <1>20 DEF TabsOpen, Has
  <2> QED
    BY <2>1, <2>2, <2>3, <2>4 DEF Held
<1> QED
  BY <1>15, <1>17, <1>18, <1>21, <1>22 DEF IInv

-----------------------------------------------------------------------------
(* The worker takes a record of the service.                               *)

\* The types after LiveChat has passed something on.
LEMMA PassesTypes ==
  ASSUME Types, NEW es, Passes(es), channels' \in [Indices -> Slots],
         room' \in [Indices -> Channels \cup {NoChannel}], owed' \subseteq Indices, LineType'
  PROVE  Types'
<1>1. AppType' /\ OneTab'
  BY DEF Types, Passes, appVars, AppType, OneTab
<1>2. events' \in Seq(Events)
  BY PassedEvents DEF Types, ChatType
<1>3. wire' \in Seq(Requests)
  <2>1. wire \in Seq(Requests) /\ (wire' = wire \/ (wire # <<>> /\ wire' = Tail(wire)))
    BY DEF Types, ServiceType, Passes
  <2>2. wire # <<>> => Tail(wire) \in Seq(Requests)
    BY <2>1, TailPlaces
  <2> QED
    BY <2>1, <2>2
<1>4. ChatType'
  BY <1>2 DEF Types, ChatType, Passes
<1> QED
  BY <1>1, <1>3, <1>4 DEF Types, ServiceType

\* Two emissions in a row.
LEMMA PlainConcat ==
  ASSUME NEW x \in Seq(Events), NEW y \in Seq(Events), Plain(x), Plain(y)
  PROVE  x \o y \in Seq(Events) /\ Plain(x \o y)
<1>1. x \o y \in Seq(Events)
  BY ConcatPlaces
<1>2. \A k \in DOMAIN (x \o y) :
        \/ k \in DOMAIN x /\ (x \o y)[k] = x[k]
        \/ k - Len(x) \in DOMAIN y /\ (x \o y)[k] = y[k - Len(x)]
  BY ConcatMembers
<1> QED
  BY <1>1, <1>2 DEF Plain

\* A membership record changes one slot, never one's own identity in it.
LEMMA Membership ==
  ASSUME Types, NEW i \in Indices, NEW roster \in SUBSET People, NEW end \in BOOLEAN,
         NEW mine_left \in BOOLEAN, ReceiveMembership(i, roster, end, mine_left)
  PROVE  /\ channels' \in [Indices -> Slots]
         /\ \A j \in Indices : Open(j) => Open(j)'
         /\ UNCHANGED <<live, joining, pending_joins, last_token>>
         /\ \E es : es \in Seq(Events) /\ Plain(es) /\ events' = events \o es
<1> DEFINE entry == apply_membership(i, roster, end)
           removed == mine_left /\ channels[i].mine /\ channels[i].complete
           a == Removed(i)
           b == Roster(i, entry)
           es == (IF removed THEN <<a>> ELSE <<>>) \o <<b>>
<1>1. channels \in [Indices -> Slots] /\ channels[i] \in Slots
  BY DEF Types, ChatType
<1>2. entry \in Slots /\ entry.there /\ entry.mine = channels[i].mine
  BY <1>1 DEF apply_membership, Slots
<1>3. channels' = [channels EXCEPT ![i] = entry] /\ events' = events \o es
  BY DEF ReceiveMembership, Emit
<1>4. a \in Events /\ b \in Events /\ a.type = "Removed" /\ b.type = "Roster"
  BY <1>2, EventShapes, EventFields
<1> HIDE DEF entry, removed, a, b
<1>5. channels' \in [Indices -> Slots]
  BY <1>1, <1>2, <1>3
<1>6. \A j \in Indices : Open(j) => Open(j)'
  BY <1>1, <1>2, <1>3 DEF Open
<1>7. es \in Seq(Events) /\ Plain(es)
  <2> DEFINE x == IF removed THEN <<a>> ELSE <<>>
             y == <<b>>
  <2>1. x \in Seq(Events) /\ Plain(x) /\ y \in Seq(Events) /\ Plain(y)
    BY <1>4, OneEmission, NoEmission DEF StageNames, Types, ChatType
  <2>2. es = x \o y
    OBVIOUS
  <2> HIDE DEF x, y, es
  <2> QED
    BY <2>1, <2>2, PlainConcat
<1> HIDE DEF es
<1>8. UNCHANGED <<live, joining, pending_joins, last_token>>
  BY DEF ReceiveMembership
<1> QED
  BY <1>3, <1>5, <1>6, <1>7, <1>8

\* What a membership record or nothing does when no line is heard.
LEMMA MembershipInv ==
  ASSUME IInv, live,
         UNCHANGED <<appVars, cmds, live, joining, pending_joins, last_token, typed, heard, slips, dropped>>,
         wire' = wire \/ (wire # <<>> /\ wire' = Tail(wire)),
         room' \in [Indices -> Channels \cup {NoChannel}],
         \A i \in Indices : room'[i] \in {room[i], NoChannel},
         owed' \subseteq Indices,
         channels' \in [Indices -> Slots], \A j \in Indices : Open(j) => Open(j)',
         \E es : es \in Seq(Events) /\ Plain(es) /\ events' = events \o es
  PROVE  IInv'
<1>1. PICK es : es \in Seq(Events) /\ Plain(es) /\ events' = events \o es
  OBVIOUS
<1>2. Passes(es)
  BY <1>1 DEF Passes
<1>3. LineType'
  BY DEF IInv, Types, LineType
<1>4. Types /\ channels' \in [Indices -> Slots] /\ room' \in [Indices -> Channels \cup {NoChannel}]
      /\ owed' \subseteq Indices
  BY DEF IInv
<1>5. Types'
  BY <1>2, <1>3, <1>4, PassesTypes
<1>6. Kept' => HeardFits'
  BY DEF IInv, Kept, Fit, HeardFits
<1> QED
  BY <1>2, <1>5, <1>6, PassesInv

\* While there is a request or a roster under way the connection is up.
LEMMA Connected ==
  ASSUME IInv, wire # <<>> \/ owed # {}
  PROVE  live
  BY DEF IInv, Course, Offline

\* The types that the service's records meet.
LEMMA ServiceTypes ==
  ASSUME IInv
  PROVE  /\ channels \in [Indices -> Slots] /\ events \in Seq(Events) /\ wire \in Seq(Requests)
         /\ room \in [Indices -> Channels \cup {NoChannel}] /\ owed \subseteq Indices /\ Types
         /\ \A i \in Indices : channels[i].roster \in SUBSET People
  BY DEF IInv, Types, ChatType, ServiceType, Slots

\* Everybody in a room is one of the people.
LEMMA MembersOfRoom ==
  ASSUME NEW c
  PROVE  Members(c) \in SUBSET People
  BY DEF Members, People

\* The first roster of a channel that was joined.
LEMMA FirstRosterInv ==
  ASSUME IInv, FirstRoster
  PROVE  IInv'
<1>1. PICK i \in owed : /\ owed' = owed \ {i}
                        /\ ReceiveMembership(i, Members(room[i]), TRUE, FALSE)
  BY DEF FirstRoster
<1>2. /\ UNCHANGED <<appVars, cmds, wire, room, typed, heard, slips, dropped>>
  BY DEF FirstRoster, history
<1>3. live
  BY <1>1, Connected
<1>4. Types /\ i \in Indices /\ owed' \subseteq Indices /\ room \in [Indices -> Channels \cup {NoChannel}]
  BY <1>1, ServiceTypes
<1>5. Members(room[i]) \in SUBSET People
  BY MembersOfRoom
<1>6. /\ channels' \in [Indices -> Slots]
      /\ \A j \in Indices : Open(j) => Open(j)'
      /\ UNCHANGED <<live, joining, pending_joins, last_token>>
      /\ \E es : es \in Seq(Events) /\ Plain(es) /\ events' = events \o es
  BY <1>1, <1>4, <1>5, Membership
<1> QED
  BY <1>2, <1>3, <1>4, <1>6, MembershipInv

\* A leave reaches the service: the index stands for nothing.
LEMMA TakeLeaveInv ==
  ASSUME IInv, TakeLeave
  PROVE  IInv'
<1> DEFINE i == Head(wire).channel_index
<1>1. /\ wire # <<>> /\ Head(wire).type = "Leave" /\ wire' = Tail(wire)
      /\ room' = [room EXCEPT ![i] = NoChannel] /\ owed' = owed \ {i}
      /\ UNCHANGED <<appVars, cmds, typed, heard, slips, dropped>>
      /\ \/ UNCHANGED <<events, chatVars>>
         \/ ReceiveMembership(i, channels[i].roster \ {"me"}, FALSE, TRUE)
  BY DEF TakeLeave, history
<1>2. /\ channels \in [Indices -> Slots] /\ events \in Seq(Events) /\ wire \in Seq(Requests)
      /\ room \in [Indices -> Channels \cup {NoChannel}] /\ owed \subseteq Indices /\ Types
  BY ServiceTypes
<1>3. live
  BY <1>1, Connected
<1>4. i \in Indices
  <2>1. Head(wire) \in Requests
    BY <1>1, <1>2, TailPlaces
  <2> QED
    BY <1>1, <2>1, RequestShapes
<1>5. room' \in [Indices -> Channels \cup {NoChannel}] /\ \A j \in Indices : room'[j] \in {room[j], NoChannel}
  BY <1>1, <1>2
<1>6. /\ channels' \in [Indices -> Slots]
      /\ \A j \in Indices : Open(j) => Open(j)'
      /\ UNCHANGED <<live, joining, pending_joins, last_token>>
      /\ \E es : es \in Seq(Events) /\ Plain(es) /\ events' = events \o es
  <2>1. CASE UNCHANGED <<events, chatVars>>
    <3>1. events' = events \o <<>> /\ <<>> \in Seq(Events) /\ Plain(<<>>)
      BY <1>2, <2>1, NoEmission
    <3> QED
      BY <1>2, <2>1, <3>1 DEF chatVars, Open
  <2>2. CASE ReceiveMembership(i, channels[i].roster \ {"me"}, FALSE, TRUE)
    <3> DEFINE roster == channels[i].roster \ {"me"}
    <3>1. roster \in SUBSET People
      BY <1>4, ServiceTypes
    <3>2. ReceiveMembership(i, roster, FALSE, TRUE)
      BY <2>2
    <3> HIDE DEF roster, i
    <3> QED
      BY <1>2, <1>4, <3>1, <3>2, Membership
  <2> QED
    BY <1>1, <2>1, <2>2
<1>7. owed' \subseteq Indices
  BY <1>1, <1>2
<1> QED
  BY <1>1, <1>3, <1>5, <1>6, <1>7, MembershipInv

\* The other user comes or goes.
LEMMA PeerMovesInv ==
  ASSUME IInv, NEW c \in Channels, PeerMoves(c)
  PROVE  IInv'
<1> DEFINE roster(i) == IF c \in present THEN channels[i].roster \ {"peer"}
                        ELSE channels[i].roster \union {"peer"}
<1>1. /\ live /\ UNCHANGED <<appVars, cmds, wire, room, owed, typed, heard, slips, dropped>>
      /\ \/ UNCHANGED <<events, chatVars>>
         \/ \E i \in Indices : ReceiveMembership(i, roster(i), FALSE, FALSE)
  BY DEF PeerMoves, News, history
<1>2. /\ channels \in [Indices -> Slots] /\ events \in Seq(Events)
      /\ room \in [Indices -> Channels \cup {NoChannel}] /\ owed \subseteq Indices /\ Types
  BY ServiceTypes
<1>3. /\ channels' \in [Indices -> Slots]
      /\ \A j \in Indices : Open(j) => Open(j)'
      /\ UNCHANGED <<live, joining, pending_joins, last_token>>
      /\ \E es : es \in Seq(Events) /\ Plain(es) /\ events' = events \o es
  <2>1. CASE UNCHANGED <<events, chatVars>>
    <3>1. events' = events \o <<>> /\ <<>> \in Seq(Events) /\ Plain(<<>>)
      BY <1>2, <2>1, NoEmission
    <3> QED
      BY <1>2, <2>1, <3>1 DEF chatVars, Open
  <2>2. ASSUME NEW i \in Indices, ReceiveMembership(i, roster(i), FALSE, FALSE)
        PROVE  /\ channels' \in [Indices -> Slots]
               /\ \A j \in Indices : Open(j) => Open(j)'
               /\ UNCHANGED <<live, joining, pending_joins, last_token>>
               /\ \E es : es \in Seq(Events) /\ Plain(es) /\ events' = events \o es
    <3> DEFINE r == roster(i)
    <3>1. r \in SUBSET People
      BY ServiceTypes DEF People
    <3>2. ReceiveMembership(i, r, FALSE, FALSE)
      BY <2>2
    <3> HIDE DEF r
    <3> QED
      BY <1>2, <3>1, <3>2, Membership
  <2> QED
    BY <1>1, <2>1, <2>2
<1>4. room' \in [Indices -> Channels \cup {NoChannel}] /\ owed' \subseteq Indices
      /\ \A j \in Indices : room'[j] \in {room[j], NoChannel}
  BY <1>1, <1>2
<1> QED
  BY <1>1, <1>3, <1>4, MembershipInv

\* We are removed from a room: the index stands for nothing.
LEMMA KickInv ==
  ASSUME IInv, NEW i \in Indices, Kick(i)
  PROVE  IInv'
<1> DEFINE roster == channels[i].roster \ {"me"}
<1>1. /\ live /\ UNCHANGED <<appVars, cmds, wire, owed, typed, heard, slips, dropped>>
      /\ room' = [room EXCEPT ![i] = NoChannel]
      /\ ReceiveMembership(i, roster, FALSE, TRUE)
  BY DEF Kick, News, history
<1>2. /\ room \in [Indices -> Channels \cup {NoChannel}] /\ owed \subseteq Indices /\ Types
  BY ServiceTypes
<1>3. roster \in SUBSET People
  BY ServiceTypes
<1> HIDE DEF roster
<1>4. /\ channels' \in [Indices -> Slots]
      /\ \A j \in Indices : Open(j) => Open(j)'
      /\ UNCHANGED <<live, joining, pending_joins, last_token>>
      /\ \E es : es \in Seq(Events) /\ Plain(es) /\ events' = events \o es
  BY <1>1, <1>2, <1>3, Membership
<1>5. room' \in [Indices -> Channels \cup {NoChannel}] /\ owed' \subseteq Indices
      /\ \A j \in Indices : room'[j] \in {room[j], NoChannel}
  BY <1>1, <1>2
<1> QED
  BY <1>1, <1>4, <1>5, MembershipInv

\* The service or the network ends the connection.
LEMMA LoseInv ==
  ASSUME IInv, Lose
  PROVE  IInv'
<1>1. Stops
  BY DEF Lose, Stops
<1>2. CommandsSurvive'
  BY DEF Lose, CommandsSurvive
<1> QED
  BY <1>1, <1>2, StopsInv

\* A line reaches the service, and those in the room hear it.
LEMMA TakeSayInv ==
  ASSUME IInv, TakeSay
  PROVE  IInv'
<1> DEFINE i == Head(wire).channel_index
           n == Head(wire).key
           e == Message(i, n)
<1>1. /\ wire # <<>> /\ Head(wire).type = "Say" /\ wire' = Tail(wire)
      /\ heard' = [heard EXCEPT ![n] = room[i]]
      /\ UNCHANGED <<appVars, cmds, room, owed, typed, dropped>>
  BY DEF TakeSay
<1>2. /\ channels \in [Indices -> Slots] /\ events \in Seq(Events) /\ wire \in Seq(Requests)
      /\ room \in [Indices -> Channels \cup {NoChannel}] /\ owed \subseteq Indices /\ Types
  BY ServiceTypes
<1>3. live
  BY <1>1, Connected
<1>4. /\ i \in Indices /\ n \in Nat /\ Head(wire) = wire[1] /\ 1 \in DOMAIN wire
      /\ room[i] \in Channels \cup {NoChannel}
  <2>1. Head(wire) \in Requests /\ Head(wire) = wire[1] /\ 1 \in DOMAIN wire
    BY <1>1, <1>2, TailPlaces
  <2> QED
    BY <1>1, <1>2, <2>1, RequestShapes
<1>5. /\ slips \subseteq slips'
      /\ UNCHANGED <<live, joining, channels, pending_joins, last_token>>
      /\ events' = events \/ events' = events \o <<>> \/ events' = events \o <<e>>
  <2>1. CASE room[i] = NoChannel
    BY <1>1, <2>1 DEF TakeSay, chatVars
  <2>2. CASE room[i] # NoChannel
    <3>1. \E late \in 0 .. Len(typed) : ReceiveMessage(i, n, late)
      BY <2>2 DEF TakeSay
    <3> QED
      BY <3>1 DEF ReceiveMessage, Emit
  <2> QED
    BY <2>1, <2>2
<1>6. e \in Events /\ e.type = "Message"
  BY <1>4, EventShapes, EventFields
<1> HIDE DEF e
<1>7. \E es : es \in Seq(Events) /\ Plain(es) /\ events' = events \o es
  <2>1. events = events \o <<>> /\ <<>> \in Seq(Events) /\ Plain(<<>>)
    BY <1>2, NoEmission
  <2>2. <<e>> \in Seq(Events) /\ Plain(<<e>>)
    BY <1>6, OneEmission DEF StageNames
  <2> QED
    BY <1>5, <2>1, <2>2
<1>8. PICK es : es \in Seq(Events) /\ Plain(es) /\ events' = events \o es
  BY <1>7
<1>9. Passes(es)
  BY <1>1, <1>3, <1>5, <1>8 DEF Passes, Open
<1>10. /\ heard \in Seq(Channels \cup {NoChannel}) /\ typed \in Seq(Channels) /\ Len(heard) = Len(typed)
  BY <1>2 DEF Types, LineType
<1>11. heard' \in Seq(Channels \cup {NoChannel}) /\ Len(heard') = Len(heard) /\ DOMAIN heard' = DOMAIN heard
  <2>1. CASE n \in DOMAIN heard
    <3> DEFINE v == room[i]
    <3>1. v \in Channels \cup {NoChannel}
      BY <1>4
    <3>2. heard' = [heard EXCEPT ![n] = v]
      BY <1>1
    <3> HIDE DEF v
    <3> QED
      BY <1>10, <2>1, <3>1, <3>2, ExceptSeq
  <2>2. CASE n \notin DOMAIN heard
    <3>1. heard' = heard
      BY <1>1, <1>10, <2>2
    <3> QED
      BY <1>10, <3>1
  <2> QED
    BY <2>1, <2>2
<1>12. LineType'
  BY <1>1, <1>10, <1>11 DEF LineType
<1>13. Types'
  <2>1. channels' \in [Indices -> Slots] /\ room' \in [Indices -> Channels \cup {NoChannel}] /\ owed' \subseteq Indices
    BY <1>1, <1>2, <1>5
  <2> QED
    BY <1>2, <1>9, <1>12, <2>1, PassesTypes
<1>14. Kept' => HeardFits'
  <2> SUFFICES ASSUME Kept', NEW k \in DOMAIN heard PROVE heard'[k] \in {NoChannel, typed[k]}
    BY <1>1, <1>11 DEF HeardFits
  <2>1. Fit
    BY <1>5 DEF IInv, Kept
  <2>2. heard[k] \in {NoChannel, typed[k]}
    BY <2>1 DEF Fit, HeardFits
  <2>3. room[i] \in {NoChannel, typed[n]}
    BY <1>1, <1>4, <2>1 DEF Fit, SaysFit, Fits
  <2> QED
    BY <1>1, <1>10, <2>2, <2>3
<1> QED
  BY <1>9, <1>13, <1>14, PassesInv

-----------------------------------------------------------------------------
(* The answers to a join.                                                  *)

\* A reply that fits two requests is an error of LiveChat, a slip of its own.
LEMMA AmbiguousInv ==
  ASSUME IInv, wire # <<>>, UNCHANGED <<appVars, cmds, typed, heard, dropped>>,
         NEW cut, NEW token, NEW kind, Ambiguous(cut, token, kind)
  PROVE  IInv'
<1>1. live
  BY Connected
<1>2. Ends /\ slips' = slips \cup {"ambiguous"}
  BY DEF Ambiguous
<1>3. Stops
  BY <1>1, <1>2 DEF Stops
<1>4. CommandsSurvive'
  BY <1>2 DEF CommandsSurvive
<1> QED
  BY <1>3, <1>4, StopsInv

\* The request a reply belongs to is one that LiveChat has made.
LEMMA RequestedJoin ==
  ASSUME Types, NEW cut, NEW token, NEW kind, NEW left, NEW found,
         left = expire_pending_joins(cut), found = take_requested_join(left, token, kind)
  PROVE  /\ left \subseteq pending_joins /\ found \subseteq pending_joins
         /\ token # 0 => \A j \in found : j.token = token
         /\ found # {} => /\ (CHOOSE j \in found : TRUE) \in found
                          /\ (CHOOSE j \in found : TRUE).channel \in Channels
<1>1. left \subseteq pending_joins
  BY DEF expire_pending_joins
<1>2. found \subseteq pending_joins /\ (token # 0 => \A j \in found : j.token = token)
  BY <1>1 DEF take_requested_join
<1>3. \A j \in pending_joins : j.channel \in Channels
  BY DEF Types, ChatType
<1>4. found # {} => (CHOOSE j \in found : TRUE) \in found
  OBVIOUS
<1> QED
  BY <1>1, <1>2, <1>3, <1>4

\* A refusal tells the application, and nothing else changes.
LEMMA RefuseInv ==
  ASSUME IInv, wire # <<>>, UNCHANGED <<appVars, cmds, typed, heard, dropped>>,
         NEW cut, NEW token, NEW c, Refuse(cut, token, c)
  PROVE  IInv'
<1>1. CASE Ambiguous(cut, token, Kind(c))
  <2> DEFINE kind == Kind(c)
  <2>1. Ambiguous(cut, token, kind)
    BY <1>1
  <2> HIDE DEF kind
  <2> QED
    BY <2>1, AmbiguousInv
<1>2. CASE /\ ReceiveRejection(cut, token, Kind(c), c)
           /\ wire' = Tail(wire)
           /\ UNCHANGED <<room, owed, present>>
  <2> DEFINE left == expire_pending_joins(cut)
             found == take_requested_join(left, token, Kind(c))
             d == IF found = {} THEN NoChannel ELSE (CHOOSE j \in found : TRUE).channel
             e == JoinRejected(d)
  <2>1. /\ pending_joins' = left \ found /\ events' = events \o <<e>> /\ slips \subseteq slips'
        /\ UNCHANGED <<live, joining, channels, last_token>>
    BY <1>2 DEF ReceiveRejection, Emit
  <2>2. /\ channels \in [Indices -> Slots] /\ events \in Seq(Events) /\ wire \in Seq(Requests)
        /\ room \in [Indices -> Channels \cup {NoChannel}] /\ owed \subseteq Indices /\ Types
    BY ServiceTypes
  <2>3. /\ left \subseteq pending_joins
        /\ found # {} => (CHOOSE j \in found : TRUE).channel \in Channels
    BY <2>2, RequestedJoin
  <2> HIDE DEF left, found
  <2>4. d \in Channels \cup {NoChannel}
    BY <2>3
  <2>5. e \in Events /\ e.type = "JoinRejected"
    BY <2>4, EventShapes, EventFields
  <2> HIDE DEF e
  <2>6. <<e>> \in Seq(Events) /\ Plain(<<e>>)
    BY <2>5, OneEmission DEF StageNames
  <2>7. live
    BY Connected
  <2>8. Passes(<<e>>)
    BY <1>2, <2>1, <2>3, <2>6, <2>7 DEF Passes, Open
  <2>9. LineType'
    BY <2>2 DEF Types, LineType
  <2>10. /\ channels' \in [Indices -> Slots] /\ room' \in [Indices -> Channels \cup {NoChannel}]
         /\ owed' \subseteq Indices
    BY <1>2, <2>1, <2>2
  <2>11. Types'
    BY <2>2, <2>8, <2>9, <2>10, PassesTypes
  <2>12. Kept' => HeardFits'
    BY <2>1 DEF IInv, Kept, Fit, HeardFits
  <2> QED
    BY <2>8, <2>11, <2>12, PassesInv
<1> QED
  BY <1>1, <1>2 DEF Refuse

-----------------------------------------------------------------------------
(* The service has let us into channel c under index i; LiveChat takes it  *)
(* for the channel `joined`, and says so unless it knows no channel.       *)

Says(es, i, joined) ==
  /\ es \in Seq(Events)
  /\ \A k \in DOMAIN es :
       es[k].type = "Joined" /\ es[k].channel_index = i /\ es[k].channel = joined
  /\ \A k, l \in DOMAIN es : k = l
Admits(c, i, joined, es) ==
  /\ live /\ live' = live /\ UNCHANGED <<appVars, cmds, joining, last_token, typed, heard, dropped>>
  /\ slips \subseteq slips' /\ Says(es, i, joined) /\ events' = events \o es
  /\ wire # <<>> /\ wire' = Tail(wire)
  /\ i \in Indices /\ room' = [room EXCEPT ![i] = c]
  /\ \A j \in Indices : j = i \/ Open(j) => Open(j)'
  /\ pending_joins' \subseteq pending_joins
  /\ "shared" \notin slips' =>
       /\ \A p \in DOMAIN tabs : tabs[p].channel_index = i => tabs[p].channel = c
       /\ \A k \in DOMAIN cmds : ~Uses(cmds[k], i)
       /\ \A k \in DOMAIN wire : ~Uses(wire[k], i)
       /\ \A k \in DOMAIN events : ~Uses(events[k], i)
  /\ "unclaimed" \notin slips' => joined = c

\* An event after it was there before, or is the one that says so.
LEMMA AdmittedEvents ==
  ASSUME events \in Seq(Events), NEW c, NEW i, NEW joined, NEW es, Admits(c, i, joined, es)
  PROVE  /\ events' \in Seq(Events)
         /\ \A k \in DOMAIN events : k \in DOMAIN events' /\ events'[k] = events[k]
         /\ \A k \in DOMAIN events' :
              \/ k \in DOMAIN events /\ events'[k] = events[k]
              \/ /\ k \notin DOMAIN events
                 /\ events'[k].type = "Joined" /\ events'[k].channel_index = i /\ events'[k].channel = joined
         /\ \A k, l \in DOMAIN events' : k \notin DOMAIN events /\ l \notin DOMAIN events => k = l
<1>1. es \in Seq(Events) /\ events' = events \o es /\ Says(es, i, joined)
  BY DEF Admits, Says
<1>2. /\ events' \in Seq(Events)
      /\ \A k \in DOMAIN events : k \in DOMAIN events' /\ events'[k] = events[k]
      /\ \A k \in DOMAIN events' :
           \/ k \in DOMAIN events /\ events'[k] = events[k]
           \/ /\ k \notin DOMAIN events /\ k - Len(events) \in DOMAIN es
              /\ events'[k] = es[k - Len(events)]
      /\ Len(events) \in Nat
  BY <1>1, Emission
<1>3. ASSUME NEW k \in DOMAIN events', NEW l \in DOMAIN events', k \notin DOMAIN events, l \notin DOMAIN events
      PROVE  k = l
  <2> DEFINE m == Len(events)
  <2>1. k - m \in DOMAIN es /\ l - m \in DOMAIN es
    BY <1>2, <1>3
  <2>2. k - m = l - m
    BY <1>1, <2>1 DEF Says
  <2>3. k \in Int /\ l \in Int /\ m \in Int
    BY <1>2
  <2> HIDE DEF m
  <2> QED
    BY <2>2, <2>3
<1> QED
  BY <1>1, <1>2, <1>3 DEF Says

\* The course of the connection is the same.
LEMMA AdmitsCourse ==
  ASSUME Types, Course, NEW c, NEW i, NEW joined, NEW es, Admits(c, i, joined, es)
  PROVE  Course'
<1>1. \A k \in DOMAIN events' : events'[k].type \in StageNames => k \in DOMAIN events /\ events'[k] = events[k]
  BY AdmittedEvents DEF Types, ChatType, StageNames
<1>2. /\ live /\ live' /\ cmds' = cmds /\ joining' = joining /\ warning' = warning
      /\ connecting' = connecting /\ tab_close' = tab_close
  BY DEF Admits, appVars
<1>3. joining = <<>> /\ ~Calls
  BY <1>2 DEF Course, Dialing, Called, Calls
<1>4. Offline' /\ Dialing' /\ Called'
  BY <1>2, <1>3 DEF Offline, Dialing, Called, Calls
<1>5. FailedLast'
  BY <1>1, <1>2 DEF Course, FailedLast, Stopped, StageNames
<1>6. FailureShown'
  BY <1>2 DEF Course, FailureShown, Stopped
<1>7. ConnectedOnce' /\ StageFirst'
  BY <1>1, <1>2 DEF Course, ConnectedOnce, StageFirst, StageNames, Shut
<1> QED
  BY <1>4, <1>5, <1>6, <1>7 DEF Course

\* Nothing that is under way, and no tab of another channel, uses the index given out.
LEMMA AdmitsFit ==
  ASSUME Types, NEW c, NEW i, NEW joined, NEW es, Admits(c, i, joined, es), Kept => Fit
  PROVE  Kept' => Fit'
<1> SUFFICES ASSUME Kept' PROVE Fit'
  OBVIOUS
<1>1. Kept /\ "shared" \notin slips' /\ "unclaimed" \notin slips'
  BY DEF Admits, Kept
<1>2. Fit
  BY <1>1
<1>3. /\ cmds' = cmds /\ typed' = typed /\ tabs' = tabs /\ heard' = heard /\ joined = c
      /\ wire \in Seq(Requests) /\ (wire' = wire \/ (wire # <<>> /\ wire' = Tail(wire)))
      /\ \A p \in DOMAIN tabs : tabs[p].channel_index = i => tabs[p].channel = c
      /\ \A k \in DOMAIN cmds : ~Uses(cmds[k], i)
      /\ \A k \in DOMAIN wire : ~Uses(wire[k], i)
      /\ \A k \in DOMAIN events : ~Uses(events[k], i)
  BY <1>1 DEF Admits, appVars, Types, ServiceType
<1>4. i \in Indices /\ room'[i] = c /\ \A j \in Indices : j # i => room'[j] = room[j]
  BY DEF Admits, Types, ServiceType
<1>5. SaysFit(cmds)'
  <2> SUFFICES ASSUME NEW k \in DOMAIN cmds, cmds[k].type = "Say"
               PROVE  /\ cmds[k].key \in DOMAIN typed
                      /\ room'[cmds[k].channel_index] \in {NoChannel, typed[cmds[k].key]}
    BY <1>3 DEF SaysFit, Fits
  <2>1. cmds[k].channel_index \in Indices \ {i}
    BY <1>3, Commands, RequestShapes DEF Types, ChatType, Uses
  <2>2. cmds[k].key \in DOMAIN typed /\ Fits(cmds[k].channel_index, typed[cmds[k].key])
    BY <1>2 DEF Fit, SaysFit
  <2> QED
    BY <1>4, <2>1, <2>2 DEF Fits
<1>6. SaysFit(wire)'
  <2> SUFFICES ASSUME NEW k \in DOMAIN wire', wire'[k].type = "Say"
               PROVE  /\ wire'[k].key \in DOMAIN typed
                      /\ room'[wire'[k].channel_index] \in {NoChannel, typed[wire'[k].key]}
    BY <1>3 DEF SaysFit, Fits
  <2>1. PICK l \in DOMAIN wire : wire'[k] = wire[l]
    BY <1>3, WireMembers
  <2>2. wire[l] \in Requests
    BY <1>3
  <2>3. wire[l].channel_index \in Indices \ {i}
    BY <1>3, <2>1, <2>2, RequestShapes DEF Uses
  <2>4. wire[l].key \in DOMAIN typed /\ Fits(wire[l].channel_index, typed[wire[l].key])
    BY <1>2, <2>1 DEF Fit, SaysFit
  <2> QED
    BY <1>4, <2>1, <2>3, <2>4 DEF Fits
<1>7. /\ \A k \in DOMAIN events : k \in DOMAIN events' /\ events'[k] = events[k]
      /\ \A k \in DOMAIN events' :
           \/ k \in DOMAIN events /\ events'[k] = events[k]
           \/ /\ k \notin DOMAIN events
              /\ events'[k].type = "Joined" /\ events'[k].channel_index = i /\ events'[k].channel = joined
  BY AdmittedEvents DEF Types, ChatType
<1>8. TabsFit'
  <2> SUFFICES ASSUME ~Has(events', "WebAuthentication"), NEW p \in DOMAIN tabs,
                      tabs[p].channel_index # 0
               PROVE  room'[tabs[p].channel_index] \in {NoChannel, tabs[p].channel}
    BY <1>3 DEF TabsFit, Fits, Has
  <2>1. ~Has(events, "WebAuthentication")
    BY <1>7 DEF Has
  <2>2. tabs[p].channel_index \in Indices
    BY TabTypes DEF Types, AppType
  <2>3. Fits(tabs[p].channel_index, tabs[p].channel)
    BY <1>2, <2>1 DEF Fit, TabsFit
  <2> QED
    BY <1>3, <1>4, <2>2, <2>3 DEF Fits
<1>9. JoinsFit'
  <2> SUFFICES ASSUME NEW k \in DOMAIN events', events'[k].type = "Joined"
               PROVE  room'[events'[k].channel_index] \in {NoChannel, events'[k].channel}
    BY DEF JoinsFit, Fits
  <2>1. CASE k \in DOMAIN events /\ events'[k] = events[k]
    <3>1. events[k] \in Events
      BY <2>1 DEF Types, ChatType
    <3>2. events[k].channel_index \in Indices \ {i}
      BY <1>3, <2>1, <3>1 DEF Events, Uses
    <3>3. Fits(events[k].channel_index, events[k].channel)
      BY <1>2, <2>1 DEF Fit, JoinsFit
    <3> QED
      BY <1>4, <2>1, <3>2, <3>3 DEF Fits
  <2>2. CASE events'[k].channel_index = i /\ events'[k].channel = joined
    BY <1>3, <1>4, <2>2
  <2> QED
    BY <1>7, <2>1, <2>2
<1>10. HeardFits'
  BY <1>2, <1>3 DEF Fit, HeardFits
<1> QED
  BY <1>5, <1>6, <1>8, <1>9, <1>10 DEF Fit

\* What the application may use stays open, and the index given out is open too.
LEMMA AdmitsHeld ==
  ASSUME Types, NEW c, NEW i, NEW joined, NEW es, Admits(c, i, joined, es), live /\ Sound => Held
  PROVE  live' /\ Sound' => Held'
<1> SUFFICES ASSUME Sound' PROVE Held'
  OBVIOUS
<1>1. Held /\ "shared" \notin slips' /\ "unclaimed" \notin slips'
  BY DEF Admits, Sound
<1>3. /\ cmds' = cmds /\ tabs' = tabs /\ joined = c /\ i \in Indices
      /\ \A p \in DOMAIN tabs : tabs[p].channel_index = i => tabs[p].channel = c
      /\ \A k \in DOMAIN cmds : ~Uses(cmds[k], i)
      /\ \A k \in DOMAIN events : ~Uses(events[k], i)
  BY <1>1 DEF Admits, appVars
<1>4. \A j \in Indices : j = i \/ Open(j) => channels'[j].there /\ channels'[j].mine
  BY DEF Admits, Open
<1>5. /\ \A k \in DOMAIN events : k \in DOMAIN events' /\ events'[k] = events[k]
      /\ \A k \in DOMAIN events' :
           \/ k \in DOMAIN events /\ events'[k] = events[k]
           \/ /\ k \notin DOMAIN events
              /\ events'[k].type = "Joined" /\ events'[k].channel_index = i /\ events'[k].channel = joined
      /\ \A k, l \in DOMAIN events' : k \notin DOMAIN events /\ l \notin DOMAIN events => k = l
  BY AdmittedEvents DEF Types, ChatType
<1>6. \A k \in DOMAIN events : events[k].type = "Joined" => events[k].channel_index \in Indices \ {i}
  BY <1>3 DEF Types, ChatType, Events, Uses
<1>7. CmdsOpen'
  BY <1>1, <1>3, <1>4 DEF Held, CmdsOpen, Open
<1>8. JoinsOpen'
  <2> SUFFICES ASSUME NEW k \in DOMAIN events', events'[k].type = "Joined"
               PROVE  LET j == events'[k].channel_index IN channels'[j].there /\ channels'[j].mine
    BY DEF JoinsOpen, Open
  <2>1. CASE k \in DOMAIN events /\ events'[k] = events[k]
    <3>1. Open(events[k].channel_index)
      BY <1>1, <2>1 DEF Held, JoinsOpen
    <3> QED
      BY <1>4, <1>6, <2>1, <3>1
  <2>2. CASE events'[k].channel_index = i
    BY <1>3, <1>4, <2>2
  <2> QED
    BY <1>5, <2>1, <2>2
<1>9. JoinsDiffer'
  <2> SUFFICES ASSUME NEW k \in DOMAIN events', NEW l \in DOMAIN events',
                      events'[k].type = "Joined", events'[l].type = "Joined",
                      events'[k].channel_index = events'[l].channel_index
               PROVE  k = l
    BY DEF JoinsDiffer
  <2>1. k \in DOMAIN events => events'[k].channel_index # i /\ events'[k] = events[k]
    BY <1>5, <1>6
  <2>2. l \in DOMAIN events => events'[l].channel_index # i /\ events'[l] = events[l]
    BY <1>5, <1>6
  <2>3. CASE k \in DOMAIN events /\ l \in DOMAIN events
    BY <1>1, <2>1, <2>2, <2>3 DEF Held, JoinsDiffer
  <2> QED
    BY <1>5, <2>1, <2>2, <2>3
<1>10. TabsOpen'
  <2> SUFFICES ASSUME ~Has(events', "WebAuthentication"), NEW p \in DOMAIN tabs,
                      tabs[p].channel_index # 0
               PROVE  /\ channels'[tabs[p].channel_index].there /\ channels'[tabs[p].channel_index].mine
                      /\ \A q \in DOMAIN tabs : tabs[q].channel_index = tabs[p].channel_index => p = q
                      /\ \A k \in DOMAIN events' :
                           events'[k].type = "Joined" /\ events'[k].channel_index = tabs[p].channel_index =>
                             events'[k].channel = tabs[p].channel
    BY <1>3 DEF TabsOpen, Open, Has
  <2>1. ~Has(events, "WebAuthentication")
    BY <1>5 DEF Has
  <2>2. tabs[p].channel_index \in Indices
    BY TabTypes DEF Types, AppType
  <2>3. /\ Open(tabs[p].channel_index)
        /\ \A q \in DOMAIN tabs : tabs[q].channel_index = tabs[p].channel_index => p = q
        /\ \A k \in DOMAIN events :
             events[k].type = "Joined" /\ events[k].channel_index = tabs[p].channel_index =>
               events[k].channel = tabs[p].channel
    BY <1>1, <2>1 DEF Held, TabsOpen
  <2>4. channels'[tabs[p].channel_index].there /\ channels'[tabs[p].channel_index].mine
    BY <1>4, <2>2, <2>3
  <2>5. ASSUME NEW k \in DOMAIN events', events'[k].type = "Joined",
               events'[k].channel_index = tabs[p].channel_index
        PROVE  events'[k].channel = tabs[p].channel
    BY <1>3, <1>5, <2>3, <2>5
  <2> QED
    BY <2>3, <2>4, <2>5
<1>11. LeftForGood'
  <2> SUFFICES ASSUME NEW k \in DOMAIN cmds, cmds[k].type = "Leave"
               PROVE  /\ \A l \in DOMAIN cmds : l > k => ~Refers(cmds[l], cmds[k].channel_index)
                      /\ \A p \in DOMAIN tabs : tabs[p].channel_index # cmds[k].channel_index
                      /\ \A l \in DOMAIN events' :
                           ~(events'[l].type = "Joined" /\ events'[l].channel_index = cmds[k].channel_index)
    BY <1>3 DEF LeftForGood, Refers
  <2>1. /\ \A l \in DOMAIN cmds : l > k => ~Refers(cmds[l], cmds[k].channel_index)
        /\ \A p \in DOMAIN tabs : tabs[p].channel_index # cmds[k].channel_index
        /\ \A l \in DOMAIN events :
             ~(events[l].type = "Joined" /\ events[l].channel_index = cmds[k].channel_index)
    BY <1>1 DEF Held, LeftForGood
  <2>2. cmds[k].channel_index # i
    BY <1>3 DEF Uses
  <2> QED
    BY <1>5, <2>1, <2>2
<1> QED
  BY <1>7, <1>8, <1>9, <1>10, <1>11 DEF Held

\* All together.
LEMMA AdmitsInv ==
  ASSUME IInv, Types', NEW c, NEW i, NEW joined, NEW es, Admits(c, i, joined, es)
  PROVE  IInv'
<1>0. Types /\ Course /\ (Kept => Fit) /\ (live /\ Sound => Held)
  BY DEF IInv
<1>1. Course'
  BY <1>0, AdmitsCourse
<1>2. TokensFit'
  <2> SUFFICES ASSUME NEW k \in DOMAIN wire', wire'[k].type = "Join"
               PROVE  /\ wire'[k].key \in 1 .. last_token
                      /\ \A j \in pending_joins' : j.token = wire'[k].key => j.channel = wire'[k].channel
    BY DEF TokensFit, Admits
  <2>0. wire \in Seq(Requests) /\ wire # <<>> /\ wire' = Tail(wire) /\ pending_joins' \subseteq pending_joins
    BY <1>0 DEF Admits, Types, ServiceType
  <2>1. PICK l \in DOMAIN wire : wire'[k] = wire[l]
    BY <2>0, WireMembers
  <2>2. /\ wire[l].key \in 1 .. last_token
        /\ \A j \in pending_joins : j.token = wire[l].key => j.channel = wire[l].channel
    BY <2>1 DEF IInv, TokensFit
  <2> QED
    BY <2>0, <2>1, <2>2
<1>3. Kept' => Fit'
  BY <1>0, AdmitsFit
<1>4. live' /\ Sound' => Held'
  BY <1>0, AdmitsHeld
<1>5. CommandsSurvive'
  BY DEF Admits, CommandsSurvive
<1> QED
  BY <1>1, <1>2, <1>3, <1>4, <1>5 DEF IInv

\* What is said of a channel that was joined.
LEMMA JoinSaid ==
  ASSUME NEW i \in Indices, NEW joined \in Channels
  PROVE  Says(<<Joined(i, joined)>>, i, joined)
<1> DEFINE e == Joined(i, joined)
           es == <<e>>
<1>1. e \in Events /\ e.type = "Joined" /\ e.channel_index = i /\ e.channel = joined
  BY EventShapes, EventFields
<1> HIDE DEF e
<1>2. es \in Seq(Events) /\ DOMAIN es = {1} /\ es[1] = e
  BY <1>1
<1> HIDE DEF es
<1>3. Says(es, i, joined)
  BY <1>1, <1>2 DEF Says
<1> QED
  BY <1>3 DEF es, e

\* LiveChat takes the join for that of some channel, and tells of it if it knows which.
Lets(c, i) ==
  /\ channels'[i].mine /\ \A j \in Indices : j # i => channels'[j] = channels[j]
  /\ \E joined, es : Admits(c, i, joined, es) /\ (joined # NoChannel => es # <<>>)

\* The service lets us into channel c: LiveChat takes the join for that of its own request.
LEMMA AcceptAdmits ==
  ASSUME IInv, wire # <<>>, NEW c, c = Head(wire).channel, Head(wire).type = "Join",
         UNCHANGED <<appVars, cmds, typed, heard, dropped>>,
         NEW cut, NEW token \in Tokens(Head(wire)), NEW i \in Indices,
         ReceiveJoin(cut, token, Named(c), c, i), wire' = Tail(wire),
         room' = [room EXCEPT ![i] = c], owed' = owed \union {i}
  PROVE  Types' /\ Lets(c, i)
<1> DEFINE kind == Named(c)
           left == expire_pending_joins(cut)
           found == take_requested_join(left, token, kind)
           joined == IF found # {} THEN (CHOOSE j \in found : TRUE).channel
                     ELSE IF c \in Public THEN c
                     ELSE channels[i].channel
<1>1. /\ pending_joins' = left \ found
      /\ UNCHANGED <<live, joining, last_token>>
      /\ slips' = slips \union Shares(c, i)
                    \union Slip("unclaimed", joined # c /\ (token = 0 \/ found = {}))
  BY DEF ReceiveJoin
<1>2. /\ channels \in [Indices -> Slots] /\ events \in Seq(Events) /\ wire \in Seq(Requests)
      /\ room \in [Indices -> Channels \cup {NoChannel}] /\ owed \subseteq Indices /\ Types
  BY ServiceTypes
<1>3. IF joined # NoChannel
      THEN begin_join(i, joined) /\ events' = events \o <<Joined(i, joined)>>
      ELSE channels' = [channels EXCEPT ![i].there = TRUE, ![i].mine = TRUE] /\ events' = events
  BY DEF ReceiveJoin, Emit
<1>4. /\ left \subseteq pending_joins /\ found \subseteq pending_joins
      /\ token # 0 => \A j \in found : j.token = token
      /\ found # {} => /\ (CHOOSE j \in found : TRUE) \in found
                       /\ (CHOOSE j \in found : TRUE).channel \in Channels
  BY <1>2, RequestedJoin
<1>5. Head(wire) \in Requests /\ Head(wire) = wire[1] /\ 1 \in DOMAIN wire /\ c \in Channels
  <2>1. Head(wire) \in Requests /\ Head(wire) = wire[1] /\ 1 \in DOMAIN wire
    BY <1>2, TailPlaces
  <2> QED
    BY <2>1, RequestShapes
<1>6. channels[i] \in Slots /\ channels[i].channel \in Channels \cup {NoChannel}
  BY <1>2 DEF Slots
<1>7. joined \in Channels \cup {NoChannel}
  <2> HIDE DEF left, found
  <2> QED
    BY <1>4, <1>5, <1>6
<1>8. token # 0 /\ found # {} => joined = c
  <2> SUFFICES ASSUME token # 0, found # {} PROVE joined = c
    OBVIOUS
  <2> DEFINE j == CHOOSE j \in found : TRUE
  <2> HIDE DEF left, found
  <2>1. j \in found /\ j \in pending_joins /\ j.token = token /\ joined = j.channel
    BY <1>4
  <2>2. token = wire[1].key
    BY <1>5 DEF Tokens
  <2>3. \A k \in pending_joins : k.token = wire[1].key => k.channel = wire[1].channel
    BY <1>5 DEF IInv, TokensFit
  <2> HIDE DEF j, joined
  <2> QED
    BY <1>5, <2>1, <2>2, <2>3
<1>9. "unclaimed" \notin slips' => joined = c
  <2> HIDE DEF joined, found
  <2> QED
    BY <1>1, <1>8 DEF Slip
<1>10. "shared" \notin slips' =>
         /\ \A p \in DOMAIN tabs : tabs[p].channel_index = i => tabs[p].channel = c
         /\ \A k \in DOMAIN cmds : ~Uses(cmds[k], i)
         /\ \A k \in DOMAIN wire : ~Uses(wire[k], i)
         /\ \A k \in DOMAIN events : ~Uses(events[k], i)
  <2> HIDE DEF joined, found
  <2> QED
    BY <1>1 DEF Shares, Slip
<1>11. pending_joins' \subseteq pending_joins /\ slips \subseteq slips'
  <2> HIDE DEF joined, found, left
  <2> QED
    BY <1>1, <1>4
<1> HIDE DEF joined, found, left
<1>12. /\ channels' \in [Indices -> Slots]
       /\ \A j \in Indices : j = i \/ Open(j) => Open(j)'
       /\ channels'[i].mine /\ \A j \in Indices : j # i => channels'[j] = channels[j]
       /\ \E es : Says(es, i, joined) /\ events' = events \o es /\ (joined # NoChannel => es # <<>>)
  <2>1. CASE joined # NoChannel
    <3> DEFINE slot == [there |-> TRUE, channel |-> joined, mine |-> TRUE, roster |-> {}, complete |-> FALSE]
    <3>1. slot \in Slots /\ slot.there /\ slot.mine
      BY <1>7 DEF Slots
    <3>2. channels' = [channels EXCEPT ![i] = slot] /\ events' = events \o <<Joined(i, joined)>>
      BY <1>3, <2>1 DEF begin_join
    <3> HIDE DEF slot
    <3>3. /\ channels' \in [Indices -> Slots] /\ \A j \in Indices : j = i \/ Open(j) => Open(j)'
          /\ channels'[i].mine /\ \A j \in Indices : j # i => channels'[j] = channels[j]
      BY <1>2, <3>1, <3>2 DEF Open
    <3>4. Says(<<Joined(i, joined)>>, i, joined) /\ <<Joined(i, joined)>> # <<>>
      BY <1>7, <2>1, JoinSaid
    <3> QED
      BY <3>2, <3>3, <3>4
  <2>2. CASE joined = NoChannel
    <3>1. channels' = [channels EXCEPT ![i].there = TRUE, ![i].mine = TRUE] /\ events' = events
      BY <1>3, <2>2
    <3>2. channels'[i] \in Slots /\ channels'[i].there /\ channels'[i].mine
      BY <1>2, <1>6, <3>1 DEF Slots
    <3>3. channels' \in [Indices -> Slots] /\ \A j \in Indices : j # i => channels'[j] = channels[j]
      BY <1>2, <3>1, <3>2
    <3>4. \A j \in Indices : j = i \/ Open(j) => Open(j)'
      BY <3>2, <3>3 DEF Open
    <3>5. events' = events \o <<>> /\ <<>> \in Seq(Events)
      BY <1>2, <3>1, NoEmission
    <3>6. Says(<<>>, i, joined)
      BY <3>5 DEF Says
    <3> QED
      BY <2>2, <3>2, <3>3, <3>4, <3>5, <3>6
  <2> QED
    BY <2>1, <2>2
<1>13. PICK es : Says(es, i, joined) /\ events' = events \o es /\ (joined # NoChannel => es # <<>>)
  BY <1>12
<1>14. live
  BY Connected
<1>15. Admits(c, i, joined, es)
  BY <1>1, <1>9, <1>10, <1>11, <1>12, <1>13, <1>14 DEF Admits
<1>16. Types'
  <2>1. events' \in Seq(Events)
    BY <1>2, <1>15, AdmittedEvents
  <2>2. wire' \in Seq(Requests)
    BY <1>2, TailPlaces
  <2>3. room' \in [Indices -> Channels \cup {NoChannel}] /\ owed' \subseteq Indices
    BY <1>2, <1>5
  <2>4. AppType' /\ OneTab' /\ LineType'
    BY <1>2 DEF Types, appVars, AppType, OneTab, LineType
  <2>5. ChatType'
    BY <1>1, <1>2, <1>11, <1>12, <2>1 DEF Types, ChatType
  <2> QED
    BY <2>2, <2>3, <2>4, <2>5 DEF Types, ServiceType
<1> QED
  BY <1>12, <1>13, <1>15, <1>16 DEF Lets

\* The join is taken for one that LiveChat has asked for, or fits two.
LEMMA AcceptInv ==
  ASSUME IInv, wire # <<>>, Head(wire).type = "Join", UNCHANGED <<appVars, cmds, typed, heard, dropped>>,
         NEW cut, NEW token \in Tokens(Head(wire)), NEW i \in Indices,
         Accept(cut, token, Head(wire).channel, i)
  PROVE  IInv'
<1> DEFINE kind == Named(Head(wire).channel)
<1>1. CASE Ambiguous(cut, token, kind)
  <2> HIDE DEF kind
  <2> QED
    BY <1>1, AmbiguousInv
<1>2. CASE ~Ambiguous(cut, token, kind)
  <2>1. PICK c : c = Head(wire).channel
    OBVIOUS
  <2>2. /\ ReceiveJoin(cut, token, Named(c), c, i) /\ wire' = Tail(wire)
        /\ room' = [room EXCEPT ![i] = c] /\ owed' = owed \union {i}
    BY <1>2, <2>1 DEF Accept
  <2>3. Types' /\ Lets(c, i)
    BY <2>1, <2>2, AcceptAdmits
  <2> QED
    BY <2>3, AdmitsInv DEF Lets
<1> QED
  BY <1>1, <1>2

\* The answer to a join, whichever it is.
LEMMA AnswerJoinInv ==
  ASSUME IInv, AnswerJoin
  PROVE  IInv'
<1> DEFINE c == Head(wire).channel
<1>1. wire # <<>> /\ Head(wire).type = "Join" /\ UNCHANGED <<appVars, cmds, typed, heard, dropped>>
  BY DEF AnswerJoin
<1>2. PICK cut \in 0 .. last_token, token \in Tokens(Head(wire)) :
        Refuse(cut, token, c) \/ \E i \in Indices : Accept(cut, token, c, i)
  BY DEF AnswerJoin
<1>3. CASE Refuse(cut, token, c)
  <2> HIDE DEF c
  <2> QED
    BY <1>1, <1>3, RefuseInv
<1>4. ASSUME NEW i \in Indices, Accept(cut, token, c, i)
      PROVE  IInv'
  BY <1>1, <1>4, AcceptInv
<1> QED
  BY <1>2, <1>3, <1>4

\* A step of the service.
LEMMA ServiceStep ==
  ASSUME IInv, Service
  PROVE  IInv'
  BY AnswerJoinInv, FirstRosterInv, TakeLeaveInv, TakeSayInv, PeerMovesInv, KickInv, LoseInv DEF Service

-----------------------------------------------------------------------------
(* The steps put together.                                                 *)

\* The application is connected to General alone.
LEMMA InitInv ==
  ASSUME Init
  PROVE  IInv
<1> DEFINE i == CHOOSE i \in Indices : TRUE
           tab == [Tab(General, i) EXCEPT !.users = Members(General), !.complete = TRUE]
           slot == [there |-> TRUE, channel |-> General, mine |-> TRUE,
                    roster |-> Members(General), complete |-> TRUE]
<1>1. i \in Indices /\ General \in Channels /\ 0 \notin Indices
  BY ChannelsAssumption
<1>2. Members(General) \in SUBSET People
  BY MembersOfRoom
<1>3. tab \in TabSet /\ tab.channel = General /\ tab.channel_index = i
  BY <1>1, <1>2 DEF TabSet, Tab
<1>4. slot \in Slots /\ slot.there /\ slot.mine
  BY <1>1, <1>2 DEF Slots
<1>5. /\ tabs = <<tab>>
      /\ channels = [[j \in Indices |-> Absent] EXCEPT ![i] = slot]
      /\ room = [[j \in Indices |-> NoChannel] EXCEPT ![i] = General]
  BY DEF Init
<1> HIDE DEF i, tab, slot
<1>6. tabs \in Seq(TabSet) /\ DOMAIN tabs = {1} /\ tabs[1] = tab
  BY <1>3, <1>5
<1>7. channels \in [Indices -> Slots] /\ channels[i] = slot
  BY <1>1, <1>4, <1>5, AbsentSlot
<1>8. room \in [Indices -> Channels \cup {NoChannel}] /\ room[i] = General
  BY <1>1, <1>5
<1>9. /\ awaiting_joins = {} /\ pending_rosters = [j \in Indices |-> NoRoster]
      /\ warning = NoWarning /\ tab_close = 0 /\ connecting = "no"
      /\ cmds = <<>> /\ events = <<>> /\ wire = <<>> /\ owed = {}
      /\ live = TRUE /\ joining = <<>> /\ pending_joins = {} /\ last_token = 0
      /\ typed = <<>> /\ heard = <<>> /\ slips = {}
  BY DEF Init
<1>10. AppType
  <2>1. NoRoster \in RosterSet
    BY DEF NoRoster, RosterSet
  <2> QED
    BY <1>6, <1>9, <2>1 DEF AppType
<1>11. ChatType
  <2>1. <<>> \in Seq(Requests \cup Connects) /\ <<>> \in Seq(Events) /\ <<>> \in Seq(Channels)
    BY EmptySeq
  <2> QED
    BY <1>7, <1>9, <2>1 DEF ChatType
<1>12. ServiceType
  BY <1>8, <1>9, EmptySeq DEF ServiceType
<1>13. LineType
  BY <1>9, EmptySeq DEF LineType
<1>14. OneTab
  BY <1>6 DEF OneTab
<1>15. DOMAIN cmds = {} /\ DOMAIN events = {} /\ DOMAIN wire = {} /\ DOMAIN heard = {}
  BY <1>9
<1>16. Course
  <2>1. Offline /\ Dialing /\ Called
    BY <1>9, <1>15 DEF Offline, Dialing, Called
  <2>2. FailedLast /\ FailureShown /\ ConnectedOnce /\ StageFirst
    BY <1>9, <1>15 DEF FailedLast, FailureShown, ConnectedOnce, StageFirst, NoWarning
  <2> QED
    BY <2>1, <2>2 DEF Course
<1>17. TokensFit
  BY <1>15 DEF TokensFit
<1>18. Fit
  <2>1. SaysFit(cmds) /\ SaysFit(wire) /\ JoinsFit /\ HeardFits
    BY <1>15 DEF SaysFit, JoinsFit, HeardFits
  <2>2. TabsFit
    BY <1>3, <1>6, <1>8 DEF TabsFit, Fits
  <2> QED
    BY <2>1, <2>2 DEF Fit
<1>19. Held
  <2>1. CmdsOpen /\ JoinsOpen /\ JoinsDiffer /\ LeftForGood
    BY <1>15 DEF CmdsOpen, JoinsOpen, JoinsDiffer, LeftForGood
  <2>2. TabsOpen
    BY <1>3, <1>4, <1>6, <1>7, <1>15 DEF TabsOpen, Open
  <2> QED
    BY <2>1, <2>2 DEF Held
<1>20. CommandsSurvive
  BY <1>9 DEF CommandsSurvive
<1> QED
  BY <1>10, <1>11, <1>12, <1>13, <1>14, <1>16, <1>17, <1>18, <1>19, <1>20 DEF IInv, Types

\* A step in which nothing happens.
LEMMA StutterInv ==
  ASSUME IInv, UNCHANGED vars
  PROVE  IInv'
<1>1. UNCHANGED <<tabs, awaiting_joins, pending_rosters, warning, tab_close, connecting, cmds, events,
                  live, joining, channels, last_token, pending_joins, wire, room, owed, typed, heard,
                  slips, dropped>>
  BY DEF vars, appVars, chatVars, serviceVars, history
<1>2. Types'
  BY <1>1 DEF IInv, Types, AppType, ChatType, ServiceType, LineType, OneTab
<1>3. Course'
  BY <1>1 DEF IInv, Course, Offline, Dialing, Called, FailedLast, FailureShown, ConnectedOnce, StageFirst,
              Calls, Stopped, Shut
<1>4. TokensFit'
  BY <1>1 DEF IInv, TokensFit
<1>5. Kept' => Fit'
  BY <1>1 DEF IInv, Kept, Fit, SaysFit, TabsFit, JoinsFit, HeardFits, Fits, Has
<1>6. live' /\ Sound' => Held'
  BY <1>1 DEF IInv, Sound, Held, CmdsOpen, JoinsOpen, JoinsDiffer, TabsOpen, LeftForGood, Open, Refers, Has
<1>7. CommandsSurvive'
  BY <1>1 DEF IInv, CommandsSurvive
<1> QED
  BY <1>2, <1>3, <1>4, <1>5, <1>6, <1>7 DEF IInv

\* A step of the user.
LEMMA UserStep ==
  ASSUME IInv, User
  PROVE  IInv'
<1>1. ASSUME NEW c \in Channels, join_channel_target(c) PROVE IInv'
  BY <1>1, JoinPress
<1>2. ASSUME NEW p \in DOMAIN tabs, begin_tab_close(p) PROVE IInv'
  BY <1>2, BeginTabClose
<1>3. ASSUME NEW p \in DOMAIN tabs, send_message(p) PROVE IInv'
  BY <1>3, SendMessage
<1>4. ASSUME NEW from \in DOMAIN tabs, NEW to \in DOMAIN tabs, finish_tab_drag(from, to) PROVE IInv'
  BY <1>4, FinishTabDrag
<1> QED
  BY <1>1, <1>2, <1>3, <1>4, BeginWarningClose, WarningGoes, Reconnect DEF User

\* A step of the application.
LEMMA AppStep ==
  ASSUME IInv, App
  PROVE  IInv'
  BY FinishTabClose, ExpireAwaitedJoins, FlushRosters, HandleClientEvent DEF App

\* A step of the worker.
LEMMA WorkerStep ==
  ASSUME IInv, Worker
  PROVE  IInv'
  BY RunLive, IdleIgnore, BeginConnection, EstablishConnection, EstablishFail DEF Worker

\* The inductive invariant: what the indices, the tabs, the commands and the
\* events that are under way say of one another in every reachable state.
THEOREM ChannelsInvariant == Spec => []IInv
<1>1. Init => IInv
  BY InitInv
<1>2. IInv /\ [Next]_vars => IInv'
  <2> SUFFICES ASSUME IInv, [Next]_vars PROVE IInv'
    OBVIOUS
  <2>1. CASE Next
    BY <2>1, UserStep, AppStep, WorkerStep, ServiceStep DEF Next
  <2>2. CASE UNCHANGED vars
    BY <2>2, StutterInv
  <2> QED
    BY <2>1, <2>2
<1> QED
  BY <1>1, <1>2, PTL DEF Spec

\* A line that the user types into a tab (ChannelComponent::send_message) is
\* heard in the room of that tab or in none, however its way through the two
\* queues and the wire crosses leaves, removals and new connections: while the
\* service gives no index out again under way and no join goes unclaimed.
THEOREM LinesGoWhereTyped == Spec => []SaidWhereTyped
<1>1. IInv => SaidWhereTyped
  BY DEF IInv, Kept, Fit, HeardFits, SaidWhereTyped
<1> QED
  BY <1>1, ChannelsInvariant, PTL

\* No command of the application makes run_live end (leave_channel and
\* send_message return an error for an index that LiveChat does not know), but
\* after one of the named slips.
THEOREM NoCommandEndsTheConnection == Spec => []CommandsSurvive
<1>1. IInv => CommandsSurvive
  BY DEF IInv
<1> QED
  BY <1>1, ChannelsInvariant, PTL

-----------------------------------------------------------------------------
(* A line is shown once.  LinesInv says where a line can be: in a command, *)
(* then on the wire and in an event at once, or shown; and that the echo   *)
(* of a line on the wire is expected for as long as a tab could show it.   *)

\* The members of s that have one of the types were in t, all d places later.
Brought(s, t, types, d) ==
  \A k \in DOMAIN s : s[k].type \in types => k \in Int /\ k + d \in DOMAIN t /\ s[k] = t[k + d]
Follows(s, t, types) == \E d \in {0, 1} : Brought(s, t, types, d)

\* Two places with the same place later on are one.
LEMMA SamePlace ==
  \A d \in {0, 1} : \A k, l \in Int : k + d = l + d => k = l
  OBVIOUS

\* The ways a queue changes: not at all,
LEMMA FollowsSame ==
  ASSUME NEW S, NEW t \in Seq(S), NEW types
  PROVE  Follows(t, t, types)
<1>1. \A k \in DOMAIN t : k \in Int /\ k + 0 = k
  OBVIOUS
<1>2. Brought(t, t, types, 0)
  BY <1>1 DEF Brought
<1> QED
  BY <1>2 DEF Follows

\* its first member is taken,
LEMMA FollowsTail ==
  ASSUME NEW S, NEW t \in Seq(S), t # <<>>, NEW types
  PROVE  Follows(Tail(t), t, types)
<1>1. \A k \in DOMAIN Tail(t) : k \in Int /\ k + 1 \in DOMAIN t /\ Tail(t)[k] = t[k + 1]
  BY TailPlaces
<1>2. Brought(Tail(t), t, types, 1)
  BY <1>1 DEF Brought
<1> QED
  BY <1>2 DEF Follows

\* members of other types come,
LEMMA FollowsConcat ==
  ASSUME NEW S, NEW t \in Seq(S), NEW es \in Seq(S), NEW types,
         \A k \in DOMAIN es : es[k].type \notin types
  PROVE  Follows(t \o es, t, types)
<1>1. \A k \in DOMAIN (t \o es) :
        \/ k \in DOMAIN t /\ (t \o es)[k] = t[k]
        \/ k - Len(t) \in DOMAIN es /\ (t \o es)[k] = es[k - Len(t)]
  BY ConcatMembers
<1>2. \A k \in DOMAIN t : k \in Int /\ k + 0 = k
  OBVIOUS
<1>3. Brought(t \o es, t, types, 0)
  BY <1>1, <1>2 DEF Brought
<1> QED
  BY <1>3 DEF Follows

\* or one of another type does.
LEMMA FollowsAppend ==
  ASSUME NEW S, NEW t \in Seq(S), NEW x \in S, NEW types, x.type \notin types
  PROVE  Follows(Append(t, x), t, types)
<1>1. /\ \A k \in DOMAIN t : Append(t, x)[k] = t[k]
      /\ Append(t, x)[Len(t) + 1] = x
      /\ \A k \in DOMAIN Append(t, x) : k \in DOMAIN t \/ k = Len(t) + 1
  BY AppendPlaces
<1>2. \A k \in DOMAIN t : k \in Int /\ k + 0 = k
  OBVIOUS
<1>3. Brought(Append(t, x), t, types, 0)
  BY <1>1, <1>2 DEF Brought
<1> QED
  BY <1>3 DEF Follows

\* A tab with an index was there with it, or a join that was under way gave it one.
TabKnown(p) ==
  tabs'[p].channel_index # 0 =>
    \/ \E q \in DOMAIN tabs : SameTab(p, q)
    \/ \E k \in DOMAIN events : /\ events[k].type = "Joined" /\ events[k].channel = tabs'[p].channel
                                /\ events[k].channel_index = tabs'[p].channel_index
NoSay(s) == \A k \in DOMAIN s : s[k].type # "Say"
EchoKept(q) == EchoOf(q) \in echoes => EchoOf(q) \in echoes' \/ Gone(tabs, events, q.channel_index)
EchoesKept == live' /\ Once' => \A k \in DOMAIN wire' : wire'[k].type = "Say" => EchoKept(wire'[k])
\* No line is typed, sent or shown, and no index given out.
Calm ==
  /\ UNCHANGED <<typed, lines>> /\ slips \subseteq slips'
  /\ \A p \in DOMAIN tabs' : TabKnown(p)
  /\ Follows(events', events, {"Joined", "Message"})
  /\ Follows(cmds', cmds, {"Say"})
  /\ Follows(wire', wire, {"Say"})
  /\ live' => live \/ (NoSay(cmds') /\ NoSay(wire'))
  /\ EchoesKept

\* What is gone stays so, and what an index means it goes on to mean.
LEMMA CalmMeanings ==
  ASSUME Types, NEW i \in Indices, \A p \in DOMAIN tabs' : TabKnown(p),
         Follows(events', events, {"Joined", "Message"})
  PROVE  /\ Gone(tabs, events, i) => Gone(tabs', events', i)
         /\ \A c : Means(tabs, events, i, c) => Means(tabs', events', i, c)
<1>0. i # 0
  BY ChannelsAssumption
<1>1. PICK d \in {0, 1} : Brought(events', events, {"Joined", "Message"}, d)
  BY DEF Follows
<1>2. \A k \in DOMAIN events' : events'[k].type = "Joined" =>
        k + d \in DOMAIN events /\ events'[k] = events[k + d]
  BY <1>1 DEF Brought
<1>3. \A p \in DOMAIN tabs' : tabs'[p].channel_index = i =>
        \/ \E q \in DOMAIN tabs : tabs[q].channel_index = i /\ tabs[q].channel = tabs'[p].channel
        \/ \E k \in DOMAIN events : /\ events[k].type = "Joined" /\ events[k].channel = tabs'[p].channel
                                    /\ events[k].channel_index = i
  BY <1>0 DEF TabKnown, SameTab
<1>4. Gone(tabs, events, i) => Gone(tabs', events', i)
  BY <1>2, <1>3 DEF Gone
<1>5. \A c : Means(tabs, events, i, c) => Means(tabs', events', i, c)
  BY <1>2, <1>3 DEF Means
<1> QED
  BY <1>4, <1>5

\* The keys of the lines under way when no line is sent.
LEMMA CalmKeys ==
  ASSUME LineShapes, SaidOnce, Calm
  PROVE  LineShapes' /\ SaidOnce'
<1>1. PICK d \in {0, 1} : Brought(events', events, {"Joined", "Message"}, d)
  BY DEF Calm, Follows
<1>2. PICK c \in {0, 1} : Brought(cmds', cmds, {"Say"}, c)
  BY DEF Calm, Follows
<1>3. PICK w \in {0, 1} : Brought(wire', wire, {"Say"}, w)
  BY DEF Calm, Follows
<1>4. \A k \in DOMAIN events' : events'[k].type = "Message" =>
        k \in Int /\ k + d \in DOMAIN events /\ events'[k] = events[k + d]
  BY <1>1 DEF Brought
<1>5. \A k \in DOMAIN cmds' : cmds'[k].type = "Say" =>
        k \in Int /\ k + c \in DOMAIN cmds /\ cmds'[k] = cmds[k + c]
  BY <1>2 DEF Brought
<1>6. \A k \in DOMAIN wire' : wire'[k].type = "Say" =>
        k \in Int /\ k + w \in DOMAIN wire /\ wire'[k] = wire[k + w]
  BY <1>3 DEF Brought
<1>7. typed' = typed /\ lines' = lines
  BY DEF Calm
<1>8. LineShapes'
  BY <1>4, <1>5, <1>6, <1>7 DEF LineShapes
<1>9. ASSUME NEW k \in DOMAIN wire', NEW l \in DOMAIN wire',
             wire'[k].type = "Say", wire'[l].type = "Say", wire'[l].key = wire'[k].key
      PROVE  k = l
  <2>1. /\ k \in Int /\ l \in Int /\ k + w \in DOMAIN wire /\ l + w \in DOMAIN wire
        /\ wire'[k] = wire[k + w] /\ wire'[l] = wire[l + w]
    BY <1>6, <1>9
  <2>2. k + w = l + w
    BY <1>9, <2>1 DEF SaidOnce, SayOf
  <2>3. k \in Int /\ l \in Int
    BY <2>1
  <2> QED
    BY ONLY <2>2, <2>3, SamePlace
<1>10. ASSUME NEW k \in DOMAIN cmds', cmds'[k].type = "Say"
       PROVE  /\ \A l \in DOMAIN cmds' : SayOf(cmds'[l], cmds'[k].key) => l = k
              /\ \A l \in DOMAIN wire' : ~SayOf(wire'[l], cmds'[k].key)
              /\ \A l \in DOMAIN events' : ~MessageOf(events'[l], cmds'[k].key)
              /\ lines[cmds'[k].key] = <<>>
  <2>1. k \in Int /\ k + c \in DOMAIN cmds /\ cmds'[k] = cmds[k + c] /\ cmds[k + c].type = "Say"
    BY <1>5, <1>10
  <2> DEFINE n == cmds'[k].key
  <2>2. /\ \A l \in DOMAIN cmds : SayOf(cmds[l], n) => l = k + c
        /\ \A l \in DOMAIN wire : ~SayOf(wire[l], n)
        /\ \A l \in DOMAIN events : ~MessageOf(events[l], n)
        /\ lines[n] = <<>>
    BY <2>1 DEF SaidOnce
  <2> HIDE DEF n
  <2>3. ASSUME NEW l \in DOMAIN cmds', SayOf(cmds'[l], n)
        PROVE  l = k
    <3>1. l \in Int /\ l + c \in DOMAIN cmds /\ cmds'[l] = cmds[l + c]
      BY <1>5, <2>3 DEF SayOf
    <3>2. l + c = k + c
      BY <2>2, <2>3, <3>1
    <3>3. k \in Int /\ l \in Int
      BY <2>1, <3>1
    <3> QED
      BY ONLY <3>2, <3>3, SamePlace
  <2>4. \A l \in DOMAIN wire' : ~SayOf(wire'[l], n)
    BY <1>6, <2>2 DEF SayOf
  <2>5. \A l \in DOMAIN events' : ~MessageOf(events'[l], n)
    BY <1>4, <2>2 DEF MessageOf
  <2> QED
    BY <2>2, <2>3, <2>4, <2>5 DEF n
<1>11. SaidOnce'
  BY <1>7, <1>9, <1>10 DEF SaidOnce, SayOf, MessageOf
<1> QED
  BY <1>8, <1>11

\* Where the lines under way can be shown when no line is sent.
LEMMA CalmLines ==
  ASSUME Types, Types', LinesInv, Calm
  PROVE  LinesInv'
<1>1. LineShapes' /\ SaidOnce' /\ LineShapes
  BY CalmKeys DEF LinesInv
<1>2. typed' = typed /\ lines' = lines
  BY DEF Calm
<1>3. \A i \in Indices :
        /\ Gone(tabs, events, i) => Gone(tabs', events', i)
        /\ \A c : Means(tabs, events, i, c) => Means(tabs', events', i, c)
  BY CalmMeanings DEF Calm
<1>4. ASSUME Once' PROVE ShownFits' /\ EchoesDue'
  <2>1. ShownFits /\ EchoesDue
    BY <1>4 DEF LinesInv, Calm, Once
  <2>2. PICK d \in {0, 1} : Brought(events', events, {"Joined", "Message"}, d)
    BY DEF Calm, Follows
  <2>3. \A k \in DOMAIN events' : events'[k].type = "Message" =>
          k \in Int /\ k + d \in DOMAIN events /\ events'[k] = events[k + d]
    BY <2>2 DEF Brought
  <2>4. ASSUME NEW k \in DOMAIN events', events'[k].type = "Message"
        PROVE  /\ Means(tabs', events', events'[k].channel_index, typed[events'[k].line])
               /\ Gone(tabs', events', events'[k].channel_index) \/ Unshown(tabs', events', lines, k)
    <3> DEFINE i == events'[k].channel_index
               n == events'[k].line
    <3>1. k \in Int /\ k + d \in DOMAIN events /\ events'[k] = events[k + d] /\ events[k + d].type = "Message"
      BY <2>3, <2>4
    <3>2. i \in Indices
      BY <1>1, <3>1 DEF LineShapes
    <3>3. Means(tabs, events, i, typed[n]) /\ (Gone(tabs, events, i) \/ Unshown(tabs, events, lines, k + d))
      BY <2>1, <3>1 DEF ShownFits
    <3>4. ASSUME Unshown(tabs, events, lines, k + d)
          PROVE  Unshown(tabs', events', lines, k)
      <4>1. /\ lines[n] = <<>>
            /\ \A l \in DOMAIN events : MessageOf(events[l], n) /\ l # k + d => Gone(tabs, events, events[l].channel_index)
        BY <3>1, <3>4 DEF Unshown
      <4>2. ASSUME NEW l \in DOMAIN events', MessageOf(events'[l], n), l # k
            PROVE  Gone(tabs', events', events'[l].channel_index)
        <5>1. l \in Int /\ l + d \in DOMAIN events /\ events'[l] = events[l + d]
          BY <2>3, <4>2 DEF MessageOf
        <5>2. l + d # k + d
          <6>1. k \in Int /\ l \in Int /\ k # l
            BY <3>1, <4>2, <5>1
          <6> QED
            BY ONLY <6>1, SamePlace
        <5>3. Gone(tabs, events, events[l + d].channel_index)
          BY <4>1, <4>2, <5>1, <5>2
        <5>4. events[l + d].channel_index \in Indices
          BY <1>1, <4>2, <5>1 DEF LineShapes, MessageOf
        <5> QED
          BY <1>3, <5>1, <5>3, <5>4
      <4> QED
        BY <4>1, <4>2 DEF Unshown
    <3> QED
      BY <1>3, <3>2, <3>3, <3>4
  <2>5. ShownFits'
    BY <1>2, <2>1, <2>4 DEF ShownFits
  <2>6. ASSUME live' PROVE /\ \A k \in DOMAIN cmds' : cmds'[k].type = "Say" =>
                                Means(tabs', events', cmds'[k].channel_index, typed[cmds'[k].key])
                           /\ \A k \in DOMAIN wire' : wire'[k].type = "Say" =>
                                \/ Gone(tabs', events', wire'[k].channel_index)
                                \/ EchoOf(wire'[k]) \in echoes'
    <3>1. CASE NoSay(cmds') /\ NoSay(wire')
      BY <3>1 DEF NoSay
    <3>2. CASE live
      <4>1. ASSUME NEW k \in DOMAIN cmds', cmds'[k].type = "Say"
            PROVE  Means(tabs', events', cmds'[k].channel_index, typed[cmds'[k].key])
        <5>1. PICK l \in DOMAIN cmds : cmds'[k] = cmds[l]
          BY <4>1 DEF Calm, Follows, Brought
        <5>2. cmds[l].channel_index \in Indices
          BY <4>1, <5>1, Commands, RequestShapes DEF Types, ChatType
        <5>3. Means(tabs, events, cmds[l].channel_index, typed[cmds[l].key])
          BY <2>1, <3>2, <4>1, <5>1 DEF EchoesDue
        <5> QED
          BY <1>3, <5>1, <5>2, <5>3
      <4>2. ASSUME NEW k \in DOMAIN wire', wire'[k].type = "Say"
            PROVE  Gone(tabs', events', wire'[k].channel_index) \/ EchoOf(wire'[k]) \in echoes'
        <5>1. PICK l \in DOMAIN wire : wire'[k] = wire[l]
          BY <4>2 DEF Calm, Follows, Brought
        <5>2. wire[l] \in Requests
          BY <5>1 DEF Types, ServiceType
        <5>3. wire[l].channel_index \in Indices
          BY <4>2, <5>1, <5>2, RequestShapes
        <5>4. Gone(tabs, events, wire[l].channel_index) \/ EchoOf(wire[l]) \in echoes
          BY <2>1, <3>2, <4>2, <5>1 DEF EchoesDue
        <5>5. EchoKept(wire'[k])
          BY <1>4, <2>6, <4>2 DEF Calm, EchoesKept
        <5>6. Gone(tabs, events, wire[l].channel_index) \/ EchoOf(wire[l]) \in echoes'
          BY <5>1, <5>4, <5>5 DEF EchoKept
        <5> QED
          BY <1>3, <5>1, <5>3, <5>6
      <4> QED
        BY <4>1, <4>2
    <3> QED
      BY <2>6, <3>1, <3>2 DEF Calm
  <2>7. EchoesDue'
    BY <1>2, <2>6 DEF EchoesDue, EchoOf
  <2> QED
    BY <2>5, <2>7
<1> QED
  BY <1>1, <1>4 DEF LinesInv

\* A line that is on no way: none of those typed can be shown any more.
LEMMA SilentLines ==
  ASSUME LinesInv, UNCHANGED <<typed, lines>>, slips \subseteq slips', NoSay(cmds'), NoSay(wire'),
         \A k \in DOMAIN events' : events'[k].type # "Message"
  PROVE  LinesInv'
<1>1. LineShapes' /\ SaidOnce'
  BY DEF LinesInv, LineShapes, SaidOnce, NoSay, SayOf
<1>2. Once' => ShownFits' /\ EchoesDue'
  BY DEF LinesInv, Once, ShownFits, EchoesDue, NoSay
<1> QED
  BY <1>1, <1>2 DEF LinesInv

\* The service sends an event: a join of an index that nothing under way uses, or
\* a line, of which the echo was not expected since no tab can show it.
Unused(i) ==
  /\ \A k \in DOMAIN cmds : ~(cmds[k].type = "Say" /\ cmds[k].channel_index = i)
  /\ \A k \in DOMAIN wire : ~(wire[k].type = "Say" /\ wire[k].channel_index = i)
  /\ \A k \in DOMAIN events : ~(events[k].type = "Message" /\ events[k].channel_index = i)
Late(e) ==
  /\ e.type = "Message" /\ e.channel_index \in Indices /\ e.line \in DOMAIN typed
  /\ \A k \in DOMAIN cmds : ~SayOf(cmds[k], e.line)
  /\ Once' => Gone(tabs, events, e.channel_index)
Hears(e) ==
  /\ UNCHANGED <<tabs, cmds, typed, lines, live>> /\ slips \subseteq slips'
  /\ e \in Events /\ events' = events \o <<e>>
  /\ Follows(wire', wire, {"Say"}) /\ EchoesKept
  /\ \/ e.type = "Joined" /\ (Once' => Unused(e.channel_index))
     \/ Late(e)

\* The events are those before and the one that was sent.
LEMMA HeardEvents ==
  ASSUME events \in Seq(Events), NEW e \in Events, events' = events \o <<e>>
  PROVE  /\ \A k \in DOMAIN events : k \in DOMAIN events' /\ events'[k] = events[k]
         /\ \A k \in DOMAIN events' : (k \in DOMAIN events /\ events'[k] = events[k])
                                        \/ (k \notin DOMAIN events /\ events'[k] = e)
         /\ \A k, l \in DOMAIN events' : k \notin DOMAIN events /\ l \notin DOMAIN events => k = l
<1> DEFINE es == <<e>>
           m == Len(events)
<1>1. es \in Seq(Events) /\ DOMAIN es = {1} /\ es[1] = e
  OBVIOUS
<1> HIDE DEF es
<1>2. events' = events \o es
  BY DEF es
<1>3. /\ \A k \in DOMAIN events : k \in DOMAIN events' /\ events'[k] = events[k]
      /\ \A k \in DOMAIN events' :
           \/ k \in DOMAIN events /\ events'[k] = events[k]
           \/ k \notin DOMAIN events /\ k - m \in DOMAIN es /\ events'[k] = es[k - m]
      /\ m \in Nat /\ events' \in Seq(Events)
  BY <1>1, <1>2, Emission
<1>4. \A k \in DOMAIN events' : k \in Int
  BY <1>3
<1> HIDE DEF m
<1>5. \A k \in DOMAIN events' : k \notin DOMAIN events => k = m + 1
  BY <1>1, <1>3, <1>4
<1> QED
  BY <1>1, <1>3, <1>5

\* A line can be shown where it could before.
LEMMA HearsLines ==
  ASSUME Types, LinesInv, NEW e, Hears(e)
  PROVE  LinesInv'
<1>1. /\ UNCHANGED <<tabs, cmds, typed, lines, live>> /\ slips \subseteq slips' /\ e \in Events
      /\ events \in Seq(Events) /\ events' = events \o <<e>>
  BY DEF Hears, Types, ChatType
<1>2. PICK w \in {0, 1} : Brought(wire', wire, {"Say"}, w)
  BY DEF Hears, Follows
<1>3. \A k \in DOMAIN wire' : wire'[k].type = "Say" =>
        k \in Int /\ k + w \in DOMAIN wire /\ wire'[k] = wire[k + w]
  BY <1>2 DEF Brought
<1>4. /\ \A k \in DOMAIN events : k \in DOMAIN events' /\ events'[k] = events[k]
      /\ \A k \in DOMAIN events' : (k \in DOMAIN events /\ events'[k] = events[k])
                                     \/ (k \notin DOMAIN events /\ events'[k] = e)
      /\ \A k, l \in DOMAIN events' : k \notin DOMAIN events /\ l \notin DOMAIN events => k = l
  BY <1>1, HeardEvents
<1>5. (e.type = "Joined" /\ (Once' => Unused(e.channel_index))) \/ Late(e)
  BY DEF Hears
<1>6. e.type = "Message" => Late(e)
  BY <1>5
<1>7. LineShapes /\ SaidOnce
  BY DEF LinesInv
<1>8. LineShapes'
  BY <1>1, <1>3, <1>4, <1>6, <1>7 DEF LineShapes, Late
<1>9. SaidOnce'
  <2>1. ASSUME NEW k \in DOMAIN wire', NEW l \in DOMAIN wire',
               wire'[k].type = "Say", SayOf(wire'[l], wire'[k].key)
        PROVE  k = l
    <3>1. /\ k \in Int /\ l \in Int /\ k + w \in DOMAIN wire /\ l + w \in DOMAIN wire
          /\ wire'[k] = wire[k + w] /\ wire'[l] = wire[l + w]
      BY <1>3, <2>1 DEF SayOf
    <3>2. k + w = l + w
      BY <1>7, <2>1, <3>1 DEF SaidOnce
    <3>3. k \in Int /\ l \in Int
      BY <3>1
    <3> QED
      BY ONLY <3>2, <3>3, SamePlace
  <2>2. ASSUME NEW k \in DOMAIN cmds, cmds[k].type = "Say"
        PROVE  /\ \A l \in DOMAIN cmds : SayOf(cmds[l], cmds[k].key) => l = k
               /\ \A l \in DOMAIN wire' : ~SayOf(wire'[l], cmds[k].key)
               /\ \A l \in DOMAIN events' : ~MessageOf(events'[l], cmds[k].key)
               /\ lines[cmds[k].key] = <<>>
    <3> DEFINE n == cmds[k].key
    <3>1. /\ \A l \in DOMAIN cmds : SayOf(cmds[l], n) => l = k
          /\ \A l \in DOMAIN wire : ~SayOf(wire[l], n)
          /\ \A l \in DOMAIN events : ~MessageOf(events[l], n)
          /\ lines[n] = <<>>
      BY <1>7, <2>2 DEF SaidOnce
    <3>2. SayOf(cmds[k], n)
      BY <2>2 DEF SayOf
    <3> HIDE DEF n
    <3>3. \A l \in DOMAIN wire' : ~SayOf(wire'[l], n)
      BY <1>3, <3>1 DEF SayOf
    <3>4. ~MessageOf(e, n)
      BY <1>6, <3>2 DEF Late, MessageOf
    <3>5. \A l \in DOMAIN events' : ~MessageOf(events'[l], n)
      BY <1>4, <3>1, <3>4 DEF MessageOf
    <3> QED
      BY <3>1, <3>3, <3>5 DEF n
  <2> QED
    BY <1>1, <2>1, <2>2 DEF SaidOnce, SayOf, MessageOf
<1>10. ASSUME Once' PROVE ShownFits' /\ EchoesDue'
  <2>1. ShownFits /\ EchoesDue
    BY <1>1, <1>10 DEF LinesInv, Once
  <2>2. ASSUME NEW i, e.type = "Joined" => e.channel_index # i
        PROVE  /\ Gone(tabs, events, i) => Gone(tabs, events', i)
               /\ \A c : Means(tabs, events, i, c) => Means(tabs, events', i, c)
    BY <1>4, <2>2 DEF Gone, Means
  <2>3. e.type = "Joined" => Unused(e.channel_index)
    BY <1>5, <1>10 DEF Late
  <2>4. ASSUME NEW k \in DOMAIN events', events'[k].type = "Message"
        PROVE  /\ Means(tabs, events', events'[k].channel_index, typed[events'[k].line])
               /\ Gone(tabs, events', events'[k].channel_index) \/ Unshown(tabs, events', lines, k)
    <3>1. CASE k \notin DOMAIN events
      <4>1. events'[k] = e /\ Late(e) /\ e.type = "Message"
        BY <1>4, <1>6, <2>4, <3>1
      <4>2. Gone(tabs, events', e.channel_index)
        BY <1>10, <2>2, <4>1 DEF Late
      <4> QED
        BY <4>1, <4>2 DEF Gone, Means
    <3>2. CASE k \in DOMAIN events
      <4> DEFINE i == events[k].channel_index
                 n == events[k].line
      <4>1. events'[k] = events[k] /\ events[k].type = "Message"
        BY <1>4, <2>4, <3>2
      <4>2. e.type = "Joined" => e.channel_index # i
        BY <2>3, <3>2, <4>1 DEF Unused
      <4>3. Means(tabs, events, i, typed[n]) /\ (Gone(tabs, events, i) \/ Unshown(tabs, events, lines, k))
        BY <2>1, <3>2, <4>1 DEF ShownFits
      <4>4. ASSUME Unshown(tabs, events, lines, k) PROVE Unshown(tabs, events', lines, k)
        <5>1. ASSUME NEW l \in DOMAIN events', MessageOf(events'[l], n), l # k
              PROVE  Gone(tabs, events', events'[l].channel_index)
          <6>1. CASE l \in DOMAIN events
            <7>1. events'[l] = events[l] /\ Gone(tabs, events, events[l].channel_index)
              BY <1>4, <4>4, <5>1, <6>1 DEF Unshown
            <7>2. e.type = "Joined" => e.channel_index # events[l].channel_index
              BY <2>3, <5>1, <6>1, <7>1 DEF Unused, MessageOf
            <7> QED
              BY <2>2, <7>1, <7>2
          <6>2. CASE l \notin DOMAIN events
            <7>1. events'[l] = e /\ Late(e)
              BY <1>4, <1>6, <5>1, <6>2 DEF MessageOf
            <7> QED
              BY <1>10, <2>2, <7>1 DEF Late
          <6> QED
            BY <6>1, <6>2
        <5> QED
          BY <4>1, <4>4, <5>1 DEF Unshown
      <4> QED
        BY <2>2, <4>1, <4>2, <4>3, <4>4
    <3> QED
      BY <3>1, <3>2
  <2>5. ShownFits'
    BY <1>1, <2>1, <2>4 DEF ShownFits
  <2>6. ASSUME live, NEW k \in DOMAIN cmds, cmds[k].type = "Say"
        PROVE  Means(tabs, events', cmds[k].channel_index, typed[cmds[k].key])
    <3>1. e.type = "Joined" => e.channel_index # cmds[k].channel_index
      BY <2>3, <2>6 DEF Unused
    <3>2. Means(tabs, events, cmds[k].channel_index, typed[cmds[k].key])
      BY <2>1, <2>6 DEF EchoesDue
    <3> QED
      BY <2>2, <3>1, <3>2
  <2>7. ASSUME live, NEW k \in DOMAIN wire', wire'[k].type = "Say"
        PROVE  Gone(tabs, events', wire'[k].channel_index) \/ EchoOf(wire'[k]) \in echoes'
    <3>1. k + w \in DOMAIN wire /\ wire'[k] = wire[k + w]
      BY <1>3, <2>7
    <3>2. e.type = "Joined" => e.channel_index # wire'[k].channel_index
      BY <2>3, <2>7, <3>1 DEF Unused
    <3>3. Gone(tabs, events, wire'[k].channel_index) \/ EchoOf(wire'[k]) \in echoes
      BY <2>1, <2>7, <3>1 DEF EchoesDue
    <3>4. EchoKept(wire'[k])
      BY <1>1, <1>10, <2>7 DEF Hears, EchoesKept
    <3> QED
      BY <2>2, <3>2, <3>3, <3>4 DEF EchoKept
  <2>8. EchoesDue'
    BY <1>1, <2>6, <2>7 DEF EchoesDue, EchoOf
  <2> QED
    BY <2>5, <2>8
<1> QED
  BY <1>8, <1>9, <1>10 DEF LinesInv

-----------------------------------------------------------------------------
(* The steps of the application.                                           *)

\* No tab gets an index, and the queues are as they were but for what is not a line.
Still ==
  /\ UNCHANGED <<typed, lines, events, wire, echoes, live>> /\ slips \subseteq slips' /\ TabsFrom
  /\ cmds' = cmds \/ \E q \in Requests \cup Connects : q.type # "Say" /\ cmds' = Append(cmds, q)

\* Nothing about the lines changes.
LEMMA StillLines ==
  ASSUME IInv, Types', LinesInv, Still
  PROVE  LinesInv'
<1>1. /\ events \in Seq(Events) /\ wire \in Seq(Requests) /\ cmds \in Seq(Requests \cup Connects) /\ Types
  BY DEF IInv, Types, ChatType, ServiceType
<1>2. Follows(events', events, {"Joined", "Message"})
  BY <1>1, FollowsSame DEF Still
<1>3. Follows(wire', wire, {"Say"})
  BY <1>1, FollowsSame DEF Still
<1>4. Follows(cmds', cmds, {"Say"})
  <2>1. CASE cmds' = cmds
    BY <1>1, <2>1, FollowsSame
  <2>2. ASSUME NEW q \in Requests \cup Connects, q.type # "Say", cmds' = Append(cmds, q)
        PROVE  Follows(cmds', cmds, {"Say"})
    <3>1. q.type \notin {"Say"}
      BY <2>2
    <3>2. Follows(Append(cmds, q), cmds, {"Say"})
      BY ONLY <1>1, <3>1, FollowsAppend
    <3> QED
      BY <2>2, <3>2
  <2> QED
    BY <2>1, <2>2 DEF Still
<1>5. \A p \in DOMAIN tabs' : TabKnown(p)
  BY DEF Still, TabsFrom, TabKnown
<1>6. Calm
  BY <1>2, <1>3, <1>4, <1>5 DEF Calm, Still, EchoesKept, EchoKept
<1> QED
  BY <1>1, <1>6, CalmLines

\* JOIN, and the beginning of a close animation.
LEMMA PressLines ==
  ASSUME IInv, Types', LinesInv,
         (\E c \in Channels : join_channel_target(c)) \/ (\E p \in DOMAIN tabs : begin_tab_close(p))
  PROVE  LinesInv'
<1>1. /\ UNCHANGED <<typed, lines, events, wire, echoes, live, slips>>
  BY DEF join_channel_target, begin_tab_close, history, chatVars, serviceVars
<1>2. tabs \in Seq(TabSet) /\ OneTab
  BY DEF IInv, Types, AppType
<1>3. TabsFrom /\ (cmds' = cmds \/ \E q \in Requests \cup Connects : q.type # "Say" /\ cmds' = Append(cmds, q))
  <2>1. CASE tabs' = tabs /\ cmds' = cmds
    BY <2>1 DEF TabsFrom, SameTab
  <2>2. ASSUME NEW c \in Channels, TabOf(c) = 0, tabs' = Append(tabs, pending_live(c)),
               cmds' = Append(cmds, Request("Join", c, 0, 0))
        PROVE  TabsFrom /\ \E q \in Requests \cup Connects : q.type # "Say" /\ cmds' = Append(cmds, q)
    <3> DEFINE t == pending_live(c)
               q == Request("Join", c, 0, 0)
    <3>1. t \in TabSet /\ t.channel = c /\ t.channel_index = 0
      BY NewTabs
    <3>2. \A p \in DOMAIN tabs : tabs[p].channel # c
      BY <1>2, <2>2, NoTabFound
    <3>3. q \in Requests /\ q.type = "Join"
      BY RequestShapes
    <3>4. tabs' = Append(tabs, t) /\ cmds' = Append(cmds, q)
      BY <2>2
    <3> HIDE DEF t, q
    <3>5. TabsFrom
      BY <1>2, <3>1, <3>2, <3>4, TabAdded
    <3> QED
      BY <3>3, <3>4, <3>5
  <2> QED
    BY <2>1, <2>2 DEF join_channel_target, begin_tab_close
<1> QED
  BY <1>1, <1>3, StillLines DEF Still

\* The dialog goes with another product in front, or a tab is carried to another place.
LEMMA DragLines ==
  ASSUME IInv, Types', LinesInv,
         WarningGoesElsewhere \/ \E from, to \in DOMAIN tabs : finish_tab_drag(from, to)
  PROVE  LinesInv'
<1>1. /\ UNCHANGED <<typed, lines, events, wire, echoes, live>> /\ slips \subseteq slips' /\ cmds' = cmds
  BY DEF WarningGoesElsewhere, finish_tab_drag, chatVars, serviceVars
<1>2. tabs \in Seq(TabSet) /\ OneTab
  BY DEF IInv, Types, AppType
<1>3. TabsFrom
  <2>1. CASE tabs' = tabs
    BY <2>1 DEF TabsFrom, SameTab
  <2>2. ASSUME NEW from \in DOMAIN tabs, NEW to \in DOMAIN tabs, finish_tab_drag(from, to) PROVE TabsFrom
    <3>1. from # to /\ tabs' = [p \in DOMAIN tabs |-> tabs[Carried(p, from, to)]]
      BY <2>2 DEF finish_tab_drag
    <3> QED
      BY <1>2, <3>1, DraggedTabs
  <2> QED
    BY <2>1, <2>2 DEF WarningGoesElsewhere
<1> QED
  BY <1>1, <1>3, StillLines DEF Still

\* A tab or a dialog goes, or RECONNECT.
LEMMA CloseLines ==
  ASSUME IInv, Types', LinesInv, begin_warning_close \/ reconnect \/ finish_tab_close
  PROVE  LinesInv'
<1>1. /\ UNCHANGED <<typed, lines, events, wire, echoes, live>> /\ slips \subseteq slips'
  BY DEF begin_warning_close, reconnect, finish_tab_close, history, chatVars, serviceVars
<1>2. /\ tabs \in Seq(TabSet) /\ OneTab /\ tab_close \in Nat /\ cmds \in Seq(Requests \cup Connects)
  BY DEF IInv, Types, AppType, ChatType
<1>3. tabs' = tabs => TabsFrom
  BY DEF TabsFrom, SameTab
<1>4. CASE begin_warning_close
  <2>1. cmds' = cmds
    BY <1>4 DEF begin_warning_close
  <2>2. TabsFrom
    <3>1. CASE warning.close_tab \in DOMAIN tabs
      <4>1. tabs' = WithoutTab(warning.close_tab)
        BY <1>4, <3>1 DEF begin_warning_close
      <4> QED
        BY <1>2, <3>1, <4>1, WithoutTabs
    <3>2. CASE warning.close_tab \notin DOMAIN tabs
      BY <1>3, <1>4, <3>2 DEF begin_warning_close
    <3> QED
      BY <3>1, <3>2
  <2> QED
    BY <1>1, <2>1, <2>2, StillLines DEF Still
<1>5. CASE reconnect
  <2> DEFINE open == [p \in DOMAIN tabs |-> tabs[p].channel]
             q == Connect(open)
  <2>1. tabs' = tabs /\ cmds' = Append(cmds, q)
    BY <1>5 DEF reconnect
  <2>2. q \in Connects /\ q.type = "Connect"
    <3>1. \A p \in 1 .. Len(tabs) : tabs[p].channel \in Channels
      BY <1>2, TabTypes
    <3>2. open \in Seq(Channels)
      BY <1>2, <3>1
    <3> QED
      BY <3>2 DEF Connects, Connect
  <2> HIDE DEF q
  <2> QED
    BY <1>1, <1>3, <2>1, <2>2, StillLines DEF Still
<1>6. CASE finish_tab_close
  <2>1. CASE tab_close > Len(tabs)
    <3>1. tabs' = tabs /\ cmds' = cmds
      BY <1>6, <2>1 DEF finish_tab_close
    <3> QED
      BY <1>1, <1>3, <3>1, StillLines DEF Still
  <2>2. CASE ~(tab_close > Len(tabs))
    <3>1. tab_close \in DOMAIN tabs
      <4>1. Len(tabs) \in Nat /\ DOMAIN tabs = 1 .. Len(tabs) /\ tab_close # 0
        BY <1>2, <1>6 DEF finish_tab_close
      <4> QED
        BY <1>2, <2>2, <4>1
    <3> DEFINE i == tabs[tab_close].channel_index
               q == Request("Leave", NoChannel, i, 0)
    <3>2. tabs' = RemoveAt(tabs, tab_close) /\ cmds' = IF i = 0 THEN cmds ELSE Append(cmds, q)
      BY <1>6, <2>2 DEF finish_tab_close
    <3>3. TabsFrom
      BY <1>2, <3>1, <3>2, TabRemoved
    <3>4. i # 0 => q \in Requests /\ q.type = "Leave"
      BY <1>2, <3>1, TabTypes, RequestShapes
    <3> HIDE DEF q
    <3>5. cmds' = cmds \/ \E r \in Requests \cup Connects : r.type # "Say" /\ cmds' = Append(cmds, r)
      BY <3>2, <3>4
    <3> QED
      BY <1>1, <3>3, <3>5, StillLines DEF Still
  <2> QED
    BY <2>1, <2>2
<1> QED
  BY <1>4, <1>5, <1>6

\* A join is given up, or the rosters are drawn.
LEMMA TimerLines ==
  ASSUME IInv, Types', LinesInv, expire_awaited_joins \/ flush_rosters
  PROVE  LinesInv'
<1>1. CASE expire_awaited_joins
  <2>1. PICK c : /\ reject_pending_join(c)
                 /\ UNCHANGED <<cmds, events, chatVars, serviceVars, typed, lines>>
    BY <1>1 DEF expire_awaited_joins
  <2>2. TabsFrom /\ slips \subseteq slips'
    BY <2>1, RejectedTabs DEF IInv
  <2> QED
    BY <2>1, <2>2, StillLines DEF Still, chatVars, serviceVars
<1>2. CASE flush_rosters
  <2>1. UNCHANGED <<cmds, events, wire, echoes, live, typed, lines, slips>>
    BY <1>2 DEF flush_rosters, history, chatVars, serviceVars
  <2>2. tabs \in Seq(TabSet) /\ DOMAIN tabs' = DOMAIN tabs
    BY <1>2 DEF IInv, Types, AppType, flush_rosters
  <2>3. ASSUME NEW p \in DOMAIN tabs
        PROVE  SameTab(p, p)
    <3> DEFINE i == tabs[p].channel_index
               t == tabs[p]
    <3>1. t \in TabSet
      BY <2>2
    <3>2. CASE tabs'[p] = apply_roster_snapshot(tabs[p], i)
      <4>1. tabs'[p] = [t EXCEPT !.users = pending_rosters[i].users, !.complete = pending_rosters[i].complete]
        BY <3>2 DEF apply_roster_snapshot
      <4> HIDE DEF t
      <4>2. tabs'[p].channel = t.channel /\ tabs'[p].channel_index = t.channel_index
        BY <3>1, <4>1 DEF TabSet
      <4> QED
        BY <4>2 DEF SameTab, t
    <3>3. CASE tabs'[p] = tabs[p]
      BY <3>3 DEF SameTab
    <3> QED
      BY <1>2, <3>2, <3>3 DEF flush_rosters
  <2>4. TabsFrom
    BY <2>2, <2>3 DEF TabsFrom
  <2> QED
    BY <2>1, <2>4, StillLines DEF Still
<1> QED
  BY <1>1, <1>2

\* SEND: the tab's index means its channel, and nothing has the line's key yet.
LEMMA SendLines ==
  ASSUME IInv, LinesInv, NEW p \in DOMAIN tabs, send_message(p)
  PROVE  LinesInv'
<1> DEFINE i == tabs[p].channel_index
           c == tabs[p].channel
           n == Len(typed) + 1
           q == Request("Say", NoChannel, i, n)
<1>1. /\ UNCHANGED <<tabs, events, wire, echoes, live, slips>>
      /\ connecting = "no" /\ i # 0
      /\ typed' = Append(typed, c) /\ lines' = Append(lines, <<>>) /\ cmds' = Append(cmds, q)
  BY DEF send_message, CanPress, appVars, chatVars, serviceVars
<1>2. /\ typed \in Seq(Channels) /\ cmds \in Seq(Requests \cup Connects) /\ tabs \in Seq(TabSet)
      /\ lines \in Seq(Seq(Channels)) /\ Len(lines) = Len(typed) /\ LineShapes /\ SaidOnce
  BY DEF IInv, Types, LineType, ChatType, AppType, LinesInv, LineShapes
<1>3. i \in Indices /\ c \in Channels /\ n \in Nat
  BY <1>1, <1>2, TabTypes
<1>4. q \in Requests /\ q.type = "Say" /\ q.key = n /\ q.channel_index = i
  BY <1>3, RequestShapes
<1>5. /\ \A m \in DOMAIN typed : m \in DOMAIN typed' /\ typed'[m] = typed[m]
      /\ n \in DOMAIN typed' /\ typed'[n] = c /\ n \notin DOMAIN typed
      /\ \A m \in DOMAIN typed' : m \in DOMAIN typed \/ m = n
      /\ Len(typed') = n
  <2>1. /\ Append(typed, c) \in Seq(Channels) /\ Len(Append(typed, c)) = Len(typed) + 1 /\ Len(typed) \in Nat
        /\ DOMAIN Append(typed, c) = 1 .. Len(typed) + 1
        /\ \A k \in DOMAIN typed : Append(typed, c)[k] = typed[k]
        /\ Append(typed, c)[Len(typed) + 1] = c
        /\ \A k \in DOMAIN Append(typed, c) : k \in DOMAIN typed \/ k = Len(typed) + 1
    BY <1>2, <1>3, AppendPlaces
  <2> QED
    BY <1>1, <1>2, <2>1
<1>6. /\ \A m \in DOMAIN lines : lines'[m] = lines[m]
      /\ \A m \in DOMAIN lines' : m \in DOMAIN lines \/ lines'[m] = <<>>
      /\ lines'[n] = <<>> /\ lines' \in Seq(Seq(Channels)) /\ Len(lines') = n
      /\ DOMAIN lines = DOMAIN typed
  <2> DEFINE none == <<>>
  <2>1. none \in Seq(Channels)
    BY EmptySeq
  <2> HIDE DEF none
  <2>2. /\ Append(lines, none) \in Seq(Seq(Channels)) /\ Len(Append(lines, none)) = Len(lines) + 1
        /\ \A k \in DOMAIN lines : Append(lines, none)[k] = lines[k]
        /\ Append(lines, none)[Len(lines) + 1] = none
        /\ \A k \in DOMAIN Append(lines, none) : k \in DOMAIN lines \/ k = Len(lines) + 1
    BY <1>2, <2>1, AppendPlaces
  <2>3. lines' = Append(lines, none)
    BY <1>1 DEF none
  <2>4. DOMAIN lines = DOMAIN typed
    BY <1>2
  <2> QED
    BY <1>2, <2>2, <2>3, <2>4 DEF none
<1> HIDE DEF q, n
<1>7. /\ \A k \in DOMAIN cmds : cmds'[k] = cmds[k]
      /\ \A k \in DOMAIN cmds' : k \in DOMAIN cmds \/ (k = Len(cmds) + 1 /\ cmds'[k] = q)
  BY <1>1, <1>2, <1>4, AppendPlaces
<1>8. LineShapes'
  BY <1>1, <1>2, <1>4, <1>5, <1>6, <1>7 DEF LineShapes
<1>9. ASSUME NEW k \in DOMAIN cmds', cmds'[k].type = "Say"
      PROVE  /\ \A l \in DOMAIN cmds' : SayOf(cmds'[l], cmds'[k].key) => l = k
             /\ \A l \in DOMAIN wire : ~SayOf(wire[l], cmds'[k].key)
             /\ \A l \in DOMAIN events : ~MessageOf(events[l], cmds'[k].key)
             /\ lines'[cmds'[k].key] = <<>>
  <2>1. CASE k \in DOMAIN cmds
    <3> DEFINE m == cmds[k].key
    <3>1. cmds'[k] = cmds[k] /\ cmds[k].type = "Say"
      BY <1>7, <1>9, <2>1
    <3>2. /\ \A l \in DOMAIN cmds : SayOf(cmds[l], m) => l = k
          /\ \A l \in DOMAIN wire : ~SayOf(wire[l], m)
          /\ \A l \in DOMAIN events : ~MessageOf(events[l], m)
          /\ lines[m] = <<>> /\ m \in DOMAIN typed
      BY <1>2, <2>1, <3>1 DEF SaidOnce, LineShapes
    <3>3. m # n /\ lines'[m] = <<>>
      BY <1>5, <1>6, <3>2
    <3> HIDE DEF m
    <3>4. \A l \in DOMAIN cmds' : SayOf(cmds'[l], m) => l = k
      BY <1>4, <1>7, <3>2, <3>3 DEF SayOf
    <3> QED
      BY <3>1, <3>2, <3>3, <3>4 DEF m
  <2>2. CASE k \notin DOMAIN cmds
    <3>1. k = Len(cmds) + 1 /\ cmds'[k] = q /\ cmds'[k].key = n
      BY <1>4, <1>7, <2>2
    <3>2. \A l \in DOMAIN cmds' : SayOf(cmds'[l], n) => l = k
      BY <1>2, <1>5, <1>7, <3>1 DEF SayOf, LineShapes
    <3>3. /\ \A l \in DOMAIN wire : ~SayOf(wire[l], n)
          /\ \A l \in DOMAIN events : ~MessageOf(events[l], n)
      BY <1>2, <1>5 DEF SayOf, MessageOf, LineShapes
    <3> QED
      BY <1>6, <3>1, <3>2, <3>3
  <2> QED
    BY <2>1, <2>2
<1>10. SaidOnce'
  BY <1>1, <1>2, <1>9 DEF SaidOnce, SayOf, MessageOf
<1>11. ~Has(events, "WebAuthentication")
  BY <1>1 DEF IInv, Course, StageFirst, Shut, Has
<1>12. ASSUME Once' PROVE ShownFits' /\ EchoesDue'
  <2>1. ShownFits /\ EchoesDue /\ (live => Held)
    BY <1>1, <1>12 DEF LinesInv, IInv, Once, Sound
  <2>2. live => Means(tabs, events, i, c)
    BY <1>1, <1>11, <2>1 DEF Held, TabsOpen, Means
  <2>3. \A m \in DOMAIN lines' : lines'[m] \in {<<>>, <<typed'[m]>>}
    BY <1>5, <1>6, <2>1 DEF ShownFits
  <2>4. ASSUME NEW k \in DOMAIN events, events[k].type = "Message"
        PROVE  /\ Means(tabs, events, events[k].channel_index, typed'[events[k].line])
               /\ Gone(tabs, events, events[k].channel_index) \/ Unshown(tabs, events, lines', k)
    <3>1. events[k].line \in DOMAIN typed
      BY <1>2, <2>4 DEF LineShapes
    <3>2. typed'[events[k].line] = typed[events[k].line] /\ lines'[events[k].line] = lines[events[k].line]
      BY <1>5, <1>6, <3>1
    <3> QED
      BY <2>1, <2>4, <3>2 DEF ShownFits, Unshown
  <2>5. ShownFits'
    BY <1>1, <2>3, <2>4 DEF ShownFits
  <2>6. ASSUME live, NEW k \in DOMAIN cmds', cmds'[k].type = "Say"
        PROVE  Means(tabs, events, cmds'[k].channel_index, typed'[cmds'[k].key])
    <3>1. CASE k \in DOMAIN cmds
      <4>1. cmds'[k] = cmds[k] /\ cmds[k].key \in DOMAIN typed
        BY <1>2, <1>7, <2>6, <3>1 DEF LineShapes
      <4> QED
        BY <1>5, <2>1, <2>6, <3>1, <4>1 DEF EchoesDue
    <3>2. CASE k \notin DOMAIN cmds
      BY <1>4, <1>5, <1>7, <2>2, <2>6, <3>2
    <3> QED
      BY <3>1, <3>2
  <2>7. EchoesDue'
    BY <1>1, <2>1, <2>6 DEF EchoesDue, EchoOf
  <2> QED
    BY <2>5, <2>7
<1> QED
  BY <1>8, <1>10, <1>12 DEF LinesInv

\* The place that Position finds.
LEMMA PlaceFound ==
  ASSUME tabs \in Seq(TabSet), NEW i
  PROVE  Position(i) = 0 \/ (Position(i) \in DOMAIN tabs /\ tabs[Position(i)].channel_index = i)
<1> DEFINE all == {k \in 1 .. Len(tabs) : tabs[k].channel_index = i}
<1>1. Position(i) = IF all # {} THEN Min(all) ELSE 0
  BY DEF Position, SelectInSeq
<1>2. all \in SUBSET Nat
  OBVIOUS
<1>3. all # {} => Min(all) \in all
  <2> HIDE DEF all
  <2> QED
    BY <1>2, MinIsMember
<1> QED
  BY <1>1, <1>3

\* An event that shows no line.
LEMMA HandledLines ==
  ASSUME IInv, Types', LinesInv, Handles, lines' = lines, slips \subseteq slips',
         \A p \in DOMAIN tabs' : TabKnown(p)
  PROVE  LinesInv'
<1>1. /\ events \in Seq(Events) /\ wire \in Seq(Requests) /\ cmds \in Seq(Requests \cup Connects) /\ Types
  BY DEF IInv, Types, ChatType, ServiceType
<1>2. /\ events # <<>> /\ events' = Tail(events) /\ typed' = typed
      /\ UNCHANGED <<cmds, wire, echoes, live>>
  BY DEF Handles, chatVars, serviceVars
<1>3. Follows(events', events, {"Joined", "Message"})
  BY <1>1, <1>2, FollowsTail
<1>4. Follows(wire', wire, {"Say"}) /\ Follows(cmds', cmds, {"Say"})
  BY <1>1, <1>2, FollowsSame
<1>5. Calm
  BY <1>2, <1>3, <1>4 DEF Calm, EchoesKept, EchoKept
<1> QED
  BY <1>1, <1>5, CalmLines

\* A line is shown in the tab of its index, which means the tab it was typed into,
\* when it has not been shown; no other event can show it again.
LEMMA ShowLines ==
  ASSUME IInv, Types', LinesInv, Handles, Head(events).type = "Message", OnMessage(Head(events))
  PROVE  LinesInv'
<1> DEFINE i == events[1].channel_index
           n == events[1].line
           p == Position(i)
           c == tabs[p].channel
<1>1. /\ events \in Seq(Events) /\ wire \in Seq(Requests) /\ cmds \in Seq(Requests \cup Connects) /\ Types
      /\ tabs \in Seq(TabSet) /\ typed \in Seq(Channels) /\ LineShapes /\ SaidOnce
  BY DEF IInv, Types, ChatType, ServiceType, AppType, LineType, LinesInv
<1>2. /\ events # <<>> /\ events' = Tail(events) /\ typed' = typed
      /\ UNCHANGED <<cmds, wire, echoes, live>>
  BY DEF Handles, chatVars, serviceVars
<1>3. /\ Head(events) = events[1] /\ 1 \in DOMAIN events /\ events[1].type = "Message"
      /\ \A k \in DOMAIN events' : k \in Nat \ {0} /\ k + 1 \in DOMAIN events /\ events'[k] = events[k + 1]
  BY <1>1, Taken DEF Handles
<1>4. tabs' = tabs /\ slips' = slips /\ lines' = IF p = 0 THEN lines ELSE [lines EXCEPT ![n] = Append(@, c)]
  BY <1>3 DEF OnMessage
<1>5. i \in Indices /\ n \in DOMAIN typed /\ DOMAIN lines = DOMAIN typed
  BY <1>1, <1>3 DEF LineShapes
<1>6. CASE p = 0
  <2>1. \A q \in DOMAIN tabs' : TabKnown(q)
    BY <1>4 DEF TabKnown, SameTab
  <2> QED
    BY <1>4, <1>6, <2>1, HandledLines
<1>7. CASE p # 0
  <2>1. p \in DOMAIN tabs /\ tabs[p].channel_index = i
    BY <1>1, <1>7, PlaceFound
  <2>2. c \in Channels
    BY <1>1, <2>1, TabTypes
  <2> HIDE DEF i, n, p, c
  <2> DEFINE shown == Append(lines[n], c)
  <2>3. lines \in Seq(Seq(Channels)) /\ lines[n] \in Seq(Channels)
    BY <1>1, <1>5 DEF LineShapes
  <2>4. shown \in Seq(Channels) /\ (lines[n] = <<>> => shown = <<c>>)
    <3> DEFINE s == lines[n]
    <3>1. s \in Seq(Channels) /\ c \in Channels
      BY <2>2, <2>3
    <3> HIDE DEF s
    <3>2. Append(s, c) \in Seq(Channels)
      BY ONLY <3>1, AppendPlaces
    <3>3. Append(<<>>, c) = <<c>>
      OBVIOUS
    <3>4. s = <<>> => Append(s, c) = <<c>>
      BY ONLY <3>3
    <3> QED
      BY <3>2, <3>4 DEF s
  <2>5. lines' = [lines EXCEPT ![n] = shown]
    BY <1>4, <1>7
  <2> HIDE DEF shown
  <2>6. /\ lines' \in Seq(Seq(Channels)) /\ Len(lines') = Len(lines) /\ DOMAIN lines' = DOMAIN lines
        /\ lines'[n] = shown /\ \A m \in DOMAIN lines : m # n => lines'[m] = lines[m]
    <3>1. /\ [lines EXCEPT ![n] = shown] \in Seq(Seq(Channels))
          /\ Len([lines EXCEPT ![n] = shown]) = Len(lines)
          /\ \A j \in 1 .. Len(lines) : [lines EXCEPT ![n] = shown][j] = IF j = n THEN shown ELSE lines[j]
      BY <1>5, <2>3, <2>4, ExceptSeq
    <3>2. DOMAIN [lines EXCEPT ![n] = shown] = DOMAIN lines
      OBVIOUS
    <3>3. n \in DOMAIN lines /\ DOMAIN lines = 1 .. Len(lines)
      BY <1>5, <2>3
    <3> QED
      BY <2>5, <3>1, <3>2, <3>3
  <2>7. LineShapes'
    BY <1>1, <1>2, <1>3, <2>6 DEF LineShapes
  <2>8. SaidOnce'
    <3>1. ASSUME NEW k \in DOMAIN cmds, cmds[k].type = "Say"
          PROVE  /\ lines'[cmds[k].key] = <<>>
                 /\ \A l \in DOMAIN events' : ~MessageOf(events'[l], cmds[k].key)
      <4>1. /\ \A l \in DOMAIN events : ~MessageOf(events[l], cmds[k].key)
            /\ lines[cmds[k].key] = <<>> /\ cmds[k].key \in DOMAIN typed
        BY <1>1, <3>1 DEF SaidOnce, LineShapes
      <4>2. cmds[k].key # n
        BY <1>3, <4>1 DEF MessageOf, n
      <4> QED
        BY <1>3, <1>5, <2>6, <4>1, <4>2 DEF MessageOf
    <3> QED
      BY <1>1, <1>2, <3>1 DEF SaidOnce, SayOf, MessageOf
  <2>9. ASSUME Once' PROVE ShownFits' /\ EchoesDue'
    <3>1. ShownFits /\ EchoesDue
      BY <1>4, <2>9 DEF LinesInv, Once
    <3>2. Means(tabs, events, i, typed[n]) /\ (Gone(tabs, events, i) \/ Unshown(tabs, events, lines, 1))
      BY <1>3, <3>1 DEF ShownFits, i, n
    <3>3. c = typed[n] /\ Unshown(tabs, events, lines, 1)
      BY <2>1, <3>2 DEF Means, Gone, c
    <3>4. lines'[n] = <<typed[n]>>
      BY <2>4, <2>6, <3>3 DEF Unshown, n
    <3>5. \A j : /\ Gone(tabs, events, j) => Gone(tabs, events', j)
                 /\ \A d : Means(tabs, events, j, d) => Means(tabs, events', j, d)
      BY <1>3 DEF Gone, Means
    <3>6. \A m \in DOMAIN lines' : lines'[m] \in {<<>>, <<typed[m]>>}
      BY <2>6, <3>1, <3>4 DEF ShownFits
    <3>7. ASSUME NEW k \in DOMAIN events', events'[k].type = "Message"
          PROVE  /\ Means(tabs, events', events'[k].channel_index, typed[events'[k].line])
                 /\ Gone(tabs, events', events'[k].channel_index) \/ Unshown(tabs, events', lines', k)
      <4> DEFINE l == k + 1
                 j == events'[k].channel_index
                 m == events'[k].line
      <4>1. l \in DOMAIN events /\ events'[k] = events[l] /\ events[l].type = "Message" /\ l # 1 /\ k \in Nat
        BY <1>3, <3>7
      <4>2. Means(tabs, events, j, typed[m]) /\ (Gone(tabs, events, j) \/ Unshown(tabs, events, lines, l))
        BY <3>1, <4>1 DEF ShownFits
      <4>3. CASE m = n
        <5>1. Gone(tabs, events, j)
          BY <3>3, <4>1, <4>3 DEF Unshown, MessageOf, n
        <5> QED
          BY <3>5, <4>2, <5>1
      <4>4. ASSUME m # n, Unshown(tabs, events, lines, l)
            PROVE  Unshown(tabs, events', lines', k)
        <5>1. lines[m] = <<>> /\ \A r \in DOMAIN events : MessageOf(events[r], m) /\ r # l => Gone(tabs, events, events[r].channel_index)
          BY <4>1, <4>4 DEF Unshown
        <5>2. m \in DOMAIN lines
          BY <1>1, <1>5, <4>1 DEF LineShapes
        <5>3. lines'[m] = <<>>
          BY <2>6, <4>4, <5>1, <5>2
        <5>4. ASSUME NEW r \in DOMAIN events', MessageOf(events'[r], m), r # k
              PROVE  Gone(tabs, events', events'[r].channel_index)
          <6>1. r \in Nat /\ r + 1 \in DOMAIN events /\ events'[r] = events[r + 1]
            BY <1>3
          <6>2. r + 1 # l
            BY <4>1, <5>4, <6>1
          <6> QED
            BY <3>5, <5>1, <5>4, <6>1, <6>2
        <5> QED
          BY <5>3, <5>4 DEF Unshown
      <4> QED
        BY <3>5, <4>2, <4>3, <4>4
    <3>8. ShownFits'
      BY <1>2, <1>4, <3>6, <3>7 DEF ShownFits
    <3>9. EchoesDue'
      BY <1>2, <1>4, <3>1, <3>5 DEF EchoesDue
    <3> QED
      BY <3>8, <3>9
  <2> QED
    BY <2>7, <2>8, <2>9 DEF LinesInv
<1> QED
  BY <1>6, <1>7

\* An event of the application, whichever it is.
LEMMA HandleLines ==
  ASSUME IInv, Types', LinesInv, handle_client_event
  PROVE  LinesInv'
<1> DEFINE e == Head(events)
<1>1. Handles
  BY DEF handle_client_event, Handles
<1>2. /\ e \in Events /\ e = events[1] /\ 1 \in DOMAIN events /\ Types
      /\ tabs \in Seq(TabSet) /\ OneTab
  BY <1>1, Taken DEF Handles, IInv, Types, ChatType, AppType
<1>3. e.type \in {"Joined", "JoinRejected", "Roster", "Removed", "Message"} \cup StageNames
  BY <1>2 DEF Events
<1>4. CASE e.type = "Joined"
  <2> DEFINE i == e.channel_index
             c == e.channel
  <2>1. OnJoined(e)
    BY <1>4 DEF handle_client_event
  <2>2. /\ tabs' = IF TabOf(c) = 0 THEN Append(tabs, Tab(c, i))
                   ELSE [tabs EXCEPT ![TabOf(c)].channel_index = i]
        /\ slips \subseteq slips' /\ lines' = lines
    BY <2>1 DEF OnJoined
  <2>3. i \in Indices /\ c \in Channels /\ events[1].type = "Joined"
    BY <1>2, <1>4 DEF Events
  <2>4. events[1].channel_index = i /\ events[1].channel = c
    BY <1>2
  <2> HIDE DEF i, c
  <2>5. \A p \in DOMAIN tabs' : JoinedTab(p, i, c) \/ OtherTab(p, c)
    BY <1>2, <2>2, <2>3, JoinedTabs
  <2>6. \A p \in DOMAIN tabs' : TabKnown(p)
    BY <1>2, <2>3, <2>4, <2>5 DEF TabKnown, JoinedTab, OtherTab
  <2> QED
    BY <1>1, <2>2, <2>6, HandledLines
<1>5. CASE e.type = "JoinRejected"
  <2>1. reject_pending_join(e.channel) /\ lines' = lines
    BY <1>5 DEF handle_client_event, OnJoinRejected
  <2>2. TabsFrom /\ slips \subseteq slips'
    BY <1>2, <2>1, RejectedTabs
  <2>3. \A p \in DOMAIN tabs' : TabKnown(p)
    BY <2>2 DEF TabsFrom, TabKnown
  <2> QED
    BY <1>1, <2>1, <2>2, <2>3, HandledLines
<1>6. CASE e.type \in {"Roster", "Removed"}
  <2>1. tabs' = tabs /\ lines' = lines /\ slips \subseteq slips'
    BY <1>6 DEF handle_client_event, OnRoster, OnRemoved
  <2>2. \A p \in DOMAIN tabs' : TabKnown(p)
    BY <2>1 DEF TabKnown, SameTab
  <2> QED
    BY <1>1, <2>1, <2>2, HandledLines
<1>7. CASE e.type = "Message"
  <2>1. OnMessage(e)
    BY <1>7 DEF handle_client_event
  <2> QED
    BY <1>1, <1>7, <2>1, ShowLines
<1>8. CASE e.type \in StageNames
  <2>1. OnStage(e)
    BY <1>8 DEF handle_client_event, StageNames
  <2>2. (tabs' = tabs \/ tabs' = <<>>) /\ lines' = lines /\ slips \subseteq slips'
    BY <2>1 DEF OnStage
  <2>3. \A p \in DOMAIN tabs' : TabKnown(p)
    BY <2>2 DEF TabKnown, SameTab
  <2> QED
    BY <1>1, <2>2, <2>3, HandledLines
<1> QED
  BY <1>3, <1>4, <1>5, <1>6, <1>7, <1>8

-----------------------------------------------------------------------------
(* The steps of the worker and of the service.                             *)

\* A step of them that moves no tab and sends or shows no line.
LEMMA WorkLines ==
  ASSUME IInv, Types', LinesInv, UNCHANGED <<tabs, typed, lines>>, slips \subseteq slips',
         cmds' = cmds \/ (cmds # <<>> /\ cmds' = Tail(cmds)), live' => live,
         Follows(events', events, {"Joined", "Message"}), Follows(wire', wire, {"Say"}), EchoesKept
  PROVE  LinesInv'
<1>1. cmds \in Seq(Requests \cup Connects) /\ Types
  BY DEF IInv, Types, ChatType
<1>2. Follows(cmds', cmds, {"Say"})
  BY <1>1, FollowsSame, FollowsTail
<1>3. \A p \in DOMAIN tabs' : TabKnown(p)
  BY DEF TabKnown, SameTab
<1>4. Calm
  BY <1>2, <1>3 DEF Calm
<1> QED
  BY <1>1, <1>4, CalmLines

\* Nothing is on its way any more.
LEMMA FollowsNothing == \A t, types : Follows(<<>>, t, types)
<1>1. DOMAIN <<>> = {}
  OBVIOUS
<1> QED
  BY <1>1 DEF Follows, Brought

\* A stage is told, which is no line.
LEMMA StageFollows ==
  ASSUME events \in Seq(Events), NEW s \in StageNames, events' = events \o <<Stage(s)>>
  PROVE  Follows(events', events, {"Joined", "Message"})
<1> DEFINE e == Stage(s)
           es == <<e>>
<1>1. e \in Events /\ e.type \notin {"Joined", "Message"}
  BY EventShapes, EventFields DEF StageNames
<1> HIDE DEF e
<1>2. es \in Seq(Events) /\ \A k \in DOMAIN es : es[k].type \notin {"Joined", "Message"}
  BY <1>1
<1>3. events' = events \o es
  BY DEF e
<1> HIDE DEF es
<1> QED
  BY <1>2, <1>3, FollowsConcat

\* The connection ends.
LEMMA EndsLines ==
  ASSUME IInv, Types', LinesInv, Ends, UNCHANGED <<tabs, typed, lines>>, slips \subseteq slips',
         cmds' = cmds \/ (cmds # <<>> /\ cmds' = Tail(cmds))
  PROVE  LinesInv'
<1>1. live' = FALSE /\ wire' = <<>> /\ events' = events \o <<Stage("Error")>>
  BY DEF Ends, Emit
<1>2. events \in Seq(Events) /\ "Error" \in StageNames
  BY DEF IInv, Types, ChatType, StageNames
<1>3. Follows(events', events, {"Joined", "Message"})
  BY <1>1, <1>2, StageFollows
<1>4. Follows(wire', wire, {"Say"})
  BY <1>1, FollowsNothing
<1>5. EchoesKept
  BY <1>1 DEF EchoesKept
<1> QED
  BY <1>1, <1>3, <1>4, <1>5, WorkLines

\* A join is sent on.
LEMMA RunJoinLines ==
  ASSUME IInv, Types', LinesInv, run_live, ChatJoin(Head(cmds).channel), Head(cmds).type = "Join"
  PROVE  LinesInv'
<1> DEFINE w == Request("Join", Head(cmds).channel, 0, last_token + 1)
<1>1. /\ live /\ cmds # <<>> /\ cmds' = Tail(cmds) /\ Head(cmds) \in Requests
      /\ UNCHANGED <<tabs, typed, lines>>
      /\ events \in Seq(Events) /\ wire \in Seq(Requests) /\ Types
  BY RunLiveKeeps DEF run_live, appVars
<1>2. w \in Requests /\ w.type = "Join"
  BY <1>1, RequestShapes DEF Types, ChatType
<1>3. UNCHANGED <<events, live, echoes, slips>> /\ wire' = Append(wire, w)
  BY DEF ChatJoin
<1> HIDE DEF w
<1>4. w.type \notin {"Say"}
  BY <1>2
<1>5. Follows(wire', wire, {"Say"})
  BY <1>1, <1>2, <1>3, <1>4, FollowsAppend
<1>6. Follows(events', events, {"Joined", "Message"})
  BY <1>1, <1>3, FollowsSame
<1>7. EchoesKept
  BY <1>3 DEF EchoesKept, EchoKept
<1> QED
  BY <1>1, <1>3, <1>5, <1>6, <1>7, WorkLines

\* A leave is sent on: the echoes of the channel are not expected any more, and no
\* tab can show its lines.
LEMMA RunLeaveLines ==
  ASSUME IInv, Types', LinesInv, run_live, leave_channel(Head(cmds).channel_index), Head(cmds).type = "Leave"
  PROVE  LinesInv'
<1> DEFINE i == Head(cmds).channel_index
           w == Request("Leave", NoChannel, i, 0)
<1>1. /\ live /\ cmds # <<>> /\ cmds' = Tail(cmds) /\ Head(cmds) \in Requests
      /\ UNCHANGED <<tabs, typed, lines>>
      /\ events \in Seq(Events) /\ wire \in Seq(Requests) /\ Types
  BY RunLiveKeeps DEF run_live, appVars
<1>2. i \in Indices
  BY <1>1, RequestShapes
<1>3. w \in Requests /\ w.type = "Leave" /\ w.type \notin {"Say"} /\ w.channel_index = i
  BY <1>2, RequestShapes
<1> HIDE DEF w
<1>4. CASE channels[i].there
  <2>1. /\ wire' = Append(wire, w) /\ UNCHANGED <<events, live, slips>>
        /\ echoes' = {e \in echoes : e.channel_index # i}
    BY <1>4 DEF leave_channel, w
  <2>2. Follows(wire', wire, {"Say"})
    BY <1>1, <1>3, <2>1, FollowsAppend
  <2>3. Follows(events', events, {"Joined", "Message"})
    BY <1>1, <2>1, FollowsSame
  <2>4. Once' => Gone(tabs, events, i)
    <3>1. Once' => LeftForGood
      BY <1>1, <2>1 DEF Once, Sound, IInv, Held
    <3>2. Head(cmds) = cmds[1] /\ 1 \in DOMAIN cmds
      BY <1>1, TailPlaces DEF Types, ChatType
    <3> QED
      BY <3>1, <3>2 DEF LeftForGood, Gone
  <2> HIDE DEF i
  <2>5. EchoesKept
    BY <2>1, <2>4 DEF EchoesKept, EchoKept, EchoOf
  <2> QED
    BY <1>1, <2>1, <2>2, <2>3, <2>5, WorkLines
<1>5. CASE ~channels[i].there
  <2>1. Ends /\ UNCHANGED slips
    BY <1>5 DEF leave_channel
  <2> QED
    BY <1>1, <2>1, EndsLines
<1> QED
  BY <1>4, <1>5

\* A line is sent on and shown at once, and its echo is expected from then on.
Prompts(i, n) ==
  /\ live /\ live' /\ UNCHANGED <<tabs, typed, lines>> /\ slips \subseteq slips'
  /\ cmds # <<>> /\ cmds' = Tail(cmds) /\ SayOf(cmds[1], n) /\ cmds[1].channel_index = i
  /\ events' = events \o <<Message(i, n)>> /\ Message(i, n) \in Events
  /\ \E w \in Requests : /\ w.type = "Say" /\ w.key = n /\ w.channel_index = i
                         /\ wire' = Append(wire, w)
  /\ Once' => echoes' = echoes \cup {[channel_index |-> i, line |-> n]}

\* It was on no way before, and no tab but the one it was typed into can show it.
LEMMA SendsLines ==
  ASSUME IInv, LinesInv, NEW i \in Indices, NEW n, Prompts(i, n)
  PROVE  LinesInv'
<1> DEFINE e == Message(i, n)
<1>1. /\ events \in Seq(Events) /\ wire \in Seq(Requests) /\ cmds \in Seq(Requests \cup Connects)
      /\ LineShapes /\ SaidOnce
  BY DEF IInv, Types, ChatType, ServiceType, LinesInv
<1>2. /\ live /\ live' /\ tabs' = tabs /\ typed' = typed /\ lines' = lines /\ slips \subseteq slips'
      /\ cmds # <<>> /\ cmds' = Tail(cmds) /\ cmds[1].type = "Say" /\ cmds[1].key = n
      /\ cmds[1].channel_index = i /\ events' = events \o <<e>> /\ e \in Events
  BY DEF Prompts, SayOf
<1>3. PICK w \in Requests : w.type = "Say" /\ w.key = n /\ w.channel_index = i /\ wire' = Append(wire, w)
  BY DEF Prompts
<1>4. e.type = "Message" /\ e.channel_index = i /\ e.line = n
  BY DEF Message, Event
<1> HIDE DEF e
<1>5. /\ \A k \in DOMAIN events : k \in DOMAIN events' /\ events'[k] = events[k]
      /\ \A k \in DOMAIN events' : (k \in DOMAIN events /\ events'[k] = events[k])
                                     \/ (k \notin DOMAIN events /\ events'[k] = e)
      /\ \A k, l \in DOMAIN events' : k \notin DOMAIN events /\ l \notin DOMAIN events => k = l
  BY <1>1, <1>2, HeardEvents
<1>6. 1 \in DOMAIN cmds /\ \A k \in DOMAIN cmds' : k + 1 \in DOMAIN cmds /\ cmds'[k] = cmds[k + 1] /\ k \in Nat \ {0}
  BY <1>1, <1>2, TailPlaces
<1>7. /\ \A k \in DOMAIN wire : wire'[k] = wire[k]
      /\ \A k \in DOMAIN wire' : (k \in DOMAIN wire /\ wire'[k] = wire[k]) \/ (k = Len(wire) + 1 /\ wire'[k] = w)
  <2>1. /\ \A k \in DOMAIN wire : Append(wire, w)[k] = wire[k]
        /\ Append(wire, w)[Len(wire) + 1] = w
        /\ \A k \in DOMAIN Append(wire, w) : k \in DOMAIN wire \/ k = Len(wire) + 1
    BY <1>1, AppendPlaces
  <2> QED
    BY <1>3, <2>1
<1>8. /\ \A l \in DOMAIN cmds : SayOf(cmds[l], n) => l = 1
      /\ \A l \in DOMAIN wire : ~SayOf(wire[l], n)
      /\ \A l \in DOMAIN events : ~MessageOf(events[l], n)
      /\ lines[n] = <<>> /\ n \in DOMAIN typed
  BY <1>1, <1>2, <1>6 DEF SaidOnce, LineShapes
<1>9. LineShapes'
  <2>1. \A k \in DOMAIN cmds' : cmds'[k].type = "Say" => cmds'[k].key \in DOMAIN typed
    BY <1>1, <1>6 DEF LineShapes
  <2>2. \A k \in DOMAIN wire' : wire'[k].type = "Say" => wire'[k].key \in DOMAIN typed
    BY <1>1, <1>3, <1>7, <1>8 DEF LineShapes
  <2>3. \A k \in DOMAIN events' : events'[k].type = "Message" =>
          events'[k].channel_index \in Indices /\ events'[k].line \in DOMAIN typed
    BY <1>1, <1>4, <1>5, <1>8 DEF LineShapes
  <2> QED
    BY <1>1, <1>2, <2>1, <2>2, <2>3 DEF LineShapes
<1>10. ASSUME NEW k \in DOMAIN wire', NEW l \in DOMAIN wire', wire'[k].type = "Say", SayOf(wire'[l], wire'[k].key)
       PROVE  k = l
  <2>1. CASE k \in DOMAIN wire /\ wire'[k] = wire[k] /\ l \in DOMAIN wire /\ wire'[l] = wire[l]
    BY <1>1, <1>10, <2>1 DEF SaidOnce
  <2>2. CASE k \in DOMAIN wire /\ wire'[k] = wire[k] /\ l = Len(wire) + 1 /\ wire'[l] = w
    BY <1>3, <1>8, <1>10, <2>2 DEF SayOf
  <2>3. CASE k = Len(wire) + 1 /\ wire'[k] = w /\ l \in DOMAIN wire /\ wire'[l] = wire[l]
    BY <1>3, <1>8, <1>10, <2>3 DEF SayOf
  <2>4. CASE k = Len(wire) + 1 /\ l = Len(wire) + 1
    BY <2>4
  <2> QED
    BY <1>7, <2>1, <2>2, <2>3, <2>4
<1>11. ASSUME NEW k \in DOMAIN cmds', cmds'[k].type = "Say"
       PROVE  /\ \A l \in DOMAIN cmds' : SayOf(cmds'[l], cmds'[k].key) => l = k
              /\ \A l \in DOMAIN wire' : ~SayOf(wire'[l], cmds'[k].key)
              /\ \A l \in DOMAIN events' : ~MessageOf(events'[l], cmds'[k].key)
              /\ lines[cmds'[k].key] = <<>>
  <2> DEFINE m == cmds'[k].key
             h == k + 1
  <2>1. /\ h \in DOMAIN cmds /\ cmds'[k] = cmds[h] /\ cmds[h].type = "Say" /\ cmds[h].key = m /\ h # 1
        /\ h \in Nat /\ k \in Nat
    BY <1>6, <1>11
  <2> HIDE DEF m
  <2>2. /\ \A l \in DOMAIN cmds : SayOf(cmds[l], m) => l = h
        /\ \A l \in DOMAIN wire : ~SayOf(wire[l], m)
        /\ \A l \in DOMAIN events : ~MessageOf(events[l], m)
        /\ lines[m] = <<>>
    BY <1>1, <2>1 DEF SaidOnce
  <2>3. m # n
    BY <1>8, <2>1 DEF SayOf
  <2>4. \A l \in DOMAIN cmds' : SayOf(cmds'[l], m) => l = k
    <3> SUFFICES ASSUME NEW l \in DOMAIN cmds', SayOf(cmds'[l], m) PROVE l = k
      OBVIOUS
    <3>1. l + 1 \in DOMAIN cmds /\ cmds'[l] = cmds[l + 1] /\ l \in Nat
      BY <1>6
    <3>2. l + 1 = k + 1
      BY <2>2, <3>1
    <3> QED
      BY <2>1, <3>1, <3>2
  <2>5. \A l \in DOMAIN wire' : ~SayOf(wire'[l], m)
    BY <1>3, <1>7, <2>2, <2>3 DEF SayOf
  <2>6. \A l \in DOMAIN events' : ~MessageOf(events'[l], m)
    BY <1>4, <1>5, <2>2, <2>3 DEF MessageOf
  <2> QED
    BY <2>2, <2>4, <2>5, <2>6 DEF m
<1>12. SaidOnce'
  BY <1>2, <1>10, <1>11 DEF SaidOnce, SayOf, MessageOf
<1>13. ASSUME Once' PROVE ShownFits' /\ EchoesDue'
  <2>1. ShownFits /\ EchoesDue /\ echoes' = echoes \cup {[channel_index |-> i, line |-> n]}
    BY <1>2, <1>13 DEF LinesInv, Once, Prompts
  <2>2. \A j : /\ Gone(tabs, events, j) => Gone(tabs, events', j)
               /\ \A d : Means(tabs, events, j, d) => Means(tabs, events', j, d)
    BY <1>4, <1>5 DEF Gone, Means
  <2>3. Means(tabs, events', i, typed[n])
    BY <1>2, <1>6, <2>1, <2>2 DEF EchoesDue
  <2>4. ASSUME NEW k \in DOMAIN events', events'[k].type = "Message"
        PROVE  /\ Means(tabs, events', events'[k].channel_index, typed[events'[k].line])
               /\ Gone(tabs, events', events'[k].channel_index) \/ Unshown(tabs, events', lines, k)
    <3>1. CASE k \notin DOMAIN events
      <4>1. events'[k] = e
        BY <1>5, <3>1
      <4>2. ASSUME NEW l \in DOMAIN events', MessageOf(events'[l], n)
            PROVE  l = k
        BY <1>5, <1>8, <3>1, <4>2
      <4>3. Unshown(tabs, events', lines, k)
        BY <1>4, <1>8, <4>1, <4>2 DEF Unshown
      <4> QED
        BY <1>4, <2>3, <4>1, <4>3
    <3>2. CASE k \in DOMAIN events
      <4> DEFINE j == events[k].channel_index
                 m == events[k].line
      <4>1. events'[k] = events[k] /\ events[k].type = "Message"
        BY <1>5, <2>4, <3>2
      <4>2. m # n
        BY <1>8, <3>2, <4>1 DEF MessageOf
      <4>3. Means(tabs, events, j, typed[m]) /\ (Gone(tabs, events, j) \/ Unshown(tabs, events, lines, k))
        BY <2>1, <3>2, <4>1 DEF ShownFits
      <4>4. ASSUME Unshown(tabs, events, lines, k) PROVE Unshown(tabs, events', lines, k)
        <5>1. ASSUME NEW l \in DOMAIN events', MessageOf(events'[l], m), l # k
              PROVE  Gone(tabs, events', events'[l].channel_index)
          <6>1. l \in DOMAIN events /\ events'[l] = events[l]
            BY <1>4, <1>5, <4>2, <5>1 DEF MessageOf
          <6>2. Gone(tabs, events, events[l].channel_index)
            BY <4>4, <5>1, <6>1 DEF Unshown
          <6> QED
            BY <2>2, <6>1, <6>2
        <5> QED
          BY <4>1, <4>4, <5>1 DEF Unshown
      <4> QED
        BY <2>2, <4>1, <4>3, <4>4
    <3> QED
      BY <3>1, <3>2
  <2>5. ShownFits'
    BY <1>2, <2>1, <2>4 DEF ShownFits
  <2>6. ASSUME NEW k \in DOMAIN cmds', cmds'[k].type = "Say"
        PROVE  Means(tabs, events', cmds'[k].channel_index, typed[cmds'[k].key])
    BY <1>2, <1>6, <2>1, <2>2, <2>6 DEF EchoesDue
  <2>7. ASSUME NEW k \in DOMAIN wire', wire'[k].type = "Say"
        PROVE  Gone(tabs, events', wire'[k].channel_index) \/ EchoOf(wire'[k]) \in echoes'
    <3>1. CASE k \in DOMAIN wire /\ wire'[k] = wire[k]
      BY <1>2, <2>1, <2>2, <2>7, <3>1 DEF EchoesDue
    <3>2. CASE wire'[k] = w
      BY <1>3, <2>1, <3>2 DEF EchoOf
    <3> QED
      BY <1>7, <3>1, <3>2
  <2>8. EchoesDue'
    BY <1>2, <2>6, <2>7 DEF EchoesDue, EchoOf
  <2> QED
    BY <2>5, <2>8
<1> QED
  BY <1>9, <1>12, <1>13 DEF LinesInv

\* A line is sent on, or the channel is not ready for it.
LEMMA RunSayLines ==
  ASSUME IInv, Types', LinesInv, run_live, Head(cmds).type = "Say",
         ChatSay(Head(cmds).channel_index, Head(cmds).key)
  PROVE  LinesInv'
<1> DEFINE i == Head(cmds).channel_index
           n == Head(cmds).key
           w == Request("Say", NoChannel, i, n)
           e == Message(i, n)
           sent == echoes \cup {[channel_index |-> i, line |-> n]}
<1>1. /\ live /\ cmds # <<>> /\ cmds' = Tail(cmds) /\ Head(cmds) \in Requests
      /\ UNCHANGED <<tabs, typed, lines>> /\ Types
  BY RunLiveKeeps DEF run_live, appVars
<1>2. i \in Indices /\ n \in Nat /\ Head(cmds) = cmds[1]
  BY <1>1, RequestShapes, TailPlaces DEF Types, ChatType
<1>3. w \in Requests /\ w.type = "Say" /\ w.key = n /\ w.channel_index = i
  BY <1>2, RequestShapes
<1>4. e \in Events
  BY <1>2, EventShapes
<1>5. CASE channels[i].there /\ channels[i].complete /\ channels[i].mine
  <2>1. /\ wire' = Append(wire, w) /\ events' = events \o <<e>> /\ live' = live
        /\ slips' = slips \cup Slip("late echo", echoes' # sent)
    BY <1>5 DEF ChatSay, Emit
  <2>2. Once' => echoes' = sent
    BY <2>1 DEF Once, Slip
  <2>3. SayOf(cmds[1], n) /\ cmds[1].channel_index = i
    BY <1>2 DEF SayOf
  <2>4. Prompts(i, n)
    <3> HIDE DEF w
    <3> QED
      BY <1>1, <1>3, <1>4, <2>1, <2>2, <2>3 DEF Prompts
  <2> HIDE DEF i, n
  <2> QED
    BY <1>2, <2>4, SendsLines
<1>6. CASE ~(channels[i].there /\ channels[i].complete /\ channels[i].mine)
  <2>1. Ends /\ slips \subseteq slips'
    BY <1>6 DEF ChatSay
  <2> QED
    BY <1>1, <2>1, EndsLines
<1> QED
  BY <1>5, <1>6

\* A command of run_live, whichever it is.
LEMMA RunLines ==
  ASSUME IInv, Types', LinesInv, run_live
  PROVE  LinesInv'
<1>1. \/ Head(cmds).type = "Join" /\ ChatJoin(Head(cmds).channel)
      \/ Head(cmds).type = "Leave" /\ leave_channel(Head(cmds).channel_index)
      \/ Head(cmds).type = "Say" /\ ChatSay(Head(cmds).channel_index, Head(cmds).key)
  BY DEF run_live
<1> QED
  BY <1>1, RunJoinLines, RunLeaveLines, RunSayLines

\* What the worker does between two connections, and a connection that does not come up.
LEMMA IdleLines ==
  ASSUME IInv, Types', LinesInv, IdleIgnores \/ Begin \/ EstablishFails
  PROVE  LinesInv'
<1>1. events \in Seq(Events) /\ wire \in Seq(Requests) /\ {"WebAuthentication", "Error"} \subseteq StageNames
  BY DEF IInv, Types, ChatType, ServiceType, StageNames
<1>2. /\ UNCHANGED <<tabs, typed, lines, wire, echoes, live, slips>>
      /\ cmds' = cmds \/ (cmds # <<>> /\ cmds' = Tail(cmds))
  BY DEF IdleIgnores, Idle, Begin, EstablishFails, appVars, history, serviceVars, chatVars
<1>3. Follows(events', events, {"Joined", "Message"})
  <2>1. CASE IdleIgnores
    BY <1>1, <2>1, FollowsSame DEF IdleIgnores
  <2>2. CASE Begin
    BY <1>1, <2>2, StageFollows DEF Begin, Emit
  <2>3. CASE EstablishFails
    BY <1>1, <2>3, StageFollows DEF EstablishFails, Emit
  <2> QED
    BY <2>1, <2>2, <2>3
<1>4. Follows(wire', wire, {"Say"})
  BY <1>1, <1>2, FollowsSame
<1>5. EchoesKept
  BY <1>2 DEF EchoesKept, EchoKept
<1> QED
  BY <1>2, <1>3, <1>4, <1>5, WorkLines

\* None of what is told of a connection that is up is a line.
LEMMA ToldNoLine ==
  ASSUME NEW refused \in BOOLEAN, NEW head \in Channels, NEW i \in Indices, NEW first \in Channels
  PROVE  \A k \in DOMAIN Told(refused, head, i, first) : Told(refused, head, i, first)[k].type # "Message"
<1> DEFINE a == JoinRejected(head)
           b == Joined(i, first)
           c == Roster(i, Entered(first))
           d == Stage("Connected")
           x == IF refused THEN <<a>> ELSE <<>>
           y == <<b, c, d>>
<1>1. a \in Events /\ b \in Events /\ c \in Events /\ d \in Events
  <2>1. Entered(first) \in Slots
    BY EnteredSlot
  <2> QED
    BY <2>1, EventShapes DEF StageNames
<1>2. a.type # "Message" /\ b.type # "Message" /\ c.type # "Message" /\ d.type # "Message"
  BY EventFields
<1>3. Told(refused, head, i, first) = x \o y
  BY DEF Told
<1> HIDE DEF a, b, c, d
<1>4. x \in Seq(Events) /\ \A k \in DOMAIN x : x[k].type # "Message"
  BY <1>1, <1>2
<1>5. y \in Seq(Events) /\ \A k \in DOMAIN y : y[k].type # "Message"
  <2>1. y \in Seq(Events) /\ DOMAIN y = 1 .. 3 /\ y[1] = b /\ y[2] = c /\ y[3] = d
    BY <1>1
  <2> HIDE DEF y
  <2>2. \A k \in DOMAIN y : k = 1 \/ k = 2 \/ k = 3
    BY <2>1
  <2> QED
    BY <1>2, <2>1, <2>2
<1> HIDE DEF x, y
<1>6. \A k \in DOMAIN (x \o y) :
        \/ k \in DOMAIN x /\ (x \o y)[k] = x[k]
        \/ k - Len(x) \in DOMAIN y /\ (x \o y)[k] = y[k - Len(x)]
  BY <1>4, <1>5, ConcatMembers
<1>7. \A k \in DOMAIN (x \o y) : (x \o y)[k].type # "Message"
  BY <1>4, <1>5, <1>6
<1> QED
  BY <1>3, <1>7

\* A connection comes up: no line is on its way.
LEMMA EstablishLines ==
  ASSUME IInv, LinesInv, Establish
  PROVE  LinesInv'
<1> DEFINE others == Tail(joining)
<1>1. PICK head \in Listed(Head(joining)), i \in Indices, refused \in BOOLEAN :
        LET first == IF refused THEN General ELSE head
        IN /\ wire' = [k \in DOMAIN others |-> Request("Join", others[k], 0, last_token + k)]
           /\ events' = events \o Told(refused, head, i, first)
  BY DEF Establish, Emit, Told, Entered
<1>2. joining # <<>> /\ UNCHANGED <<cmds, typed, lines>> /\ slips \subseteq slips'
  BY DEF Establish
<1>3. joining \in Seq(Channels) /\ events \in Seq(Events) /\ refused \in BOOLEAN
  BY DEF IInv, Types, ChatType
<1>4. head \in Channels
  BY <1>2, <1>3, TailPlaces, ListedChannels
<1> DEFINE first == IF refused THEN General ELSE head
           es == Told(refused, head, i, first)
<1>5. first \in Channels
  BY <1>4, ChannelsAssumption
<1>6. events' = events \o es
  BY <1>1
<1>7. NoSay(wire')
  <2>1. \A k \in DOMAIN wire' : wire'[k] = Request("Join", others[k], 0, last_token + k)
    BY <1>1
  <2>2. \A c, k : Request("Join", c, 0, k).type = "Join"
    BY DEF Request
  <2> QED
    BY <2>1, <2>2 DEF NoSay
<1>8. /\ cmds = <<>> /\ \A k \in DOMAIN events : events[k].type = "WebAuthentication"
  BY <1>2, DialingEvents
<1>9. NoSay(cmds')
  BY <1>2, <1>8 DEF NoSay
<1> HIDE DEF first, others
<1>10. es \in Seq(Events) /\ \A k \in DOMAIN es : es[k].type # "Message"
  BY <1>3, <1>4, <1>5, ToldEvents, ToldNoLine
<1> HIDE DEF es
<1>11. \A k \in DOMAIN events' :
         \/ k \in DOMAIN events /\ events'[k] = events[k]
         \/ k - Len(events) \in DOMAIN es /\ events'[k] = es[k - Len(events)]
  BY <1>3, <1>6, <1>10, Emission
<1>12. \A k \in DOMAIN events' : events'[k].type # "Message"
  BY <1>8, <1>10, <1>11
<1> QED
  BY <1>2, <1>7, <1>9, <1>12, SilentLines

\* A membership record tells of no join and shows no line.
LEMMA MembershipFollows ==
  ASSUME Types, NEW i \in Indices, NEW roster \in SUBSET People, NEW end \in BOOLEAN,
         NEW mine_left \in BOOLEAN, ReceiveMembership(i, roster, end, mine_left)
  PROVE  Follows(events', events, {"Joined", "Message"}) /\ UNCHANGED <<live, echoes>>
<1> DEFINE entry == apply_membership(i, roster, end)
           removed == mine_left /\ channels[i].mine /\ channels[i].complete
           a == Removed(i)
           b == Roster(i, entry)
           x == IF removed THEN <<a>> ELSE <<>>
           y == <<b>>
           es == x \o y
<1>1. channels \in [Indices -> Slots] /\ channels[i] \in Slots /\ events \in Seq(Events)
  BY DEF Types, ChatType
<1>2. entry \in Slots
  BY <1>1 DEF apply_membership, Slots
<1>3. events' = events \o es /\ UNCHANGED <<live, echoes>>
  BY DEF ReceiveMembership, Emit
<1>4. a \in Events /\ b \in Events /\ a.type = "Removed" /\ b.type = "Roster"
  BY <1>2, EventShapes, EventFields
<1> HIDE DEF entry, removed, a, b
<1>5. /\ x \in Seq(Events) /\ \A k \in DOMAIN x : x[k].type \notin {"Joined", "Message"}
      /\ y \in Seq(Events) /\ \A k \in DOMAIN y : y[k].type \notin {"Joined", "Message"}
  BY <1>4
<1> HIDE DEF x, y
<1>6. es \in Seq(Events)
  BY <1>5, ConcatPlaces
<1>7. \A k \in DOMAIN es :
        \/ k \in DOMAIN x /\ es[k] = x[k]
        \/ k - Len(x) \in DOMAIN y /\ es[k] = y[k - Len(x)]
  BY <1>5, ConcatMembers
<1> HIDE DEF es
<1>8. \A k \in DOMAIN es : es[k].type \notin {"Joined", "Message"}
  BY <1>5, <1>7
<1> QED
  BY <1>1, <1>3, <1>6, <1>8, FollowsConcat

\* A record in which there is no line and no join.
LEMMA ToldLines ==
  ASSUME IInv, Types', LinesInv, UNCHANGED <<tabs, cmds, typed, lines, live, echoes>>, slips \subseteq slips',
         wire' = wire \/ (wire # <<>> /\ wire' = Tail(wire)),
         Follows(events', events, {"Joined", "Message"})
  PROVE  LinesInv'
<1>1. wire \in Seq(Requests)
  BY DEF IInv, Types, ServiceType
<1>2. Follows(wire', wire, {"Say"})
  BY <1>1, FollowsSame, FollowsTail
<1>3. EchoesKept
  BY DEF EchoesKept, EchoKept
<1> QED
  BY <1>2, <1>3, WorkLines

\* Rosters, removals and leaves reach LiveChat as membership records.
LEMMA RosterRecords ==
  ASSUME IInv,
         FirstRoster \/ TakeLeave \/ (\E c \in Channels : PeerMoves(c)) \/ (\E i \in Indices : Kick(i))
  PROVE  \/ UNCHANGED <<events, chatVars>>
         \/ \E i \in Indices : \E roster \in SUBSET People : \E end, mine_left \in BOOLEAN :
              ReceiveMembership(i, roster, end, mine_left)
<1>0. /\ wire \in Seq(Requests) /\ owed \subseteq Indices
      /\ \A i \in Indices : channels[i].roster \in SUBSET People
  BY ServiceTypes
<1>1. CASE FirstRoster
  <2>1. PICK i \in owed : ReceiveMembership(i, Members(room[i]), TRUE, FALSE)
    BY <1>1 DEF FirstRoster
  <2>2. Members(room[i]) \in SUBSET People /\ i \in Indices
    BY <1>0, MembersOfRoom
  <2> QED
    BY <2>1, <2>2
<1>2. CASE TakeLeave
  <2> DEFINE i == Head(wire).channel_index
             roster == channels[i].roster \ {"me"}
  <2>1. UNCHANGED <<events, chatVars>> \/ ReceiveMembership(i, roster, FALSE, TRUE)
    BY <1>2 DEF TakeLeave
  <2>2. wire # <<>> /\ Head(wire).type = "Leave"
    BY <1>2 DEF TakeLeave
  <2>3. i \in Indices
    BY <1>0, <2>2, TailPlaces, RequestShapes
  <2>4. roster \in SUBSET People
    BY <1>0, <2>3
  <2> HIDE DEF i, roster
  <2> QED
    BY <2>1, <2>3, <2>4
<1>3. ASSUME NEW c \in Channels, PeerMoves(c)
      PROVE  \/ UNCHANGED <<events, chatVars>>
             \/ \E i \in Indices : \E roster \in SUBSET People : \E end, mine_left \in BOOLEAN :
                  ReceiveMembership(i, roster, end, mine_left)
  <2> DEFINE roster(i) == IF c \in present THEN channels[i].roster \ {"peer"}
                          ELSE channels[i].roster \union {"peer"}
  <2>1. UNCHANGED <<events, chatVars>> \/ \E i \in Indices : ReceiveMembership(i, roster(i), FALSE, FALSE)
    BY <1>3 DEF PeerMoves
  <2>2. \A i \in Indices : roster(i) \in SUBSET People
    BY <1>0 DEF People
  <2> HIDE DEF roster
  <2> QED
    BY <2>1, <2>2
<1>4. ASSUME NEW i \in Indices, Kick(i)
      PROVE  \E roster \in SUBSET People : ReceiveMembership(i, roster, FALSE, TRUE)
  <2> DEFINE roster == channels[i].roster \ {"me"}
  <2>1. ReceiveMembership(i, roster, FALSE, TRUE) /\ roster \in SUBSET People
    BY <1>0, <1>4 DEF Kick
  <2> HIDE DEF roster
  <2> QED
    BY <2>1
<1> QED
  BY <1>1, <1>2, <1>3, <1>4

\* Rosters, removals and leaves and the lines under way.
LEMMA RosterLines ==
  ASSUME IInv, Types', LinesInv,
         FirstRoster \/ TakeLeave \/ (\E c \in Channels : PeerMoves(c)) \/ (\E i \in Indices : Kick(i))
  PROVE  LinesInv'
<1>1. /\ channels \in [Indices -> Slots] /\ events \in Seq(Events) /\ wire \in Seq(Requests) /\ Types
      /\ \A i \in Indices : channels[i].roster \in SUBSET People
      /\ owed \subseteq Indices
  BY ServiceTypes
<1>2. /\ UNCHANGED <<tabs, cmds, typed, lines, slips>>
      /\ wire' = wire \/ (wire # <<>> /\ wire' = Tail(wire))
  BY DEF FirstRoster, TakeLeave, PeerMoves, Kick, appVars, history
<1>3. \/ UNCHANGED <<events, chatVars>>
      \/ \E i \in Indices : \E roster \in SUBSET People : \E end, mine_left \in BOOLEAN :
           ReceiveMembership(i, roster, end, mine_left)
  BY RosterRecords
<1>4. Follows(events', events, {"Joined", "Message"}) /\ UNCHANGED <<live, echoes>>
  <2>1. CASE UNCHANGED <<events, chatVars>>
    <3>1. UNCHANGED <<live, echoes, events>>
      BY <2>1 DEF chatVars
    <3> QED
      BY <1>1, <3>1, FollowsSame
  <2>2. ASSUME NEW i \in Indices, NEW roster \in SUBSET People, NEW end \in BOOLEAN, NEW mine_left \in BOOLEAN,
               ReceiveMembership(i, roster, end, mine_left)
        PROVE  Follows(events', events, {"Joined", "Message"}) /\ UNCHANGED <<live, echoes>>
    BY <1>1, <2>2, MembershipFollows
  <2> QED
    BY <1>3, <2>1, <2>2
<1> QED
  BY <1>2, <1>4, ToldLines

\* A line comes back: its echo was expected, or no tab can show it.
LEMMA TakeSayLines ==
  ASSUME IInv, Types', LinesInv, TakeSay
  PROVE  LinesInv'
<1> DEFINE i == Head(wire).channel_index
           n == Head(wire).key
           e == Message(i, n)
           echo == [channel_index |-> i, line |-> n]
<1>1. /\ wire # <<>> /\ Head(wire).type = "Say" /\ wire' = Tail(wire)
      /\ UNCHANGED <<tabs, cmds, typed, lines>>
  BY DEF TakeSay, appVars
<1>2. events \in Seq(Events) /\ wire \in Seq(Requests) /\ Types /\ LineShapes /\ SaidOnce
  BY ServiceTypes DEF LinesInv
<1>3. live
  BY <1>1, Connected
<1>4. Head(wire) = wire[1] /\ 1 \in DOMAIN wire /\ Head(wire) \in Requests
  BY <1>1, <1>2, TailPlaces
<1>5. i \in Indices /\ n \in Nat /\ wire[1].type = "Say" /\ wire[1].key = n /\ wire[1].channel_index = i
  BY <1>1, <1>4, RequestShapes
<1>6. e \in Events /\ e.type = "Message" /\ e.channel_index = i /\ e.line = n
  BY <1>5, EventShapes DEF Message, Event
<1>7. EchoOf(wire[1]) = echo
  BY <1>5 DEF EchoOf
<1>8. Follows(wire', wire, {"Say"})
  BY <1>1, <1>2, FollowsTail
<1>9. CASE room[i] = NoChannel
  <2>1. UNCHANGED <<events, live, echoes, slips>>
    BY <1>9 DEF TakeSay, chatVars
  <2>2. Follows(events', events, {"Joined", "Message"})
    BY <1>2, <2>1, FollowsSame
  <2> QED
    BY <1>1, <2>1, <2>2, ToldLines
<1>10. CASE room[i] # NoChannel
  <2>1. PICK late \in 0 .. Len(typed) : ReceiveMessage(i, n, late)
    BY <1>10 DEF TakeSay
  <2> DEFINE kept == {x \in echoes : x.line > late}
  <2>2. /\ echoes' = kept \ {echo} /\ live' = live
        /\ events' = events \o (IF echo \in kept THEN <<>> ELSE <<e>>)
        /\ slips' = slips \cup Slip("late echo", kept # echoes)
    BY <2>1 DEF ReceiveMessage, Emit
  <2> HIDE DEF i, n, e, echo, kept
  <2>3. slips \subseteq slips' /\ (Once' => kept = echoes)
    BY <2>2 DEF Once, Slip
  <2>4. EchoesKept
    <3> SUFFICES ASSUME live', Once', NEW k \in DOMAIN wire', wire'[k].type = "Say", EchoOf(wire'[k]) \in echoes
                 PROVE  EchoOf(wire'[k]) \in echoes'
      BY DEF EchoesKept, EchoKept
    <3>1. k + 1 \in DOMAIN wire /\ wire'[k] = wire[k + 1] /\ k \in Nat \ {0}
      BY <1>1, <1>2, TailPlaces
    <3>2. ~SayOf(wire[k + 1], wire[1].key)
      <4>1. k + 1 # 1
        BY <3>1
      <4> QED
        BY <1>2, <1>4, <1>5, <3>1, <4>1 DEF SaidOnce
    <3>3. wire'[k].key # n
      BY <1>5, <3>1, <3>2 DEF SayOf
    <3>4. EchoOf(wire'[k]) # echo
      BY <3>3 DEF EchoOf, echo
    <3> QED
      BY <2>2, <2>3, <3>4
  <2>5. CASE echo \in kept
    <3>1. events' = events
      BY <1>2, <2>2, <2>5, NoEmission
    <3>2. Follows(events', events, {"Joined", "Message"})
      BY <1>2, <3>1, FollowsSame
    <3> QED
      BY <1>1, <1>8, <2>2, <2>3, <2>4, <3>2, WorkLines
  <2>6. CASE echo \notin kept
    <3>1. events' = events \o <<e>>
      BY <2>2, <2>6
    <3>2. n \in DOMAIN typed
      BY <1>2, <1>4, <1>5 DEF LineShapes
    <3>3. \A k \in DOMAIN cmds : ~SayOf(cmds[k], n)
      BY <1>2, <1>4, <1>5 DEF SaidOnce, SayOf
    <3>4. Once' => Gone(tabs, events, i)
      <4> SUFFICES ASSUME Once' PROVE Gone(tabs, events, i)
        OBVIOUS
      <4>1. EchoesDue /\ echo \notin echoes
        BY <2>3, <2>6 DEF LinesInv, Once
      <4> QED
        BY <1>3, <1>4, <1>5, <1>7, <4>1 DEF EchoesDue
    <3>5. Late(e)
      BY <1>5, <1>6, <3>2, <3>3, <3>4 DEF Late
    <3>6. Hears(e)
      BY <1>1, <1>6, <1>8, <2>2, <2>3, <2>4, <3>1, <3>5 DEF Hears
    <3> QED
      BY <1>2, <3>6, HearsLines
  <2> QED
    BY <2>5, <2>6
<1> QED
  BY <1>9, <1>10

\* A refusal.
LEMMA RefuseLines ==
  ASSUME IInv, Types', LinesInv, AnswerJoin, NEW cut, NEW token, Refuse(cut, token, Head(wire).channel)
  PROVE  LinesInv'
<1> DEFINE c == Head(wire).channel
           kind == Kind(c)
<1>1. wire # <<>> /\ UNCHANGED <<tabs, cmds, typed, lines>>
  BY DEF AnswerJoin, appVars
<1> HIDE DEF c
<1>2. CASE Ambiguous(cut, token, kind)
  <2>1. Ends /\ slips \subseteq slips'
    BY <1>2 DEF Ambiguous
  <2> QED
    BY <1>1, <2>1, EndsLines
<1>3. CASE ReceiveRejection(cut, token, kind, c) /\ wire' = Tail(wire)
  <2> DEFINE left == expire_pending_joins(cut)
             found == take_requested_join(left, token, kind)
             d == IF found = {} THEN NoChannel ELSE (CHOOSE j \in found : TRUE).channel
             e == JoinRejected(d)
             es == <<e>>
  <2>1. events' = events \o es /\ slips \subseteq slips' /\ UNCHANGED <<live, echoes>>
    BY <1>3 DEF ReceiveRejection, Emit
  <2>2. events \in Seq(Events) /\ Types
    BY ServiceTypes
  <2>3. found # {} => (CHOOSE j \in found : TRUE).channel \in Channels
    <3> HIDE DEF kind
    <3> QED
      BY <2>2, RequestedJoin
  <2> HIDE DEF left, found
  <2>4. d \in Channels \cup {NoChannel}
    BY <2>3
  <2>5. e \in Events /\ e.type = "JoinRejected"
    BY <2>4, EventShapes, EventFields
  <2> HIDE DEF e
  <2>6. es \in Seq(Events) /\ \A k \in DOMAIN es : es[k].type \notin {"Joined", "Message"}
    BY <2>5
  <2> HIDE DEF es
  <2>7. Follows(events', events, {"Joined", "Message"})
    BY <2>1, <2>2, <2>6, FollowsConcat
  <2> QED
    BY <1>1, <1>3, <2>1, <2>7, ToldLines
<1> QED
  BY <1>2, <1>3 DEF Refuse, c

\* A join: none of the lines under way uses its index, unless it is shared.
LEMMA AcceptLines ==
  ASSUME IInv, Types', LinesInv, AnswerJoin, NEW cut, NEW token, NEW i \in Indices,
         Accept(cut, token, Head(wire).channel, i)
  PROVE  LinesInv'
<1> DEFINE c == Head(wire).channel
           kind == Named(c)
<1>1. wire # <<>> /\ Head(wire).type = "Join" /\ UNCHANGED <<tabs, cmds, typed, lines>>
  BY DEF AnswerJoin, appVars
<1>2. /\ channels \in [Indices -> Slots] /\ events \in Seq(Events) /\ wire \in Seq(Requests) /\ Types
  BY ServiceTypes
<1>3. c \in Channels
  <2>1. Head(wire) \in Requests
    BY <1>1, <1>2, TailPlaces
  <2> QED
    BY <1>1, <2>1, RequestShapes
<1>4. Ambiguous(cut, token, kind) \/ (ReceiveJoin(cut, token, kind, c, i) /\ wire' = Tail(wire))
  BY DEF Accept
<1> HIDE DEF c
<1>5. CASE Ambiguous(cut, token, kind)
  <2>1. Ends /\ slips \subseteq slips'
    BY <1>5 DEF Ambiguous
  <2> QED
    BY <1>1, <2>1, EndsLines
<1>6. CASE ReceiveJoin(cut, token, kind, c, i) /\ wire' = Tail(wire)
  <2> DEFINE left == expire_pending_joins(cut)
             found == take_requested_join(left, token, kind)
             joined == IF found # {} THEN (CHOOSE j \in found : TRUE).channel
                       ELSE IF c \in Public THEN c
                       ELSE channels[i].channel
             e == Joined(i, joined)
  <2>1. /\ UNCHANGED <<live, echoes>>
        /\ slips' = slips \union Shares(c, i)
                      \union Slip("unclaimed", joined # c /\ (token = 0 \/ found = {}))
        /\ events' = IF joined # NoChannel THEN events \o <<e>> ELSE events
    BY <1>6 DEF ReceiveJoin, Emit
  <2>2. found # {} => (CHOOSE j \in found : TRUE).channel \in Channels
    <3> HIDE DEF kind
    <3> QED
      BY <1>2, RequestedJoin
  <2>3. channels[i].channel \in Channels \cup {NoChannel}
    BY <1>2 DEF Slots
  <2> HIDE DEF left, found
  <2>4. joined \in Channels \cup {NoChannel}
    BY <1>3, <2>2, <2>3
  <2> HIDE DEF joined
  <2>5. joined # NoChannel => e \in Events /\ e.type = "Joined" /\ e.channel_index = i
    BY <2>4, EventShapes, EventFields
  <2>6. slips \subseteq slips'
    BY <2>1
  <2>7. Once' => Unused(i)
    BY <2>1 DEF Once, Shares, Slip, Uses, Unused
  <2> HIDE DEF e
  <2>8. EchoesKept
    BY <2>1 DEF EchoesKept, EchoKept
  <2>9. Follows(wire', wire, {"Say"})
    BY <1>1, <1>2, <1>6, FollowsTail
  <2>10. CASE joined = NoChannel
    <3>1. Follows(events', events, {"Joined", "Message"})
      BY <1>2, <2>1, <2>10, FollowsSame
    <3> QED
      BY <1>1, <2>1, <2>6, <2>8, <2>9, <3>1, WorkLines
  <2>11. CASE joined # NoChannel
    <3>1. Hears(e)
      BY <1>1, <2>1, <2>5, <2>6, <2>7, <2>8, <2>9, <2>11 DEF Hears
    <3> QED
      BY <1>2, <3>1, HearsLines
  <2> QED
    BY <2>10, <2>11
<1> QED
  BY <1>4, <1>5, <1>6

\* A step of the service.
LEMMA ServiceLines ==
  ASSUME IInv, Types', LinesInv, Service
  PROVE  LinesInv'
<1>1. CASE AnswerJoin
  <2> DEFINE c == Head(wire).channel
  <2>1. PICK cut \in 0 .. last_token, token \in Tokens(Head(wire)) :
          Refuse(cut, token, c) \/ \E i \in Indices : Accept(cut, token, c, i)
    BY <1>1 DEF AnswerJoin
  <2>2. CASE Refuse(cut, token, c)
    <3> QED
      BY <1>1, <2>2, RefuseLines
  <2>3. ASSUME NEW i \in Indices, Accept(cut, token, c, i)
        PROVE  LinesInv'
    BY <1>1, <2>3, AcceptLines
  <2> QED
    BY <2>1, <2>2, <2>3
<1>2. CASE Lose
  <2>1. Ends /\ UNCHANGED <<tabs, cmds, typed, lines, slips>>
    BY <1>2 DEF Lose, appVars
  <2> QED
    BY <2>1, EndsLines
<1> QED
  BY <1>1, <1>2, RosterLines, TakeSayLines DEF Service

\* A step of the user or of the application.
LEMMA UserLines ==
  ASSUME IInv, Types', LinesInv, User \/ App
  PROVE  LinesInv'
<1>1. ASSUME NEW p \in DOMAIN tabs, send_message(p) PROVE LinesInv'
  BY <1>1, SendLines
<1> QED
  BY <1>1, PressLines, DragLines, CloseLines, TimerLines, HandleLines DEF User, App

\* A step of the worker.
LEMMA WorkerLines ==
  ASSUME IInv, Types', LinesInv, Worker
  PROVE  LinesInv'
  BY RunLines, IdleLines, EstablishLines DEF Worker

\* No line has been typed.
LEMMA InitLines ==
  ASSUME Init
  PROVE  LinesInv
<1>1. cmds = <<>> /\ events = <<>> /\ wire = <<>> /\ typed = <<>> /\ lines = <<>>
  BY DEF Init
<1>2. DOMAIN cmds = {} /\ DOMAIN events = {} /\ DOMAIN wire = {} /\ DOMAIN lines = {}
  BY <1>1
<1>3. lines \in Seq(Seq(Channels)) /\ Len(lines) = Len(typed)
  BY <1>1, EmptySeq
<1>4. LineShapes /\ SaidOnce
  BY <1>2, <1>3 DEF LineShapes, SaidOnce
<1>5. ShownFits /\ EchoesDue
  BY <1>2 DEF ShownFits, EchoesDue
<1> QED
  BY <1>4, <1>5 DEF LinesInv

\* Where each line is in every reachable state: on its way to the service once,
\* shown once, and its echo expected for as long as a tab could show it again.
THEOREM LinesInvariant == Spec => []LinesInv
<1>1. Init => LinesInv
  BY InitLines
<1>2. IInv /\ IInv' /\ LinesInv /\ [Next]_vars => LinesInv'
  <2> SUFFICES ASSUME IInv, IInv', LinesInv, [Next]_vars PROVE LinesInv'
    OBVIOUS
  <2>1. Types'
    BY DEF IInv
  <2>2. CASE Next
    BY <2>1, <2>2, UserLines, WorkerLines, ServiceLines DEF Next
  <2>3. CASE UNCHANGED vars
    <3>1. UNCHANGED <<tabs, cmds, events, live, echoes, wire, typed, lines, slips>>
      BY <2>3 DEF vars, appVars, chatVars, serviceVars, history
    <3>2. LineShapes' /\ SaidOnce'
      BY <3>1 DEF LinesInv, LineShapes, SaidOnce, SayOf, MessageOf
    <3>3. Once' => Once
      BY <3>1 DEF Once
    <3>4. ShownFits => ShownFits'
      BY <3>1 DEF ShownFits, Gone, Means, Unshown, MessageOf
    <3>5. EchoesDue => EchoesDue'
      BY <3>1 DEF EchoesDue, Gone, Means, EchoOf
    <3> QED
      BY <3>2, <3>3, <3>4, <3>5 DEF LinesInv
  <2> QED
    BY <2>2, <2>3
<1> QED
  BY <1>1, <1>2, ChannelsInvariant, PTL DEF Spec

\* A line of one's own is shown once, in the tab it was typed into, although
\* LiveChat::send_message shows it before it is sent and the service sends it
\* back (consume_local_echo): unless its echo was given up, a tab was closed
\* while its join was under way, or the service gave the index out again.
THEOREM EveryLineIsShownOnce == Spec => []ShownOnce
<1>1. LinesInv => ShownOnce
  BY DEF LinesInv, Once, ShownFits, ShownOnce
<1> QED
  BY <1>1, LinesInvariant, PTL

-----------------------------------------------------------------------------
(* The channels of a reconnect come back.  Each that is wanted is in the   *)
(* call, in the joins of the connection coming up, in a request or in an   *)
(* event, or it has a tab that the first stage will not take away.         *)

Summoned(c) == \E k \in DOMAIN cmds : cmds[k].type = "Connect" /\ \E l \in DOMAIN cmds[k].channels : cmds[k].channels[l] = c
InTurn(c) == \E k \in DOMAIN joining : joining[k] = c
Asked(c) == \E k \in DOMAIN wire : wire[k].type = "Join" /\ wire[k].channel = c
Answers(e, c) == e.type \in {"Joined", "JoinRejected"} /\ e.channel = c
Answered(c) == \E k \in DOMAIN events : Answers(events[k], c)
Coming(c) == Summoned(c) \/ InTurn(c) \/ Asked(c) \/ Answered(c)
HasTab(c) == \E p \in DOMAIN tabs : tabs[p].channel = c
Back(c) == HasTab(c) /\ ~Calls /\ ~Has(events, "WebAuthentication")

Recalled == slips \cap {"forgotten", "unnamed", "unclaimed", "delisted"} = {}
CallsWhole == \A k \in DOMAIN cmds : cmds[k].type = "Connect" => Len(cmds[k].channels) <= MaxJoined
NoneMissing == ~Stopped => \A c \in wanted : Coming(c) \/ Back(c)
ReturnInv == Recalled => CallsWhole /\ NoneMissing

\* A tab that goes leaves the others behind.
LEMMA RemoveAtRest ==
  ASSUME NEW S, NEW s \in Seq(S), NEW p \in DOMAIN s, NEW k \in DOMAIN s, k # p
  PROVE  \E l \in DOMAIN RemoveAt(s, p) :
           RemoveAt(s, p)[l] = s[k] /\ l = (IF k < p THEN k ELSE k - 1)
<1> DEFINE left == SubSeq(s, 1, p - 1)
           right == SubSeq(s, p + 1, Len(s))
<1>1. /\ Len(s) \in Nat /\ DOMAIN s = 1 .. Len(s) /\ p \in 1 .. Len(s) /\ k \in 1 .. Len(s)
      /\ \A i \in 1 .. Len(s) : s[i] \in S
  OBVIOUS
<1>2. /\ left \in Seq(S) /\ Len(left) = p - 1 /\ \A i \in 1 .. p - 1 : left[i] = s[i]
  <2>1. (\A i \in 1 .. p - 1 : s[i] \in S) /\ 1 \in Int /\ p - 1 \in Int
    BY <1>1
  <2>2. /\ left \in Seq(S) /\ Len(left) = (IF 1 <= p - 1 THEN (p - 1) - 1 + 1 ELSE 0)
        /\ \A i \in 1 .. (p - 1) - 1 + 1 : left[i] = s[1 + i - 1]
    BY <2>1, SubSeqProperties
  <2> HIDE DEF left
  <2> QED
    BY <1>1, <2>2
<1>3. /\ right \in Seq(S) /\ Len(right) = Len(s) - p /\ \A i \in 1 .. Len(s) - p : right[i] = s[p + i]
  <2>1. (\A i \in p + 1 .. Len(s) : s[i] \in S) /\ p + 1 \in Int /\ Len(s) \in Int
    BY <1>1
  <2>2. /\ right \in Seq(S) /\ Len(right) = (IF p + 1 <= Len(s) THEN Len(s) - (p + 1) + 1 ELSE 0)
        /\ \A i \in 1 .. Len(s) - (p + 1) + 1 : right[i] = s[(p + 1) + i - 1]
    BY <2>1, SubSeqProperties
  <2> HIDE DEF right
  <2>3. /\ Len(s) - (p + 1) + 1 = Len(s) - p
        /\ (IF p + 1 <= Len(s) THEN Len(s) - (p + 1) + 1 ELSE 0) = Len(s) - p
        /\ \A i \in 1 .. Len(s) - p : (p + 1) + i - 1 = p + i
    BY <1>1
  <2>4. Len(right) = Len(s) - p
    BY <2>2, <2>3
  <2>5. ASSUME NEW i \in 1 .. Len(s) - p
        PROVE  right[i] = s[p + i]
    BY <2>2, <2>3
  <2> QED
    BY <2>2, <2>4, <2>5
<1>4. RemoveAt(s, p) = left \o right
  BY DEF RemoveAt
<1> HIDE DEF left, right
<1>5. /\ DOMAIN (left \o right) = 1 .. Len(left) + Len(right)
      /\ \A i \in 1 .. Len(left) : (left \o right)[i] = left[i]
      /\ \A i \in 1 .. Len(right) : (left \o right)[Len(left) + i] = right[i]
  <2>1. left \in Seq(S) /\ right \in Seq(S)
    BY <1>2, <1>3
  <2> QED
    BY <2>1, ConcatPlaces
<1> DEFINE all == left \o right
<1>6. /\ DOMAIN all = 1 .. Len(left) + Len(right)
      /\ \A i \in 1 .. Len(left) : all[i] = left[i]
      /\ \A i \in 1 .. Len(right) : all[Len(left) + i] = right[i]
      /\ RemoveAt(s, p) = all
  BY <1>4, <1>5
<1> HIDE DEF all
<1>7. CASE k < p
  <2>1. k \in 1 .. p - 1 /\ k \in DOMAIN all
    BY <1>1, <1>2, <1>3, <1>6, <1>7
  <2>2. all[k] = s[k]
    BY <1>2, <1>6, <2>1
  <2> QED
    BY <1>6, <1>7, <2>1, <2>2
<1>8. CASE ~(k < p)
  <2>1. /\ k - p \in 1 .. Len(s) - p /\ Len(left) + (k - p) = k - 1 /\ p + (k - p) = k
        /\ k - 1 \in DOMAIN all
    BY <1>1, <1>2, <1>3, <1>6, <1>8
  <2>2. all[k - 1] = s[k]
    BY <1>3, <1>6, <2>1
  <2> QED
    BY <1>6, <1>8, <2>1, <2>2
<1> QED
  BY <1>7, <1>8

\* The channels of the other tabs are still on the strip.
LEMMA OthersStay ==
  ASSUME tabs \in Seq(TabSet), NEW p \in DOMAIN tabs, tabs' \in {RemoveAt(tabs, p), WithoutTab(p)},
         NEW c, c # tabs[p].channel, HasTab(c)
  PROVE  HasTab(c)'
<1>1. PICK k \in DOMAIN tabs : tabs[k].channel = c /\ k # p
  BY DEF HasTab
<1>2. PICK l \in DOMAIN RemoveAt(tabs, p) : RemoveAt(tabs, p)[l] = tabs[k]
  BY <1>1, RemoveAtRest
<1>3. RemoveAt(tabs, p) # <<>>
  BY <1>2
<1>4. tabs' = RemoveAt(tabs, p)
  BY <1>3 DEF WithoutTab
<1> QED
  BY <1>1, <1>2, <1>4 DEF HasTab

\* What is called for after one more command that is not a call.
LEMMA CallsAfter ==
  ASSUME cmds \in Seq(Requests \cup Connects),
         \/ cmds' = cmds
         \/ \E q \in Requests : cmds' = Append(cmds, q)
  PROVE  /\ \A c : Summoned(c) => Summoned(c)'
         /\ Calls' = Calls
         /\ CallsWhole => CallsWhole'
<1>1. CASE cmds' = cmds
  BY <1>1 DEF Summoned, Calls, CallsWhole
<1>2. ASSUME NEW q \in Requests, cmds' = Append(cmds, q)
      PROVE  /\ \A c : Summoned(c) => Summoned(c)'
             /\ Calls' = Calls
             /\ CallsWhole => CallsWhole'
  <2>1. q.type # "Connect"
    BY RequestShapes
  <2>2. /\ \A k \in DOMAIN cmds : k \in DOMAIN cmds' /\ cmds'[k] = cmds[k]
        /\ \A k \in DOMAIN cmds' : cmds'[k].type = "Connect" => k \in DOMAIN cmds /\ cmds'[k] = cmds[k]
    <3>1. q \in Requests \cup Connects
      OBVIOUS
    <3>2. /\ DOMAIN Append(cmds, q) = 1 .. Len(cmds) + 1 /\ Len(cmds) \in Nat
          /\ \A k \in DOMAIN cmds : Append(cmds, q)[k] = cmds[k]
          /\ Append(cmds, q)[Len(cmds) + 1] = q
          /\ \A k \in DOMAIN Append(cmds, q) : k \in DOMAIN cmds \/ k = Len(cmds) + 1
      BY <3>1, AppendPlaces
    <3> QED
      BY <1>2, <2>1, <3>2
  <2>3. \A c : Summoned(c) => Summoned(c)'
    BY <2>2 DEF Summoned
  <2>4. Calls' = Calls
    BY <2>2 DEF Calls
  <2>5. CallsWhole => CallsWhole'
    BY <2>2 DEF CallsWhole
  <2> QED
    BY <2>3, <2>4, <2>5
<1> QED
  BY <1>1, <1>2

\* A step of the user or the application that takes no event and calls for no
\* connection: of the channels that stay wanted it closes none.
LEMMA AppReturns ==
  ASSUME IInv, ReturnInv, UNCHANGED <<events, wire, joining, live>>, slips \subseteq slips',
         cmds' = cmds \/ \E q \in Requests : cmds' = Append(cmds, q),
         wanted' \subseteq wanted, \A c \in wanted' : HasTab(c) => HasTab(c)'
  PROVE  ReturnInv'
<1>1. /\ \A c : Summoned(c) => Summoned(c)'
      /\ Calls' = Calls
      /\ CallsWhole => CallsWhole'
  BY CallsAfter DEF IInv, Types, ChatType
<1>2. Recalled' => Recalled
  BY DEF Recalled
<1>3. Stopped' = Stopped
  BY <1>1 DEF Stopped
<1>4. \A c \in wanted' : Coming(c) => Coming(c)'
  BY <1>1 DEF Coming, InTurn, Asked, Answered
<1>5. \A c \in wanted' : Back(c) => Back(c)'
  BY <1>1 DEF Back
<1>6. NoneMissing => NoneMissing'
  BY <1>3, <1>4, <1>5 DEF NoneMissing
<1> QED
  BY <1>1, <1>2, <1>6 DEF ReturnInv

\* A join is given up by the application.
LEMMA RejectedReturns ==
  ASSUME tabs \in Seq(TabSet), NEW d, reject_pending_join(d)
  PROVE  /\ wanted' = wanted \ {d} /\ slips \subseteq slips'
         /\ \A c \in wanted' : HasTab(c) => HasTab(c)'
<1>1. /\ wanted' = wanted \ {d} /\ slips \subseteq slips'
      /\ tabs' = IF Waiting(d) = 0 THEN tabs ELSE WithoutTab(Waiting(d))
  BY DEF reject_pending_join, Waiting
<1>2. CASE tabs' = tabs
  BY <1>1, <1>2 DEF HasTab
<1>3. CASE Waiting(d) # 0 /\ tabs' = WithoutTab(Waiting(d))
  <2>1. Waiting(d) \in DOMAIN tabs /\ tabs[Waiting(d)].channel = d
    BY <1>3, TabFound
  <2>2. \A c \in wanted' : c # tabs[Waiting(d)].channel
    BY <1>1, <2>1
  <2>3. \A c \in wanted' : HasTab(c) => HasTab(c)'
    BY <1>3, <2>1, <2>2, OthersStay
  <2> QED
    BY <1>1, <2>3
<1> QED
  BY <1>1, <1>2, <1>3

\* A press, a line, the end of an animation, a dialog or a deadline.
LEMMA UserReturns ==
  ASSUME IInv, ReturnInv,
         \/ \E c \in Channels : join_channel_target(c)
         \/ \E p \in DOMAIN tabs : begin_tab_close(p) \/ send_message(p)
         \/ begin_warning_close \/ finish_tab_close \/ expire_awaited_joins \/ flush_rosters
         \/ WarningGoesElsewhere \/ \E from, to \in DOMAIN tabs : finish_tab_drag(from, to)
  PROVE  ReturnInv'
<1>1. /\ tabs \in Seq(TabSet) /\ tab_close \in Nat /\ cmds \in Seq(Requests \cup Connects)
      /\ typed \in Seq(Channels)
  BY DEF IInv, Types, AppType, ChatType, LineType
<1>2. UNCHANGED <<events, wire, joining, live>>
  BY DEF join_channel_target, begin_tab_close, send_message, begin_warning_close,
         WarningGoesElsewhere, finish_tab_drag, finish_tab_close, expire_awaited_joins, flush_rosters, chatVars, serviceVars
<1>3. ASSUME NEW c \in Channels, join_channel_target(c)
      PROVE  ReturnInv'
  <2>1. wanted' = wanted /\ slips' = slips
    BY <1>3 DEF join_channel_target, history
  <2>2. CASE tabs' = tabs /\ cmds' = cmds
    BY <1>2, <2>1, <2>2, AppReturns DEF HasTab
  <2>3. CASE tabs' = Append(tabs, pending_live(c)) /\ cmds' = Append(cmds, Request("Join", c, 0, 0))
    <3>1. Request("Join", c, 0, 0) \in Requests
      BY <1>3, RequestShapes
    <3>2. pending_live(c) \in TabSet
      BY <1>3, NewTabs
    <3>3. \A k \in DOMAIN tabs : k \in DOMAIN tabs' /\ tabs'[k] = tabs[k]
      BY <1>1, <2>3, <3>2, AppendPlaces
    <3>4. \A d \in wanted' : HasTab(d) => HasTab(d)'
      BY <3>3 DEF HasTab
    <3> QED
      BY <1>2, <2>1, <2>3, <3>1, <3>4, AppReturns
  <2> QED
    BY <1>3, <2>2, <2>3 DEF join_channel_target
<1>4. ASSUME NEW p \in DOMAIN tabs, begin_tab_close(p)
      PROVE  ReturnInv'
  <2>1. UNCHANGED <<tabs, cmds, wanted, slips>>
    BY <1>4 DEF begin_tab_close, history
  <2> QED
    BY <1>2, <2>1, AppReturns DEF HasTab
<1>5. ASSUME NEW p \in DOMAIN tabs, send_message(p)
      PROVE  ReturnInv'
  <2> DEFINE q == Request("Say", NoChannel, tabs[p].channel_index, Len(typed) + 1)
  <2>1. /\ UNCHANGED <<tabs, wanted, slips>> /\ cmds' = Append(cmds, q)
        /\ tabs[p].channel_index # 0
    BY <1>5 DEF send_message, appVars
  <2>2. q \in Requests
    <3>1. tabs[p].channel_index \in Indices /\ Len(typed) + 1 \in Nat
      BY <1>1, <2>1, TabTypes
    <3> QED
      BY <3>1, RequestShapes
  <2> HIDE DEF q
  <2> QED
    BY <1>2, <2>1, <2>2, AppReturns DEF HasTab
<1>6. CASE begin_warning_close
  <2> DEFINE p == warning.close_tab
  <2>1. cmds' = cmds /\ slips \subseteq slips'
    BY <1>6 DEF begin_warning_close
  <2>2. CASE p \in DOMAIN tabs
    <3>1. tabs' = WithoutTab(p) /\ wanted' = wanted \ {tabs[p].channel}
      BY <1>6, <2>2 DEF begin_warning_close
    <3>2. \A c \in wanted' : HasTab(c) => HasTab(c)'
      BY <1>1, <2>2, <3>1, OthersStay
    <3> QED
      BY <1>2, <2>1, <3>1, <3>2, AppReturns
  <2>3. CASE p \notin DOMAIN tabs
    <3>1. UNCHANGED <<tabs, wanted>>
      BY <1>6, <2>3 DEF begin_warning_close
    <3> QED
      BY <1>2, <2>1, <3>1, AppReturns DEF HasTab
  <2> QED
    BY <2>2, <2>3
<1>7. CASE finish_tab_close
  <2>1. CASE tab_close > Len(tabs)
    <3>1. UNCHANGED <<tabs, cmds, wanted, slips>>
      BY <1>7, <2>1 DEF finish_tab_close
    <3> QED
      BY <1>2, <3>1, AppReturns DEF HasTab
  <2>2. CASE ~(tab_close > Len(tabs))
    <3> DEFINE i == tabs[tab_close].channel_index
               q == Request("Leave", NoChannel, i, 0)
    <3>1. tab_close \in DOMAIN tabs
      <4>1. Len(tabs) \in Nat /\ DOMAIN tabs = 1 .. Len(tabs) /\ tab_close # 0
        BY <1>1, <1>7 DEF finish_tab_close
      <4> QED
        BY <1>1, <2>2, <4>1
    <3>2. /\ tabs' = RemoveAt(tabs, tab_close) /\ cmds' = IF i = 0 THEN cmds ELSE Append(cmds, q)
          /\ wanted' = wanted \ {tabs[tab_close].channel} /\ slips \subseteq slips'
      BY <1>7, <2>2 DEF finish_tab_close
    <3>3. i # 0 => q \in Requests
      BY <1>1, <3>1, TabTypes, RequestShapes
    <3> HIDE DEF i, q
    <3>4. cmds' = cmds \/ \E r \in Requests : cmds' = Append(cmds, r)
      BY <3>2, <3>3
    <3>5. \A c \in wanted' : HasTab(c) => HasTab(c)'
      BY <1>1, <3>1, <3>2, OthersStay
    <3> QED
      BY <1>2, <3>2, <3>4, <3>5, AppReturns
  <2> QED
    BY <2>1, <2>2
<1>8. CASE expire_awaited_joins
  <2>1. PICK c : reject_pending_join(c) /\ cmds' = cmds
    BY <1>8 DEF expire_awaited_joins
  <2>2. /\ wanted' \subseteq wanted /\ slips \subseteq slips'
        /\ \A d \in wanted' : HasTab(d) => HasTab(d)'
    BY <1>1, <2>1, RejectedReturns
  <2> QED
    BY <1>2, <2>1, <2>2, AppReturns
<1>9. CASE flush_rosters
  <2>1. UNCHANGED <<cmds, wanted, slips>> /\ DOMAIN tabs' = DOMAIN tabs
    BY <1>9 DEF flush_rosters, history
  <2>2. ASSUME NEW p \in DOMAIN tabs
        PROVE  tabs'[p].channel = tabs[p].channel
    <3> DEFINE i == tabs[p].channel_index
               t == tabs[p]
    <3>1. t \in TabSet
      BY <1>1
    <3>2. CASE tabs'[p] = apply_roster_snapshot(tabs[p], i)
      <4>1. tabs'[p] = [t EXCEPT !.users = pending_rosters[i].users, !.complete = pending_rosters[i].complete]
        BY <3>2 DEF apply_roster_snapshot
      <4> HIDE DEF t
      <4>2. tabs'[p].channel = t.channel
        BY <3>1, <4>1 DEF TabSet
      <4> QED
        BY <4>2 DEF t
    <3>3. CASE tabs'[p] = tabs[p]
      BY <3>3
    <3> QED
      BY <1>9, <3>2, <3>3 DEF flush_rosters
  <2>3. \A c \in wanted' : HasTab(c) => HasTab(c)'
    BY <2>1, <2>2 DEF HasTab
  <2> QED
    BY <1>2, <2>1, <2>3, AppReturns
<1>10. CASE WarningGoesElsewhere
  <2>1. UNCHANGED <<tabs, cmds, wanted>> /\ slips \subseteq slips'
    BY <1>10 DEF WarningGoesElsewhere
  <2> QED
    BY <1>2, <2>1, AppReturns DEF HasTab
<1>11. ASSUME NEW from \in DOMAIN tabs, NEW to \in DOMAIN tabs, finish_tab_drag(from, to)
       PROVE  ReturnInv'
  <2>1. /\ UNCHANGED <<cmds, wanted>> /\ slips \subseteq slips' /\ from # to
        /\ tabs' = [p \in DOMAIN tabs |-> tabs[Carried(p, from, to)]]
    BY <1>11 DEF finish_tab_drag
  <2>2. \A q \in DOMAIN tabs : \E p \in DOMAIN tabs' : tabs'[p] = tabs[q]
    <3>1. OneTab
      BY DEF IInv, Types
    <3>2. /\ DOMAIN tabs' = DOMAIN tabs
          /\ \A q \in DOMAIN tabs : \E p \in DOMAIN tabs : Carried(p, from, to) = q /\ tabs'[p] = tabs[q]
      BY <1>1, <2>1, <3>1, DraggedTabs, Zenon
    <3> QED
      BY <3>2
  <2>3. \A c \in wanted' : HasTab(c) => HasTab(c)'
    BY <2>2 DEF HasTab
  <2> QED
    BY <1>2, <2>1, <2>3, AppReturns
<1> QED
  BY <1>3, <1>4, <1>5, <1>6, <1>7, <1>8, <1>9, <1>10, <1>11

\* RECONNECT: unless a wanted channel has no tab any more, the call names them all.
LEMMA ReconnectReturns ==
  ASSUME IInv, ReturnInv, reconnect
  PROVE  ReturnInv'
<1> DEFINE open == [p \in DOMAIN tabs |-> tabs[p].channel]
           q == Connect(open)
<1>1. /\ cmds' = Append(cmds, q) /\ wanted' = wanted \union ToSet(open)
      /\ slips' = slips \union Slip("forgotten", ~(wanted \subseteq ToSet(open)) \/ Len(open) > MaxJoined)
      /\ warning.kind = "disconnected" \/ connecting = "failed"
  BY DEF reconnect
<1>2. tabs \in Seq(TabSet) /\ cmds \in Seq(Requests \cup Connects) /\ MaxJoined \in Nat
  BY ChannelsAssumption DEF IInv, Types, AppType, ChatType
<1>3. open \in Seq(Channels)
  <2>1. \A p \in 1 .. Len(tabs) : tabs[p].channel \in Channels
    BY <1>2, TabTypes
  <2> QED
    BY <1>2, <2>1
<1> HIDE DEF open
<1>4. q \in Connects /\ q.type = "Connect" /\ q.channels = open
  BY <1>3 DEF Connects, Connect
<1>5. \A c \in ToSet(open) : \E l \in DOMAIN open : open[l] = c
  BY DEF ToSet
<1> HIDE DEF q
<1>6. ~Calls
  BY <1>1 DEF IInv, Course, FailureShown, Stopped
<1>7. /\ DOMAIN cmds' = 1 .. Len(cmds) + 1 /\ Len(cmds) \in Nat
      /\ cmds'[Len(cmds) + 1] = q
      /\ \A k \in DOMAIN cmds' : (k \in DOMAIN cmds /\ cmds'[k] = cmds[k]) \/ k = Len(cmds) + 1
  <2>1. q \in Requests \cup Connects
    BY <1>4
  <2> QED
    BY <1>1, <1>2, <2>1, AppendPlaces
<1>8. SUFFICES ASSUME Recalled'
               PROVE  CallsWhole' /\ NoneMissing'
  BY DEF ReturnInv
<1>9. wanted \subseteq ToSet(open) /\ ~(Len(open) > MaxJoined)
  BY <1>1, <1>8 DEF Recalled, Slip
<1>10. Len(open) <= MaxJoined
  <2>1. Len(open) \in Nat
    BY <1>3
  <2> QED
    BY <1>2, <1>9, <2>1
<1>11. CallsWhole'
  BY <1>4, <1>6, <1>7, <1>10 DEF CallsWhole, Calls
<1>12. ASSUME NEW c \in wanted'
       PROVE  Summoned(c)'
  <2>1. PICK l \in DOMAIN open : open[l] = c
    BY <1>1, <1>5, <1>9
  <2>2. Len(cmds) + 1 \in DOMAIN cmds'
    BY <1>7
  <2> QED
    BY <1>4, <1>7, <2>1, <2>2 DEF Summoned
<1> QED
  BY <1>11, <1>12 DEF NoneMissing, Coming

\* An event of the application: a channel it answers for is back, or not wanted any more.
LEMMA HandleReturns ==
  ASSUME IInv, ReturnInv, handle_client_event
  PROVE  ReturnInv'
<1> DEFINE e == Head(events)
<1>1. /\ events # <<>> /\ events' = Tail(events) /\ UNCHANGED <<cmds, wire, joining, live>>
  BY DEF handle_client_event, chatVars, serviceVars
<1>2. tabs \in Seq(TabSet) /\ events \in Seq(Events)
  BY DEF IInv, Types, AppType, ChatType
<1>3. /\ e \in Events /\ e = events[1] /\ 1 \in DOMAIN events
      /\ \A k \in DOMAIN events' : k \in Nat \ {0} /\ k + 1 \in DOMAIN events /\ events'[k] = events[k + 1]
      /\ \A k \in DOMAIN events : k # 1 =>
           k \in Nat \ {0} /\ k - 1 \in DOMAIN events' /\ events'[k - 1] = events[k]
  BY <1>1, <1>2, TakenPlaces
<1>5. ~Has(events', "WebAuthentication")
  <2> SUFFICES ASSUME NEW k \in DOMAIN events', events'[k].type = "WebAuthentication"
               PROVE  FALSE
    BY DEF Has
  <2>1. k + 1 \in DOMAIN events /\ events[k + 1].type = "WebAuthentication" /\ k \in Nat \ {0}
    BY <1>3
  <2>2. k + 1 = 1
    BY <2>1 DEF IInv, Course, StageFirst
  <2> QED
    BY <2>1, <2>2
<1>6. e.type \in {"Joined", "JoinRejected", "Roster", "Removed", "Message"} \cup StageNames
  BY <1>3 DEF Events
<1>7. \A c : Answered(c) => Answers(e, c) \/ Answered(c)'
  BY <1>3 DEF Answered
<1> HIDE DEF e
<1>8. \A c : ~Answers(e, c) /\ Coming(c) => Coming(c)'
  BY <1>1, <1>7 DEF Coming, Summoned, InTurn, Asked
<1>9. ASSUME wanted' \subseteq wanted, slips \subseteq slips',
             \A c \in wanted' : \/ HasTab(c)'
                                \/ ~Answers(e, c) /\ (Has(events, "WebAuthentication") \/ ~HasTab(c))
      PROVE  ReturnInv'
  <2>1. CallsWhole' = CallsWhole /\ Calls' = Calls /\ Stopped' = Stopped
    BY <1>1 DEF CallsWhole, Calls, Stopped
  <2>2. Recalled' => Recalled
    BY <1>9 DEF Recalled
  <2>3. ASSUME NEW c \in wanted', Coming(c) \/ Back(c)
        PROVE  Coming(c)' \/ Back(c)'
    <3>1. CASE Coming(c) /\ ~Answers(e, c)
      BY <1>8, <3>1
    <3>2. CASE Calls
      <4>1. events = <<>>
        BY <3>2 DEF IInv, Course, Called, Calls
      <4> QED
        BY <1>1, <4>1
    <3>3. CASE ~Calls /\ HasTab(c)'
      BY <1>5, <2>1, <3>3 DEF Back
    <3>4. CASE Back(c) /\ ~HasTab(c)'
      BY <1>9, <3>4 DEF Back
    <3> QED
      BY <1>9, <2>3, <3>1, <3>2, <3>3, <3>4
  <2>4. NoneMissing => NoneMissing'
    BY <1>9, <2>1, <2>3 DEF NoneMissing
  <2> QED
    BY <2>1, <2>2, <2>4 DEF ReturnInv
<1>10. CASE e.type = "Joined"
  <2>0. PICK i, c : i = e.channel_index /\ c = e.channel
    OBVIOUS
  <2>1. OnJoined(e)
    BY <1>10 DEF handle_client_event, e
  <2>2. /\ tabs' = IF TabOf(c) = 0 THEN Append(tabs, Tab(c, i))
                   ELSE [tabs EXCEPT ![TabOf(c)].channel_index = i]
        /\ slips \subseteq slips' /\ wanted' = wanted
    BY <2>0, <2>1 DEF OnJoined
  <2>3. i \in Indices /\ c \in Channels
    BY <1>3, <1>10, <2>0 DEF Events
  <2>4. \A d : Answers(e, d) => d = c
    BY <2>0 DEF Answers
  <2>5. HasTab(c)' /\ \A d : HasTab(d) => HasTab(d)'
    <3>1. CASE TabOf(c) = 0
      <4>1. tabs' = Append(tabs, Tab(c, i)) /\ Tab(c, i) \in TabSet /\ Tab(c, i).channel = c
        BY <2>2, <2>3, <3>1, NewTabs
      <4>2. /\ \A k \in DOMAIN tabs : k \in DOMAIN tabs' /\ tabs'[k] = tabs[k]
            /\ Len(tabs) + 1 \in DOMAIN tabs' /\ tabs'[Len(tabs) + 1] = Tab(c, i)
        BY <1>2, <4>1, AppendPlaces
      <4>3. HasTab(c)'
        BY <4>1, <4>2 DEF HasTab
      <4>4. \A d : HasTab(d) => HasTab(d)'
        BY <4>2 DEF HasTab
      <4> QED
        BY <4>3, <4>4
    <3>2. CASE TabOf(c) # 0
      <4>1. PICK p \in DOMAIN tabs : tabs[p].channel = c /\ tabs' = [tabs EXCEPT ![p].channel_index = i]
        BY <1>2, <2>2, <3>2, TabFound
      <4>2. \A k \in DOMAIN tabs : tabs[k] \in TabSet
        BY <1>2
      <4>3. DOMAIN tabs' = DOMAIN tabs /\ \A k \in DOMAIN tabs : tabs'[k].channel = tabs[k].channel
        BY <4>1, <4>2 DEF TabSet
      <4>4. HasTab(c)'
        BY <4>1, <4>3 DEF HasTab
      <4>5. \A d : HasTab(d) => HasTab(d)'
        BY <4>3 DEF HasTab
      <4> QED
        BY <4>4, <4>5
    <3> QED
      BY <3>1, <3>2
  <2>6. ASSUME NEW d \in wanted'
        PROVE  HasTab(d)' \/ (~Answers(e, d) /\ ~HasTab(d))
    BY <2>4, <2>5
  <2> QED
    BY <1>9, <2>2, <2>6
<1>11. CASE e.type = "JoinRejected"
  <2>1. reject_pending_join(e.channel)
    BY <1>11 DEF handle_client_event, OnJoinRejected, e
  <2>2. /\ wanted' = wanted \ {e.channel} /\ slips \subseteq slips'
        /\ \A c \in wanted' : HasTab(c) => HasTab(c)'
    BY <1>2, <2>1, RejectedReturns
  <2>3. \A c \in wanted' : ~Answers(e, c)
    BY <2>2 DEF Answers
  <2> QED
    BY <1>9, <2>2, <2>3
<1>12. CASE e.type \in {"Roster", "Removed", "Message"}
  <2>1. tabs' = tabs /\ wanted' = wanted /\ slips \subseteq slips'
    BY <1>12 DEF handle_client_event, OnRoster, OnRemoved, OnMessage, e
  <2>2. \A c : HasTab(c)' = HasTab(c) /\ ~Answers(e, c)
    BY <1>12, <2>1 DEF HasTab, Answers
  <2> QED
    BY <1>9, <2>1, <2>2
<1>13. CASE e.type \in StageNames
  <2>1. OnStage(e)
    BY <1>13 DEF handle_client_event, StageNames, e
  <2>2. wanted' = wanted /\ slips \subseteq slips'
    BY <2>1 DEF OnStage
  <2>3. \A c : ~Answers(e, c)
    BY <1>13 DEF StageNames, Answers
  <2>4. CASE e.type = "WebAuthentication"
    <3>1. Has(events, "WebAuthentication")
      BY <1>3, <2>4 DEF Has
    <3> QED
      BY <1>9, <2>2, <2>3, <3>1
  <2>5. CASE e.type # "WebAuthentication"
    <3>1. tabs' = tabs
      BY <2>1, <2>5 DEF OnStage
    <3>2. \A c : HasTab(c)' = HasTab(c)
      BY <3>1 DEF HasTab
    <3> QED
      BY <1>9, <2>2, <2>3, <3>2
  <2> QED
    BY <2>4, <2>5
<1> QED
  BY <1>6, <1>10, <1>11, <1>12, <1>13

\* The connection ends: nothing comes back before the next RECONNECT.
LEMMA StopReturns ==
  ASSUME IInv, live, Ends, cmds' = cmds \/ (cmds # <<>> /\ cmds' = Tail(cmds))
  PROVE  ReturnInv'
<1>1. joining = <<>> /\ ~Calls
  BY DEF IInv, Course, Dialing, Called, Calls
<1>2. ~live' /\ joining' = joining
  BY DEF Ends
<1>3. ~Calls'
  <2>1. CASE cmds' = cmds
    BY <1>1, <2>1 DEF Calls
  <2>2. CASE cmds # <<>> /\ cmds' = Tail(cmds)
    <3>1. \A k \in DOMAIN cmds' : k + 1 \in DOMAIN cmds /\ cmds'[k] = cmds[k + 1]
      BY <2>2, TailPlaces DEF IInv, Types, ChatType
    <3> QED
      BY <1>1, <3>1 DEF Calls
  <2> QED
    BY <2>1, <2>2
<1>4. Stopped' /\ CallsWhole'
  BY <1>1, <1>2, <1>3 DEF Stopped, Calls, CallsWhole
<1> QED
  BY <1>4 DEF ReturnInv, NoneMissing

\* A step of a connection that is up: a request that goes is answered.
LEMMA WorkReturns ==
  ASSUME IInv, ReturnInv, live, UNCHANGED <<tabs, wanted, joining, live>>, slips \subseteq slips',
         cmds' = cmds \/ (cmds # <<>> /\ cmds' = Tail(cmds)),
         NEW es \in Seq(Events), events' = events \o es, ~Has(es, "WebAuthentication"),
         Recalled' => \A c : Asked(c) => Asked(c)' \/ Answered(c)'
  PROVE  ReturnInv'
<1>1. joining = <<>> /\ ~Calls
  BY DEF IInv, Course, Dialing, Called, Calls
<1>2. ~Calls'
  <2>1. CASE cmds' = cmds
    BY <1>1, <2>1 DEF Calls
  <2>2. CASE cmds # <<>> /\ cmds' = Tail(cmds)
    <3>1. \A k \in DOMAIN cmds' : k + 1 \in DOMAIN cmds /\ cmds'[k] = cmds[k + 1]
      BY <2>2, TailPlaces DEF IInv, Types, ChatType
    <3> QED
      BY <1>1, <3>1 DEF Calls
  <2> QED
    BY <2>1, <2>2
<1>3. /\ \A k \in DOMAIN events : k \in DOMAIN events' /\ events'[k] = events[k]
      /\ \A k \in DOMAIN events' :
           \/ k \in DOMAIN events /\ events'[k] = events[k]
           \/ k - Len(events) \in DOMAIN es /\ events'[k] = es[k - Len(events)]
  BY Emission DEF IInv, Types, ChatType
<1>4. Has(events', "WebAuthentication") => Has(events, "WebAuthentication")
  BY <1>3 DEF Has
<1>5. SUFFICES ASSUME Recalled'
               PROVE  CallsWhole' /\ NoneMissing'
  BY DEF ReturnInv
<1>6. Recalled
  BY <1>5 DEF Recalled
<1>7. CallsWhole' /\ ~Stopped
  BY <1>2 DEF CallsWhole, Calls, Stopped
<1>8. ASSUME NEW c \in wanted
      PROVE  (Coming(c) \/ Back(c))'
  <2>1. Coming(c) \/ Back(c)
    BY <1>6, <1>7 DEF ReturnInv, NoneMissing
  <2>2. ~Summoned(c) /\ ~InTurn(c)
    BY <1>1 DEF Summoned, InTurn, Calls
  <2>3. CASE Asked(c)
    BY <1>5, <2>3 DEF Coming
  <2>4. CASE Answered(c)
    <3>1. Answered(c)'
      BY <1>3, <2>4 DEF Answered
    <3> QED
      BY <3>1 DEF Coming
  <2>5. CASE Back(c)
    BY <1>2, <1>4, <2>5 DEF Back, HasTab
  <2> QED
    BY <2>1, <2>2, <2>3, <2>4, <2>5 DEF Coming
<1> QED
  BY <1>7, <1>8 DEF NoneMissing

\* A command of a connection that is up.
LEMMA RunReturns ==
  ASSUME IInv, ReturnInv, run_live
  PROVE  ReturnInv'
<1>1. /\ live /\ cmds # <<>> /\ cmds' = Tail(cmds) /\ Head(cmds) \in Requests
      /\ UNCHANGED <<tabs, wanted>>
      /\ events \in Seq(Events) /\ wire \in Seq(Requests) /\ Types
  BY RunLiveKeeps DEF run_live, appVars
<1>2. \/ Ends
      \/ /\ UNCHANGED <<joining, live>> /\ slips \subseteq slips'
         /\ \E w \in Requests : wire' = Append(wire, w)
         /\ \E es \in Seq(Events) : events' = events \o es /\ Plain(es)
  <2>1. CASE ChatJoin(Head(cmds).channel) /\ Head(cmds).type = "Join"
    <3> DEFINE w == Request("Join", Head(cmds).channel, 0, last_token + 1)
    <3>1. w \in Requests
      BY <1>1, <2>1, RequestShapes DEF Types, ChatType
    <3>2. UNCHANGED <<joining, live, slips, events>> /\ wire' = Append(wire, w)
      BY <2>1 DEF ChatJoin
    <3> HIDE DEF w
    <3>3. events' = events \o <<>> /\ <<>> \in Seq(Events) /\ Plain(<<>>)
      BY <1>1, <3>2, NoEmission
    <3> QED
      BY <3>1, <3>2, <3>3
  <2>2. CASE leave_channel(Head(cmds).channel_index) /\ Head(cmds).type = "Leave"
    <3> DEFINE i == Head(cmds).channel_index
               w == Request("Leave", NoChannel, i, 0)
    <3>1. w \in Requests
      BY <1>1, <2>2, RequestShapes
    <3>2. Ends \/ (UNCHANGED <<joining, live, slips, events>> /\ wire' = Append(wire, w))
      BY <2>2 DEF leave_channel
    <3> HIDE DEF w
    <3>3. events' = events => events' = events \o <<>> /\ <<>> \in Seq(Events) /\ Plain(<<>>)
      BY <1>1, NoEmission
    <3> QED
      BY <3>1, <3>2, <3>3
  <2>3. CASE ChatSay(Head(cmds).channel_index, Head(cmds).key) /\ Head(cmds).type = "Say"
    <3> DEFINE i == Head(cmds).channel_index
               n == Head(cmds).key
               w == Request("Say", NoChannel, i, n)
               e == Message(i, n)
    <3>1. w \in Requests /\ e \in Events /\ e.type = "Message"
      BY <1>1, <2>3, RequestShapes, EventShapes, EventFields
    <3>2. \/ Ends
          \/ /\ UNCHANGED <<joining, live>> /\ slips \subseteq slips'
             /\ wire' = Append(wire, w) /\ events' = events \o <<e>>
      BY <2>3 DEF ChatSay, Emit
    <3> HIDE DEF w, e
    <3>3. <<e>> \in Seq(Events) /\ Plain(<<e>>)
      BY <3>1, OneEmission DEF StageNames
    <3> QED
      BY <3>1, <3>2, <3>3
  <2> QED
    BY <2>1, <2>2, <2>3 DEF run_live
<1>3. CASE Ends
  BY <1>1, <1>3, StopReturns
<1>4. ASSUME UNCHANGED <<joining, live>>, slips \subseteq slips',
             NEW w \in Requests, wire' = Append(wire, w),
             NEW es \in Seq(Events), events' = events \o es, Plain(es)
      PROVE  ReturnInv'
  <2>1. ~Has(es, "WebAuthentication")
    BY <1>4 DEF Plain, Has, StageNames
  <2>2. \A k \in DOMAIN wire : k \in DOMAIN wire' /\ wire'[k] = wire[k]
    BY <1>1, <1>4, AppendPlaces
  <2>3. \A c : Asked(c) => Asked(c)'
    BY <2>2 DEF Asked
  <2> QED
    BY <1>1, <1>4, <2>1, <2>3, WorkReturns
<1> QED
  BY <1>2, <1>3, <1>4

\* A call with no more channels than a connection may have is taken whole.
LEMMA NormalizedWhole ==
  ASSUME NEW cs \in Seq(Channels), Len(cs) <= MaxJoined, NEW l \in DOMAIN cs
  PROVE  \E k \in DOMAIN normalized_channels(cs) : normalized_channels(cs)[k] = cs[l]
<1> DEFINE S == {Len(cs), MaxJoined}
           m == Min(S)
<1>1. S \in SUBSET Nat /\ S # {} /\ Len(cs) \in Nat /\ DOMAIN cs = 1 .. Len(cs) /\ MaxJoined \in Nat
  BY ChannelsAssumption
<1> HIDE DEF S
<1>2. m \in S /\ \A y \in S : m <= y
  BY <1>1, MinIsMember
<1>3. cs # <<>>
  BY <1>1
<1>4. normalized_channels(cs) = SubSeq(cs, 1, m)
  BY <1>3 DEF normalized_channels, S
<1> HIDE DEF m
<1>5. m = Len(cs)
  <2>1. m <= Len(cs) /\ (m = Len(cs) \/ m = MaxJoined)
    BY <1>2 DEF S
  <2> QED
    BY <1>1, <2>1
<1>6. (\A k \in 1 .. m : cs[k] \in Channels) /\ 1 \in Int /\ m \in Int
  BY <1>1, <1>5
<1> DEFINE t == SubSeq(cs, 1, m)
<1>7. /\ t \in Seq(Channels) /\ Len(t) = (IF 1 <= m THEN m - 1 + 1 ELSE 0)
      /\ \A k \in 1 .. m - 1 + 1 : t[k] = cs[1 + k - 1]
  BY <1>6, SubSeqProperties
<1> HIDE DEF t
<1>8. l \in 1 .. m - 1 + 1 /\ 1 + l - 1 = l /\ 1 <= m /\ m - 1 + 1 = m
  BY <1>1, <1>5
<1>9. l \in DOMAIN t /\ t[l] = cs[l]
  BY <1>7, <1>8
<1> QED
  BY <1>4, <1>9 DEF t

\* A command between two connections is not a call: the call is still to be taken.
LEMMA IgnoreReturns ==
  ASSUME IInv, ReturnInv, IdleIgnores
  PROVE  ReturnInv'
<1>1. /\ ~live /\ joining = <<>> /\ cmds # <<>> /\ cmds' = Tail(cmds) /\ Head(cmds).type # "Connect"
      /\ UNCHANGED <<tabs, events, live, joining, wire, wanted, slips>>
  BY DEF IdleIgnores, Idle, appVars, chatVars, serviceVars, history
<1>2. /\ cmds \in Seq(Requests \cup Connects) /\ Head(cmds) = cmds[1]
      /\ \A k \in DOMAIN cmds' : k + 1 \in DOMAIN cmds /\ cmds'[k] = cmds[k + 1]
      /\ Len(cmds') = Len(cmds) - 1
  BY <1>1, TailPlaces DEF IInv, Types, ChatType
<1>3. \A k \in DOMAIN cmds : k # 1 => k - 1 \in DOMAIN cmds' /\ cmds'[k - 1] = cmds[k]
  <2> SUFFICES ASSUME NEW k \in DOMAIN cmds, k # 1
               PROVE  k - 1 \in DOMAIN cmds' /\ cmds'[k - 1] = cmds[k]
    OBVIOUS
  <2>1. cmds' \in Seq(Requests \cup Connects)
    BY <1>1, <1>2, TailPlaces
  <2>2. k - 1 \in 1 .. Len(cmds') /\ (k - 1) + 1 = k
    BY <1>2, <2>1
  <2>3. k - 1 \in DOMAIN cmds'
    BY <2>1, <2>2
  <2> QED
    BY <1>2, <2>2, <2>3
<1>4. CallsWhole => CallsWhole'
  BY <1>2 DEF CallsWhole
<1>5. Calls' = Calls
  <2>1. Calls' => Calls
    BY <1>2 DEF Calls
  <2>2. Calls => Calls'
    BY <1>1, <1>2, <1>3 DEF Calls
  <2> QED
    BY <2>1, <2>2 DEF Calls
<1>6. \A c : Summoned(c) => Summoned(c)'
  BY <1>1, <1>2, <1>3 DEF Summoned
<1>7. \A c : Coming(c) => Coming(c)'
  BY <1>1, <1>6 DEF Coming, InTurn, Asked, Answered
<1>8. \A c : Back(c) => Back(c)'
  BY <1>1, <1>5 DEF Back, HasTab
<1>9. Stopped' = Stopped /\ Recalled' = Recalled
  BY <1>1, <1>5 DEF Stopped, Recalled
<1> QED
  BY <1>1, <1>4, <1>7, <1>8, <1>9 DEF ReturnInv, NoneMissing

\* The call is taken: each of its channels is in turn to be joined.
LEMMA BeginReturns ==
  ASSUME IInv, ReturnInv, Begin
  PROVE  ReturnInv'
<1> DEFINE cs == Head(cmds).channels
<1>1. /\ ~live /\ joining = <<>> /\ cmds # <<>> /\ cmds' = Tail(cmds) /\ Head(cmds).type = "Connect"
      /\ joining' = normalized_channels(cs)
      /\ UNCHANGED <<wanted, slips>>
  BY DEF Begin, Idle, history
<1>2. /\ cmds \in Seq(Requests \cup Connects) /\ Head(cmds) = cmds[1] /\ 1 \in DOMAIN cmds
      /\ Tail(cmds) \in Seq(Requests \cup Connects) /\ Len(Tail(cmds)) = Len(cmds) - 1
  BY <1>1, TailPlaces DEF IInv, Types, ChatType
<1>3. 1 = Len(cmds) /\ events = <<>> /\ wire = <<>>
  BY <1>1, <1>2 DEF IInv, Course, Called, Offline
<1>4. cmds' = <<>>
  BY <1>1, <1>2, <1>3, EmptySeq
<1>5. cs \in Seq(Channels)
  BY <1>1, <1>2, Commands, RequestShapes
<1>6. SUFFICES ASSUME Recalled
               PROVE  CallsWhole' /\ NoneMissing'
  BY <1>1 DEF ReturnInv, Recalled
<1>7. CallsWhole'
  BY <1>4 DEF CallsWhole
<1>8. Len(cs) <= MaxJoined
  BY <1>1, <1>2, <1>6 DEF ReturnInv, CallsWhole
<1>9. Calls /\ ~Stopped
  BY <1>1, <1>2 DEF Calls, Stopped
<1>10. ASSUME NEW c \in wanted
       PROVE  InTurn(c)'
  <2>1. Coming(c)
    BY <1>6, <1>9 DEF ReturnInv, NoneMissing, Back
  <2>2. Summoned(c)
    BY <1>1, <1>3, <2>1 DEF Coming, InTurn, Asked, Answered
  <2>3. PICK l \in DOMAIN cs : cs[l] = c
    <3>1. PICK k \in DOMAIN cmds : /\ cmds[k].type = "Connect"
                                  /\ \E l \in DOMAIN cmds[k].channels : cmds[k].channels[l] = c
      BY <2>2 DEF Summoned
    <3>2. k = 1
      BY <1>3, <3>1 DEF IInv, Course, Called
    <3>3. \E l \in DOMAIN cmds[1].channels : cmds[1].channels[l] = c
      BY <3>1, <3>2
    <3> QED
      BY <1>2, <3>3
  <2> HIDE DEF cs
  <2>4. \E k \in DOMAIN joining' : joining'[k] = c
    BY <1>1, <1>5, <1>8, <2>3, NormalizedWhole
  <2> QED
    BY <2>4 DEF InTurn
<1> QED
  BY <1>1, <1>7, <1>10 DEF NoneMissing, Coming

\* The connection does not come up.
LEMMA FailReturns ==
  ASSUME IInv, EstablishFails
  PROVE  ReturnInv'
<1>1. joining # <<>> /\ joining' = <<>> /\ UNCHANGED <<cmds, live>>
  BY DEF EstablishFails
<1>2. ~live /\ cmds = <<>>
  BY <1>1, DialingEvents
<1>3. Stopped' /\ CallsWhole'
  BY <1>1, <1>2 DEF Stopped, Calls, CallsWhole
<1> QED
  BY <1>3 DEF ReturnInv, NoneMissing

\* The connection comes up: the first channel is answered for, the others are asked for.
LEMMA EstablishReturns ==
  ASSUME IInv, ReturnInv, Establish
  PROVE  ReturnInv'
<1>1. joining # <<>> /\ joining' = <<>> /\ UNCHANGED <<tabs, cmds, wanted>> /\ slips \subseteq slips'
  BY DEF Establish, appVars
<1>0. SUFFICES ASSUME Recalled'
                PROVE  CallsWhole' /\ NoneMissing'
  BY DEF ReturnInv
<1>2. joining \in Seq(Channels) /\ events \in Seq(Events)
  BY DEF IInv, Types, ChatType
<1>3. /\ Head(joining) \in Channels /\ Head(joining) = joining[1] /\ Tail(joining) \in Seq(Channels)
      /\ Len(joining) \in Nat \ {0} /\ Len(Tail(joining)) = Len(joining) - 1
      /\ \A k \in DOMAIN Tail(joining) : Tail(joining)[k] = joining[k + 1]
  BY <1>1, <1>2, TailPlaces
<1>4. PICK head \in Channels, others \in Seq(Channels) : head = Head(joining) /\ others = Tail(joining)
  BY <1>3
<1>5. PICK i \in Indices, refused \in BOOLEAN :
        /\ wire' = [k \in DOMAIN others |-> Request("Join", others[k], 0, last_token + k)]
        /\ events' = events \o Told(refused, head, i, IF refused THEN General ELSE head)
  <2>1. PICK asked \in Listed(head), i \in Indices, refused \in BOOLEAN :
          /\ wire' = [k \in DOMAIN others |-> Request("Join", others[k], 0, last_token + k)]
          /\ events' = events \o Told(refused, asked, i, IF refused THEN General ELSE asked)
          /\ slips' = slips \cup Slip("delisted", asked # head)
    BY <1>4 DEF Establish, Emit, Told, Entered
  <2>2. asked = head
    BY <1>0, <2>1 DEF Recalled, Slip
  <2> QED
    BY <2>1, <2>2
<1>6. PICK first \in Channels : first = IF refused THEN General ELSE head
  BY ChannelsAssumption
<1>7. refused \in BOOLEAN /\ events' = events \o Told(refused, head, i, first)
  BY <1>5, <1>6
<1>8. PICK es : es = Told(refused, head, i, first)
  OBVIOUS
<1>9. es \in Seq(Events) /\ \A k \in DOMAIN es : es[k].type # "WebAuthentication"
  BY <1>7, <1>8, ToldEvents
<1>10. \E k \in DOMAIN es : Answers(es[k], head)
  <2> DEFINE a == JoinRejected(head)
             b == Joined(i, first)
             c == Roster(i, Entered(first))
             d == Stage("Connected")
  <2>1. Answers(a, head) /\ (~refused => Answers(b, head))
    BY <1>6 DEF Answers, JoinRejected, Joined, Event
  <2>2. es = (IF refused THEN <<a>> ELSE <<>>) \o <<b, c, d>>
    BY <1>8 DEF Told
  <2>3. a \in Events /\ b \in Events /\ c \in Events /\ d \in Events
    <3>1. Entered(first) \in Slots
      BY EnteredSlot
    <3> QED
      BY <3>1, EventShapes DEF StageNames
  <2> HIDE DEF a, b, c, d
  <2>4. CASE refused
    <3> DEFINE s == <<a>>
               t == <<b, c, d>>
    <3>1. s \in Seq(Events) /\ Len(s) = 1 /\ s[1] = a /\ t \in Seq(Events) /\ Len(t) = 3
      BY <2>3
    <3>2. es = s \o t
      BY <2>2, <2>4
    <3> HIDE DEF s, t
    <3>3. s \in Seq(Events) /\ t \in Seq(Events)
      BY <3>1
    <3>4. DOMAIN (s \o t) = 1 .. Len(s) + Len(t) /\ \A k \in 1 .. Len(s) : (s \o t)[k] = s[k]
      <4> QED
        BY ONLY <3>3, ConcatPlaces
    <3>5. 1 \in DOMAIN es /\ es[1] = a
      BY <3>1, <3>2, <3>4
    <3> QED
      BY <2>1, <3>5
  <2>5. CASE ~refused
    <3>1. es = <<b, c, d>>
      BY <2>2, <2>3, <2>5
    <3>2. 1 \in DOMAIN es /\ es[1] = b
      BY <3>1
    <3> QED
      BY <2>1, <2>5, <3>2
  <2> QED
    BY <1>7, <2>4, <2>5
<1>11. /\ \A k \in DOMAIN events : k \in DOMAIN events' /\ events'[k] = events[k]
       /\ \A k \in DOMAIN events' :
            \/ k \in DOMAIN events /\ events'[k] = events[k]
            \/ k - Len(events) \in DOMAIN es /\ events'[k] = es[k - Len(events)]
       /\ Len(events') = Len(events) + Len(es) /\ Len(events) \in Nat /\ Len(es) \in Nat
       /\ events' \in Seq(Events)
  BY <1>2, <1>7, <1>8, <1>9, Emission
<1>12. \A k \in DOMAIN es : \E l \in DOMAIN events' : events'[l] = es[k]
  <2> SUFFICES ASSUME NEW k \in DOMAIN es
               PROVE  \E l \in DOMAIN events' : events'[l] = es[k]
    OBVIOUS
  <2>1. k \in 1 .. Len(es) /\ DOMAIN events = 1 .. Len(events) /\ DOMAIN events' = 1 .. Len(events')
    BY <1>2, <1>9, <1>11
  <2>2. Len(events) + k \in DOMAIN events' /\ Len(events) + k \notin DOMAIN events /\ (Len(events) + k) - Len(events) = k
    BY <1>11, <2>1
  <2>3. events'[Len(events) + k] = es[(Len(events) + k) - Len(events)]
    BY <1>11, <2>2
  <2> QED
    BY <2>2, <2>3
<1>13. /\ ~live /\ cmds = <<>> /\ wire = <<>>
  BY <1>1, DialingEvents
<1>15. CallsWhole' /\ ~Calls' /\ ~Stopped
  BY <1>1, <1>13 DEF CallsWhole, Calls, Stopped
<1>16. ASSUME NEW c \in wanted
       PROVE  (Coming(c) \/ Back(c))'
  <2>1. Coming(c) \/ Back(c)
    BY <1>1, <1>0, <1>15 DEF ReturnInv, NoneMissing, Recalled
  <2>2. CASE InTurn(c)
    <3>1. PICK k \in DOMAIN joining : joining[k] = c
      BY <2>2 DEF InTurn
    <3>2. CASE k = 1
      <4>1. c = head
        BY <1>3, <1>4, <3>1, <3>2
      <4>2. Answered(c)'
        BY <1>10, <1>12, <4>1 DEF Answered
      <4> QED
        BY <4>2 DEF Coming
    <3>3. CASE k # 1
      <4>1. k - 1 \in DOMAIN Tail(joining) /\ (k - 1) + 1 = k
        BY <1>2, <1>3, <3>3
      <4>2. k - 1 \in DOMAIN others /\ others[k - 1] = c
        BY <1>3, <1>4, <3>1, <4>1
      <4>3. k - 1 \in DOMAIN wire' /\ wire'[k - 1] = Request("Join", c, 0, last_token + (k - 1))
        BY <1>5, <4>2
      <4>4. Request("Join", c, 0, last_token + (k - 1)).type = "Join"
            /\ Request("Join", c, 0, last_token + (k - 1)).channel = c
        BY DEF Request
      <4>5. Asked(c)'
        BY <4>3, <4>4 DEF Asked
      <4> QED
        BY <4>5 DEF Coming
    <3> QED
      BY <3>2, <3>3
  <2>3. CASE Answered(c)
    <3>1. Answered(c)'
      BY <1>11, <2>3 DEF Answered
    <3> QED
      BY <3>1 DEF Coming
  <2>4. CASE Back(c)
    <3>1. ~Has(events', "WebAuthentication")
      BY <1>9, <1>11, <2>4 DEF Back, Has
    <3> QED
      BY <1>1, <1>15, <2>4, <3>1 DEF Back, HasTab
  <2>5. ~Summoned(c) /\ ~Asked(c)
    BY <1>13 DEF Summoned, Asked
  <2> QED
    BY <2>1, <2>2, <2>3, <2>4, <2>5 DEF Coming
<1> QED
  BY <1>1, <1>15, <1>16 DEF NoneMissing

-----------------------------------------------------------------------------
(* What the service answers, and the channels that are to come back.       *)

\* Of the requests on their way only the first goes.
LEMMA StillAsked ==
  ASSUME wire \in Seq(Requests), wire # <<>>, wire' = Tail(wire)
  PROVE  \A c : Asked(c) => Asked(c)' \/ (Head(wire).type = "Join" /\ Head(wire).channel = c)
<1> DEFINE rest == Tail(wire)
<1>1. /\ rest \in Seq(Requests) /\ Head(wire) = wire[1] /\ Len(wire) \in Nat /\ Len(rest) = Len(wire) - 1
      /\ \A k \in DOMAIN rest : rest[k] = wire[k + 1]
  BY TailPlaces
<1> HIDE DEF rest
<1>2. wire' = rest
  BY DEF rest
<1> SUFFICES ASSUME NEW c, NEW k \in DOMAIN wire, wire[k].type = "Join", wire[k].channel = c, k # 1
             PROVE  \E l \in DOMAIN rest : rest[l].type = "Join" /\ rest[l].channel = c
  BY <1>1, <1>2 DEF Asked
<1>3. k - 1 \in 1 .. Len(rest) /\ (k - 1) + 1 = k
  BY <1>1
<1>4. k - 1 \in DOMAIN rest
  BY <1>1, <1>3
<1>5. rest[k - 1] = wire[k]
  BY <1>1, <1>3, <1>4
<1> QED
  BY <1>4, <1>5

\* A record that is no answer, with or without a request that is no join.
LEMMA ToldReturns ==
  ASSUME IInv, ReturnInv, live, UNCHANGED <<tabs, cmds, wanted, joining, live>>, slips \subseteq slips',
         wire' = wire \/ (wire # <<>> /\ Head(wire).type # "Join" /\ wire' = Tail(wire)),
         NEW es \in Seq(Events), events' = events \o es, Plain(es)
  PROVE  ReturnInv'
<1>1. ~Has(es, "WebAuthentication")
  BY DEF Plain, Has, StageNames
<1>2. wire \in Seq(Requests)
  BY ServiceTypes
<1>3. \A c : Asked(c) => Asked(c)'
  <2>1. CASE wire' = wire
    BY <2>1 DEF Asked
  <2>2. CASE wire # <<>> /\ Head(wire).type # "Join" /\ wire' = Tail(wire)
    BY <1>2, <2>2, StillAsked
  <2> QED
    BY <2>1, <2>2
<1> QED
  BY <1>1, <1>3, WorkReturns

\* Rosters, removals and leaves.
LEMMA RosterReturns ==
  ASSUME IInv, ReturnInv,
         FirstRoster \/ TakeLeave \/ (\E c \in Channels : PeerMoves(c)) \/ (\E i \in Indices : Kick(i))
  PROVE  ReturnInv'
<1>1. Types /\ events \in Seq(Events)
  BY ServiceTypes
<1>2. /\ live /\ UNCHANGED <<tabs, cmds, wanted, slips>>
      /\ wire' = wire \/ (wire # <<>> /\ Head(wire).type # "Join" /\ wire' = Tail(wire))
  <2>1. CASE FirstRoster
    BY <2>1, Connected DEF FirstRoster, appVars, history
  <2>2. CASE TakeLeave
    BY <2>2, Connected DEF TakeLeave, appVars, history
  <2>3. ASSUME NEW c \in Channels, PeerMoves(c)
        PROVE  live /\ UNCHANGED <<tabs, cmds, wanted, slips, wire>>
    BY <2>3 DEF PeerMoves, News, appVars, history
  <2>4. ASSUME NEW i \in Indices, Kick(i)
        PROVE  live /\ UNCHANGED <<tabs, cmds, wanted, slips, wire>>
    BY <2>4 DEF Kick, News, appVars, history
  <2> QED
    BY <2>1, <2>2, <2>3, <2>4
<1>3. /\ UNCHANGED <<joining, live>>
      /\ \E es : es \in Seq(Events) /\ Plain(es) /\ events' = events \o es
  <2>1. CASE UNCHANGED <<events, chatVars>>
    <3>1. UNCHANGED <<joining, live>> /\ events' = events
      BY <2>1 DEF chatVars
    <3> QED
      BY <1>1, <3>1, NoEmission
  <2>2. ASSUME NEW i \in Indices, NEW roster \in SUBSET People, NEW end \in BOOLEAN, NEW mine_left \in BOOLEAN,
               ReceiveMembership(i, roster, end, mine_left)
        PROVE  /\ UNCHANGED <<joining, live>>
               /\ \E es : es \in Seq(Events) /\ Plain(es) /\ events' = events \o es
    BY <1>1, <2>2, Membership
  <2> QED
    BY <2>1, <2>2, RosterRecords
<1> QED
  BY <1>2, <1>3, ToldReturns

\* A line comes back.
LEMMA TakeSayReturns ==
  ASSUME IInv, ReturnInv, TakeSay
  PROVE  ReturnInv'
<1> DEFINE i == Head(wire).channel_index
           n == Head(wire).key
           e == Message(i, n)
<1>1. /\ wire # <<>> /\ Head(wire).type = "Say" /\ wire' = Tail(wire)
      /\ UNCHANGED <<tabs, cmds, wanted>>
  BY DEF TakeSay, appVars
<1>2. events \in Seq(Events) /\ wire \in Seq(Requests) /\ live
  BY <1>1, ServiceTypes, Connected
<1>3. Head(wire) \in Requests
  BY <1>1, <1>2, TailPlaces
<1>4. e \in Events /\ e.type = "Message"
  <2>1. i \in Indices /\ n \in Nat
    BY <1>1, <1>3, RequestShapes
  <2> QED
    BY <2>1, EventShapes, EventFields
<1>5. /\ UNCHANGED <<joining, live>> /\ slips \subseteq slips'
      /\ events' = events \/ events' = events \o <<e>>
  <2>1. CASE room[i] = NoChannel
    BY <2>1 DEF TakeSay, chatVars
  <2>2. CASE room[i] # NoChannel
    <3>1. PICK late \in 0 .. Len(typed) : ReceiveMessage(i, n, late)
      BY <2>2 DEF TakeSay
    <3> DEFINE kept == {x \in echoes : x.line > late}
               echo == [channel_index |-> i, line |-> n]
    <3>2. /\ UNCHANGED <<joining, live>> /\ slips \subseteq slips'
          /\ events' = events \o (IF echo \in kept THEN <<>> ELSE <<e>>)
      BY <3>1 DEF ReceiveMessage, Emit
    <3> HIDE DEF kept, echo, e
    <3>3. events \o <<>> = events
      BY <1>2, NoEmission
    <3> QED
      BY <3>2, <3>3
  <2> QED
    BY <2>1, <2>2
<1> HIDE DEF i, n, e
<1>6. CASE events' = events
  <2>1. <<>> \in Seq(Events) /\ Plain(<<>>) /\ events' = events \o <<>>
    BY <1>2, <1>6, NoEmission
  <2> QED
    BY <1>1, <1>2, <1>5, <2>1, ToldReturns
<1>7. CASE events' = events \o <<e>>
  <2>1. <<e>> \in Seq(Events) /\ Plain(<<e>>)
    BY <1>4, OneEmission DEF StageNames
  <2> QED
    BY <1>1, <1>2, <1>5, <1>7, <2>1, ToldReturns
<1> QED
  BY <1>5, <1>6, <1>7

\* The first request is answered by the event that is emitted.
LEMMA AnswerReturns ==
  ASSUME IInv, ReturnInv, UNCHANGED <<tabs, cmds, wanted, joining, live>>, slips \subseteq slips',
         wire # <<>>, wire' = Tail(wire), NEW e \in Events, e.type \in {"Joined", "JoinRejected"},
         events' = events \o <<e>>, Recalled' => e.channel = Head(wire).channel
  PROVE  ReturnInv'
<1> DEFINE es == <<e>>
<1>1. events \in Seq(Events) /\ wire \in Seq(Requests) /\ live
  BY ServiceTypes, Connected
<1>2. es \in Seq(Events) /\ ~Has(es, "WebAuthentication") /\ Len(es) = 1 /\ es[1] = e
  BY DEF Has
<1>3. events' = events \o es
  OBVIOUS
<1> HIDE DEF es
<1>4. \E k \in DOMAIN events' : events'[k] = e
  <2>1. /\ DOMAIN (events \o es) = 1 .. Len(events) + Len(es)
        /\ \A k \in 1 .. Len(es) : (events \o es)[Len(events) + k] = es[k]
        /\ Len(events) \in Nat
    <3> es \in Seq(Events)
      BY <1>2
    <3> QED
      BY <1>1, ConcatPlaces
  <2> DEFINE all == events \o es
  <2>2. DOMAIN all = 1 .. Len(events) + 1 /\ all[Len(events) + 1] = e /\ Len(events) \in Nat
    BY <1>2, <2>1
  <2>3. events' = all
    BY <1>3
  <2> HIDE DEF all
  <2>4. Len(events) + 1 \in DOMAIN all
    BY <2>2
  <2> QED
    BY <2>2, <2>3, <2>4
<1>5. Recalled' => \A c : Asked(c) => Asked(c)' \/ Answered(c)'
  <2> SUFFICES ASSUME Recalled', NEW c, Asked(c), ~Asked(c)'
               PROVE  Answered(c)'
    OBVIOUS
  <2>1. Head(wire).channel = c
    BY <1>1, StillAsked
  <2>2. Answers(e, c)
    BY <2>1 DEF Answers
  <2> QED
    BY <1>4, <2>2 DEF Answered
<1> QED
  BY <1>1, <1>2, <1>3, <1>5, WorkReturns

\* A refusal.
LEMMA RefuseReturns ==
  ASSUME IInv, ReturnInv, AnswerJoin, NEW cut, NEW token, Refuse(cut, token, Head(wire).channel)
  PROVE  ReturnInv'
<1> DEFINE c == Head(wire).channel
           kind == Kind(c)
<1>1. wire # <<>> /\ UNCHANGED <<tabs, cmds, wanted>>
  BY DEF AnswerJoin, appVars
<1>2. Types /\ live
  BY <1>1, ServiceTypes, Connected
<1> HIDE DEF c
<1>3. CASE Ambiguous(cut, token, kind)
  <2>1. Ends
    BY <1>3 DEF Ambiguous
  <2> QED
    BY <1>1, <1>2, <2>1, StopReturns
<1>4. CASE ReceiveRejection(cut, token, kind, c) /\ wire' = Tail(wire)
  <2> DEFINE left == expire_pending_joins(cut)
             found == take_requested_join(left, token, kind)
             d == IF found = {} THEN NoChannel ELSE (CHOOSE j \in found : TRUE).channel
             e == JoinRejected(d)
  <2>1. /\ events' = events \o <<e>> /\ UNCHANGED <<live, joining>>
        /\ slips' = slips \union Slip("unnamed", d # c)
    BY <1>4 DEF ReceiveRejection, Emit
  <2>2. found # {} => (CHOOSE j \in found : TRUE).channel \in Channels
    <3> HIDE DEF kind
    <3> QED
      BY <1>2, RequestedJoin
  <2> HIDE DEF left, found
  <2>3. d \in Channels \cup {NoChannel}
    BY <2>2
  <2> HIDE DEF d
  <2>4. e \in Events /\ e.type = "JoinRejected" /\ e.channel = d
    BY <2>3, EventShapes, EventFields
  <2> HIDE DEF e
  <2>5. slips \subseteq slips' /\ (Recalled' => d = c)
    BY <2>1 DEF Recalled, Slip
  <2>6. Recalled' => e.channel = Head(wire).channel
    BY <2>4, <2>5 DEF c
  <2> QED
    BY <1>1, <1>4, <2>1, <2>4, <2>5, <2>6, AnswerReturns
<1> QED
  BY <1>3, <1>4 DEF Refuse, c

\* A join: the channel it is taken for is the one that was asked for, unless it is unclaimed.
LEMMA AcceptReturns ==
  ASSUME IInv, ReturnInv, AnswerJoin, NEW cut, NEW token \in Tokens(Head(wire)), NEW i \in Indices,
         Accept(cut, token, Head(wire).channel, i)
  PROVE  ReturnInv'
<1> DEFINE c == Head(wire).channel
           kind == Named(c)
<1>1. wire # <<>> /\ Head(wire).type = "Join" /\ UNCHANGED <<tabs, cmds, wanted>>
  BY DEF AnswerJoin, appVars
<1>2. /\ channels \in [Indices -> Slots] /\ wire \in Seq(Requests) /\ events \in Seq(Events)
      /\ Types /\ live
  BY <1>1, ServiceTypes, Connected
<1>3. Head(wire) \in Requests /\ Head(wire) = wire[1] /\ 1 \in DOMAIN wire /\ c \in Channels
  <2>1. Head(wire) \in Requests /\ Head(wire) = wire[1] /\ 1 \in DOMAIN wire
    BY <1>1, <1>2, TailPlaces
  <2> QED
    BY <1>1, <2>1, RequestShapes
<1>4. Ambiguous(cut, token, kind) \/ (ReceiveJoin(cut, token, kind, c, i) /\ wire' = Tail(wire))
  BY DEF Accept
<1> HIDE DEF c
<1>5. CASE Ambiguous(cut, token, kind)
  <2>1. Ends
    BY <1>5 DEF Ambiguous
  <2> QED
    BY <1>1, <1>2, <2>1, StopReturns
<1>6. CASE ReceiveJoin(cut, token, kind, c, i) /\ wire' = Tail(wire)
  <2> DEFINE left == expire_pending_joins(cut)
             found == take_requested_join(left, token, kind)
             joined == IF found # {} THEN (CHOOSE j \in found : TRUE).channel
                       ELSE IF c \in Public THEN c
                       ELSE channels[i].channel
             e == Joined(i, joined)
  <2>1. /\ UNCHANGED <<live, joining>>
        /\ slips' = slips \union Shares(c, i)
                      \union Slip("unclaimed", joined # c /\ (token = 0 \/ found = {}))
        /\ events' = IF joined # NoChannel THEN events \o <<e>> ELSE events
    BY <1>6 DEF ReceiveJoin, Emit
  <2>2. /\ found \subseteq pending_joins
        /\ token # 0 => \A j \in found : j.token = token
        /\ found # {} => /\ (CHOOSE j \in found : TRUE) \in found
                         /\ (CHOOSE j \in found : TRUE).channel \in Channels
    <3> HIDE DEF kind
    <3> QED
      BY <1>2, RequestedJoin
  <2>3. channels[i].channel \in Channels \cup {NoChannel}
    BY <1>2 DEF Slots
  <2> HIDE DEF left, found
  <2>4. joined \in Channels \cup {NoChannel}
    BY <1>3, <2>2, <2>3
  <2>5. token # 0 /\ found # {} => joined = c
    <3> SUFFICES ASSUME token # 0, found # {} PROVE joined = c
      OBVIOUS
    <3> DEFINE j == CHOOSE j \in found : TRUE
    <3>1. j \in found /\ j \in pending_joins /\ j.token = token /\ joined = j.channel
      BY <2>2
    <3>2. token = wire[1].key
      BY <1>3 DEF Tokens
    <3>3. \A k \in pending_joins : k.token = wire[1].key => k.channel = wire[1].channel
      BY <1>1, <1>3 DEF IInv, TokensFit
    <3>4. c = wire[1].channel
      BY <1>3 DEF c
    <3> HIDE DEF j, joined
    <3> QED
      BY <3>1, <3>2, <3>3, <3>4
  <2> HIDE DEF joined
  <2>6. slips \subseteq slips' /\ (Recalled' => joined = c)
    BY <2>1, <2>5 DEF Recalled, Slip
  <2>7. CASE joined = NoChannel
    <3>1. events' = events /\ ~Recalled'
      BY <1>3, <2>1, <2>6, <2>7, ChannelsAssumption
    <3>2. events' = events \o <<>> /\ <<>> \in Seq(Events) /\ Plain(<<>>)
      BY <1>2, <3>1, NoEmission
    <3>3. ~Has(<<>>, "WebAuthentication")
      BY DEF Has
    <3> QED
      BY <1>1, <1>2, <2>1, <2>6, <3>1, <3>2, <3>3, WorkReturns
  <2>8. CASE joined # NoChannel
    <3>1. e \in Events /\ e.type = "Joined" /\ e.channel = joined
      BY <2>4, <2>8, EventShapes, EventFields
    <3> HIDE DEF e
    <3>2. events' = events \o <<e>>
      BY <2>1, <2>8
    <3>3. Recalled' => e.channel = Head(wire).channel
      BY <2>6, <3>1 DEF c
    <3> QED
      BY <1>1, <1>6, <2>1, <2>6, <3>1, <3>2, <3>3, AnswerReturns
  <2> QED
    BY <2>7, <2>8
<1> QED
  BY <1>4, <1>5, <1>6

\* A step of the service.
LEMMA ServiceReturns ==
  ASSUME IInv, ReturnInv, Service
  PROVE  ReturnInv'
<1>1. CASE AnswerJoin
  <2> DEFINE c == Head(wire).channel
  <2>1. PICK cut \in 0 .. last_token, token \in Tokens(Head(wire)) :
          Refuse(cut, token, c) \/ \E i \in Indices : Accept(cut, token, c, i)
    BY <1>1 DEF AnswerJoin
  <2>2. CASE Refuse(cut, token, c)
    BY <1>1, <2>2, RefuseReturns
  <2>3. ASSUME NEW i \in Indices, Accept(cut, token, c, i)
        PROVE  ReturnInv'
    BY <1>1, <2>3, AcceptReturns
  <2> QED
    BY <2>1, <2>2, <2>3
<1>2. CASE Lose
  <2>1. Ends /\ live /\ UNCHANGED cmds
    BY <1>2 DEF Lose
  <2> QED
    BY <2>1, StopReturns
<1> QED
  BY <1>1, <1>2, RosterReturns, TakeSayReturns DEF Service

\* Nothing is to come back yet.
LEMMA InitReturns ==
  ASSUME Init
  PROVE  ReturnInv
<1>1. cmds = <<>> /\ wanted = {}
  BY DEF Init
<1>2. DOMAIN cmds = {}
  BY <1>1
<1> QED
  BY <1>1, <1>2 DEF ReturnInv, CallsWhole, NoneMissing

\* No step loses a channel that is to come back.
LEMMA StepReturns ==
  ASSUME IInv, ReturnInv, [Next]_vars
  PROVE  ReturnInv'
<1>1. CASE User
  BY <1>1, UserReturns, ReconnectReturns DEF User
<1>2. CASE App
  BY <1>2, UserReturns, HandleReturns DEF App
<1>3. CASE Worker
  BY <1>3, RunReturns, IgnoreReturns, BeginReturns, EstablishReturns, FailReturns DEF Worker
<1>4. CASE Service
  BY <1>4, ServiceReturns
<1>5. CASE UNCHANGED vars
  <2>1. UNCHANGED <<tabs, cmds, events, wire, joining, live, wanted, slips>>
    BY <1>5 DEF vars, appVars, chatVars, serviceVars, history
  <2>2. \A c : (Coming(c) => Coming(c)') /\ (Back(c) => Back(c)')
    BY <2>1 DEF Coming, Summoned, InTurn, Asked, Answered, Back, HasTab, Calls, Has
  <2>3. (CallsWhole => CallsWhole') /\ (Recalled' => Recalled) /\ (Stopped => Stopped')
    BY <2>1 DEF CallsWhole, Recalled, Stopped, Calls
  <2>4. (Stopped' => Stopped) /\ wanted' = wanted
    BY <2>1 DEF Stopped, Calls
  <2> QED
    BY <2>2, <2>3, <2>4 DEF ReturnInv, NoneMissing
<1> QED
  BY <1>1, <1>2, <1>3, <1>4, <1>5 DEF Next

\* Where each channel that a reconnect is to bring back is in every reachable state: in the
\* call for a connection, in the joins of the connection coming up, in a request, in an answer,
\* or in a tab that the first stage of a connection will not take away.
THEOREM ReturnsInvariant == Spec => []ReturnInv
<1>1. Init => ReturnInv
  BY InitReturns
<1>2. IInv /\ ReturnInv /\ [Next]_vars => ReturnInv'
  BY StepReturns
<1> QED
  BY <1>1, <1>2, ChannelsInvariant, PTL DEF Spec

\* After RECONNECT every channel that was open is back when all is quiet, although the first
\* stage empties the tab strip, the connection joins only its first channel itself
\* (LiveChat::establish) and asks for the others (connect_once), and each can be refused, closed
\* or given up: unless RECONNECT was pressed again before they were back or they were more than
\* normalized_channels keeps, or the service's answer could not be told from another's, or the
\* first of them was a public channel that the catalogue has no more (General takes its place).
THEOREM EveryChannelComesBack == Spec => []RejoinsAll
<1>1. IInv /\ ReturnInv => RejoinsAll
  <2> SUFFICES ASSUME IInv, ReturnInv, Quiet, Recalled, NEW c \in wanted
               PROVE  TabOf(c) # 0
    BY DEF RejoinsAll, Recalled
  <2>1. live /\ cmds = <<>> /\ events = <<>> /\ wire = <<>>
    BY DEF Quiet
  <2>2. joining = <<>> /\ tabs \in Seq(TabSet)
    BY <2>1 DEF IInv, Course, Dialing, Types, AppType
  <2>3. DOMAIN cmds = {} /\ DOMAIN events = {} /\ DOMAIN wire = {} /\ DOMAIN joining = {}
    BY <2>1, <2>2
  <2>4. ~Coming(c)
    BY <2>3 DEF Coming, Summoned, InTurn, Asked, Answered
  <2>5. HasTab(c)
    BY <2>1, <2>4 DEF ReturnInv, NoneMissing, Stopped, Back
  <2> QED
    BY <2>2, <2>5, NoTabFound DEF HasTab
<1> QED
  BY <1>1, ChannelsInvariant, ReturnsInvariant, PTL
=============================================================================
