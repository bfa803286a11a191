--------------------------- MODULE MCLiveService ---------------------------
(* One session with one channel and every kind of event, or two sessions   *)
(* whose scripts are short, so that nights of pruning fall between them.    *)
EXTENDS LiveService

CONSTANTS s1, s2, c1, u1

MCOneSession == {s1}
MCTwoSessions == {s1, s2}
MCChannels == {c1}
MCUsers == {u1}
MCStartedAt == [s \in Sessions |-> IF s = s1 THEN 0 ELSE 10]

Plain(kind) == [kind |-> kind, channel |-> NoChannel, users |-> {}]
In(kind, users) == [kind |-> kind, channel |-> c1, users |-> users]

\* Any two events, then a sync that has the channel or leaves it out; or a
\* session that ends.
First == {In("joined", {}), In("roster", {u1})}
Second == {In("joined", {}), In("left", {}), In("roster", {}), In("roster_delta", {u1}),
           In("member_left", {u1})}
Sync(rosters) == <<Plain("sync_started")>> \o rosters \o <<Plain("session_synced")>>
Script(w) == [s \in Sessions |-> <<Plain("session_started")>> \o w]

MCSyncScripts ==
  {Script(<<a, b>> \o Sync(x)) :
     a \in First, b \in Second, x \in {<<>>, <<In("roster", {})>>, <<In("roster", {u1})>>}}
MCShortScripts ==
  {Script(<<a>> \o Sync(<<>>) \o <<Plain("session_ended")>>) : a \in First}

Synchronised ==
  <<Plain("session_started"), Plain("sync_started"), In("roster", {u1}), Plain("session_synced")>>
MCAnywhere == 1 .. 6
MCWholeSync == {1, 4}
MCNightScripts ==
  {[s \in Sessions |-> Synchronised \o (IF s = s1 THEN <<w>> ELSE <<>>)] :
     w \in {In("message", {}), Plain("session_ended"), Plain("heartbeat")}}

\* Lines of a transcript in the first session, three of which one batch may hold.
Lines == <<In("message", {}), In("member_joined", {u1}), In("member_left", {u1}), In("message", {})>>
MCTranscript == [s \in Sessions |-> <<Plain("session_started")>> \o (IF s = s1 THEN Lines ELSE <<>>)]
MCNights == MCNightScripts \cup {MCTranscript}
=============================================================================
