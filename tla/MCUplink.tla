------------------------------ MODULE MCUplink ------------------------------
(* A connection that asks for one channel, and one that only comes and goes. *)
EXTENDS Uplink

CONSTANTS s1, s2, c1

MCOneSession == {s1}
MCTwoSessions == {s1, s2}
MCChannels == {c1}
MCOne == [s \in Sessions |-> IF s = s1 THEN 1 ELSE 0]
MCTwo == [s \in Sessions |-> IF s = s1 THEN 2 ELSE 0]
=============================================================================
