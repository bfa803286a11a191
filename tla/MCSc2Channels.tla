--------------------------- MODULE MCSc2Channels ---------------------------
(* General, and two private channels, whose join replies do not name them; *)
(* these two are alike.  Or General, another public channel, which the     *)
(* catalogue may lose, and a private one.                                  *)
EXTENDS Sc2Channels, TLC

CONSTANTS general, duel, raid

MCChannels == {general, duel, raid}
MCPublic == {general}
MCListed == {general, duel}
MCSymmetry == Permutations(MCChannels \ MCPublic)
=============================================================================
