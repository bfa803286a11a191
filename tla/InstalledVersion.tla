-------------------------- MODULE InstalledVersion --------------------------
(***************************************************************************)
(* What the updater promises of an installation: an update replaces the    *)
(* build that is there by a newer one in a single step.  Where the file    *)
(* system cannot swap two directories nothing is installed for a moment,   *)
(* for good if the update is cut off there; the build is then set aside.   *)
(***************************************************************************)
EXTENDS Naturals

CONSTANTS Builds, None
VARIABLES
  installed,     \* the build that starts, or None
  kept,          \* the one that is on disk, in its place or set aside
  atomic         \* whether a build is always replaced in one step

vars == <<installed, kept, atomic>>

Init ==
  /\ installed \in Builds
  /\ kept = installed
  /\ atomic \in BOOLEAN

Replace(b) == installed' = b /\ kept' = b /\ UNCHANGED atomic

Upgrade == installed # None /\ \E b \in Builds : b > installed /\ Replace(b)

SetAside ==
  /\ ~atomic
  /\ installed # None
  /\ installed' = None
  /\ UNCHANGED <<kept, atomic>>

\* The newer build comes, or the old one comes back.
Arrive == installed = None /\ \E b \in Builds : b >= kept /\ Replace(b)

Next == Upgrade \/ SetAside \/ Arrive

Spec == Init /\ [][Next]_vars
=============================================================================
