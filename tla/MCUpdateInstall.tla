-------------------------- MODULE MCUpdateInstall --------------------------
(* Three builds and two updates: the second finds what the first left.      *)
EXTENDS UpdateInstall

MCBuilds == 1 .. 3
=============================================================================
