--------------------------- MODULE MCUpdateDialog ---------------------------
(* Two releases, so that the feed can move on between a check and the       *)
(* download, and enough clicks for a dismissal between two other requests.  *)
EXTENDS UpdateDialog

MCReleases == {1, 2}
=============================================================================
