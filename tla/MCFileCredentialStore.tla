---------------------- MODULE MCFileCredentialStore ------------------------
(* Two credentials, which are enough to tell a store's from the one it     *)
(* replaces, in a store without a legacy file (`at`, `for_application` and  *)
(* `for_product` of every product but StarCraft II) or with one.            *)
EXTENDS FileCredentialStore

CONSTANTS c1, c2

MCCredentials == {c1, c2}
MCNoLegacy == {NoFile}
MCLegacy == {NoFile, c1}
=============================================================================
