-------------------------- MODULE MCSessionWorker ---------------------------
(* Two accounts, so that a credential or a browser can carry another one    *)
(* than the Connect expects.                                                *)
EXTENDS SessionWorker

CONSTANTS a1, a2

MCAccounts == {a1, a2}
=============================================================================
