------------------------- MODULE MCProductSessions --------------------------
(* The account service lists nothing but the authority, or every product.   *)
EXTENDS ProductSessions

CONSTANTS a1, a2

MCOneAccount == {a1}
MCAccounts == {a1, a2}
MCCatalogues == {Products}
MCTwoCatalogues == {{"S2"}, Products}

\* Retained is the library's SelectSeq, on queues as long as the products are many.
ASSUME RetainedIsSelectSeq ==
  \A queue \in UNION {[1 .. n -> Products] : n \in 0 .. 3}, wanted \in SUBSET Products :
    Retained(queue, wanted) = SelectSeq(queue, LAMBDA p : p \in wanted)
=============================================================================
