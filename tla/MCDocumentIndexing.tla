------------------------- MODULE MCDocumentIndexing -------------------------
(* Small instances of DocumentIndexing for TLC: one indexing slot in the   *)
(* API process and one in a worker process.                                *)
EXTENDS DocumentIndexing, TLC

CONSTANTS d1, api, worker, sa, sw

OneSlotEach == (sa :> api) @@ (sw :> worker)
=============================================================================
