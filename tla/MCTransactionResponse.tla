----------------------- MODULE MCTransactionResponse -----------------------
(* Small instances of TransactionResponse. *)
EXTENDS TransactionResponse
=============================================================================
