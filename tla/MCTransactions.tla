--------------------------- MODULE MCTransactions ---------------------------
(* Instances of Transactions for model checking. *)
EXTENDS TransactionsProperties

UpTo12 == 0..12
=============================================================================
