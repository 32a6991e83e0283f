------------------------- MODULE MCTransactionBuilder -------------------------
(* Instances of TransactionBuilder for TLC. *)
EXTENDS TransactionBuilder, TLC

\* The builders have the same arguments.
Interchangeable == Permutations(Builders)

=============================================================================
