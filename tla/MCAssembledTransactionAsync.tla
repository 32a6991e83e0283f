-------------------- MODULE MCAssembledTransactionAsync --------------------
(* Instances of AssembledTransactionAsync for TLC. *)
EXTENDS AssembledTransactionAsync, TLC

Fee(min, stored) == [min |-> min, stored |-> stored]

\* Simulations that all ask for the fee they store.
SameFee == {Fee(1, 1)}

\* The tasks are interchangeable.
Interchangeable == Permutations(Tasks)

=============================================================================
