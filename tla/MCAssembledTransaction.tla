----------------------- MODULE MCAssembledTransaction -----------------------
(* Instances of AssembledTransaction for TLC. *)
EXTENDS AssembledTransaction, TLC

Fee(min, stored) == [min |-> min, stored |-> stored]

\* Simulations that all ask for the fee they store.
SameFee == {Fee(1, 1)}

\* Simulations that may ask for more than they store, and store other amounts.
DifferentFees == {Fee(1, 1), Fee(3, 2)}

\* Two objects over one account are interchangeable.
Interchangeable == Permutations(Clients)

\* Several objects at once, each used the common way: simulate(), then
\* sign_and_submit(), and submit() again after a timeout.  All the requests
\* these calls make interleave as in Spec.
CommonCalls(c) == Simulate(c, TRUE) \/ SignAndSubmit(c, TRUE) \/ Submit(c)

SharedSpec ==
  Init /\ [][Network \/ \E c \in Clients : Requests(c) \/ CommonCalls(c)]_vars

=============================================================================
