------------------------ MODULE MCChallengeSignatures ------------------------
(* Instances of ChallengeSignatures for TLC. *)
EXTENDS ChallengeSignatures, TLC

CONSTANTS server, k1, k2

\* Two keys of weights that only together reach the higher threshold.
SomeWeights == server :> 5 @@ k1 :> 1 @@ k2 :> 2

=============================================================================
