------------------------- MODULE ChallengeSignatures -------------------------
(***************************************************************************)
(* sep/stellar_web_authentication.py: who signed a SEP-10 challenge.       *)
(* verify_challenge_transaction_threshold() matches the signatures of the  *)
(* transaction with the signers of the client account, the server and the  *)
(* key of the client domain, one signer after the other, each signature at *)
(* most once, and then judges what it found.  A signature is the key that  *)
(* made it, or Unknown for one that no key under consideration verifies.   *)
(***************************************************************************)
EXTENDS Integers, Sequences, FiniteSets, Functions

CONSTANTS
  Server,        \* server_account_id
  ClientKeys,    \* the keys that may sign for clients and client domains
  Weight,        \* the weight of each key among the client's signers
  Thresholds,    \* values of threshold
  NoKey,         \* no client_domain operation
  Unknown,       \* a signature of none of these keys
  MaxSigners, MaxSignatures   \* bounds

Keys == ClientKeys \cup {Server}

ASSUME SignaturesAssumption ==
  /\ Server \notin ClientKeys /\ NoKey \notin Keys /\ Unknown \notin Keys \cup {NoKey}
  /\ Weight \in [Keys -> Nat] /\ Thresholds \subseteq Nat
  /\ MaxSigners \in Nat /\ MaxSignatures \in Nat

VARIABLES
  signers,    \* the argument of that name
  clientKey,  \* the source of the client_domain operation, or NoKey
  signatures, \* the signatures of the transaction
  threshold,  \* the argument of that name
  next,       \* the signer to match next
  used,       \* signature_used
  found,      \* signers_found of _verify_transaction_signatures()
  verdict     \* "matching", then "Verified" or why not

inputs == <<signers, clientKey, signatures, threshold>>
vars == <<inputs, next, used, found, verdict>>

SeqUpTo(S, n) == UNION {[1..m -> S] : m \in 0..n}

Index == 1..Len(signatures)

Init ==
  /\ signers \in SeqUpTo(Keys, MaxSigners)
  /\ clientKey \in Keys \cup {NoKey}
  /\ signatures \in SeqUpTo(Keys \cup {Unknown}, MaxSignatures)
  /\ threshold \in Thresholds
  /\ next = 1 /\ used = {} /\ found = <<>>
  /\ verdict = "matching"

\* Mutant of AllSigners: the client domain's key is forgotten.
AllSignersNoDomain == signers \o <<Server>>

\* The signer that is to be left out, the server, is compared with a string
\* and never equal to it: every signer stays.
AllSigners ==
  signers \o <<Server>> \o (IF clientKey = NoKey THEN <<>> ELSE <<clientKey>>)

\* read_challenge_transaction() and the caller's arguments
Refuse ==
  /\ verdict = "matching" /\ next = 1
  /\ signers = <<>> \/ Server \notin Range(signatures)
  /\ verdict' = "Refused"
  /\ UNCHANGED <<inputs, next, used, found>>

Signed(k) == k \in Range(signatures)

Matches(k) == {i \in Index \ used : signatures[i] = k}

\* Mutant of Match: a signature may be used again.
MatchAgain ==
  /\ verdict = "matching" /\ next <= Len(AllSigners)
  /\ signers # <<>> /\ Server \in Range(signatures)
  /\ \/ ~Signed(AllSigners[next]) /\ UNCHANGED <<used, found>>
     \/ \E i \in Index :
          /\ signatures[i] = AllSigners[next]
          /\ used' = used \cup {i} /\ found' = Append(found, AllSigners[next])
  /\ next' = next + 1
  /\ UNCHANGED <<inputs, verdict>>

\* The first signature of the signer's key that is not used yet, if any.
Match ==
  /\ verdict = "matching" /\ next <= Len(AllSigners)
  /\ signers # <<>> /\ Server \in Range(signatures)
  /\ \/ Matches(AllSigners[next]) = {} /\ UNCHANGED <<used, found>>
     \/ \E i \in Matches(AllSigners[next]) :
          /\ \A j \in Matches(AllSigners[next]) : i <= j
          /\ used' = used \cup {i} /\ found' = Append(found, AllSigners[next])
  /\ next' = next + 1
  /\ UNCHANGED <<inputs, verdict>>

\* Mutant of SignersFound: the server counts as a client signer.
SignersFoundWithServer == Range(found) \ {clientKey}

\* signers_found of verify_challenge_transaction_signers(), without duplicates.
\* The server's key as the client domain's is taken for the server's only.
SignersFound == Range(found) \ {Server, clientKey}

WeightOf(keys) == SumFunctionOnSet(Weight, keys)

\* What verify_challenge_transaction_threshold() makes of the keys it found.
Judgement ==
  IF Server \notin Range(found) THEN "NotSignedByServer"
  ELSE IF clientKey = Server \/ (clientKey # NoKey /\ clientKey \notin Range(found))
       THEN "NotSignedByClientDomain"
  ELSE IF SignersFound = {} THEN "NotSignedByClient"
  ELSE IF Len(found) # Len(signatures) THEN "Unrecognized"
  ELSE IF WeightOf(SignersFound) < threshold THEN "BelowThreshold"
  ELSE "Verified"

Judge ==
  /\ verdict = "matching" /\ next = Len(AllSigners) + 1
  /\ verdict' = Judgement
  /\ UNCHANGED <<inputs, next, used, found>>

Next == Refuse \/ Match \/ Judge

Spec == Init /\ [][Next]_vars

-----------------------------------------------------------------------------
(* Properties *)

\* The signers of the client that did sign.
ClientsSigned == {k \in Range(signers) \ {Server, clientKey} : Signed(k)}

Distinct(s) == \A i, j \in DOMAIN s : i # j => s[i] # s[j]

\* A verified challenge is signed by the server, by the client domain's key if
\* it has one, and by signers of the client of enough weight, the server's
\* excluded, and no signature on it is anybody else's.
VerifiedIsSigned ==
  verdict = "Verified" =>
    /\ Signed(Server) /\ (clientKey # NoKey => Signed(clientKey))
    /\ Range(signatures) \subseteq Range(signers) \cup {Server, clientKey}
    /\ SignersFound = ClientsSigned /\ ClientsSigned # {}
    /\ ~(WeightOf(ClientsSigned) < threshold)

\* A challenge on which each key signed once, and everybody who must have
\* signed and nobody else, is verified: whether or not a signer is listed
\* twice, or the client domain's key is also one of the client's own.
SignedIsVerified ==
  /\ next = Len(AllSigners) + 1 /\ verdict # "matching"
  /\ Distinct(signatures) /\ clientKey # Server
  /\ clientKey # NoKey => Signed(clientKey)
  /\ Range(signatures) \subseteq Range(signers) \cup {Server, clientKey}
  /\ ClientsSigned # {} /\ ~(WeightOf(ClientsSigned) < threshold)
  => verdict = "Verified"

=============================================================================
