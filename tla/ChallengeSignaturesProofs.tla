---------------------- MODULE ChallengeSignaturesProofs ----------------------
(***************************************************************************)
(* What verify_challenge_transaction_threshold() accepts is signed as it   *)
(* must be, and what is signed as it must be is accepted, for any signers, *)
(* signatures, weights and thresholds.  The argument counts: a signature   *)
(* is consumed with each signer that is found, so that as many finds as    *)
(* signatures leave none over; and a key that signed is found once its     *)
(* first signer has been matched.                                          *)
(***************************************************************************)
EXTENDS ChallengeSignatures, FiniteSetTheorems, TLAPS

Arguments ==
  /\ signers \in Seq(Keys) /\ clientKey \in Keys \cup {NoKey}
  /\ signatures \in Seq(Keys \cup {Unknown})

\* Each find consumed one signature, of the key that was found.
Consumed ==
  /\ used \subseteq Index /\ IsFiniteSet(used) /\ Cardinality(used) = Len(found)
  /\ found \in Seq(Keys)
  /\ \A i \in used : signatures[i] \in Range(found)
  /\ Range(found) \subseteq Range(AllSigners)
  /\ \A k \in Range(found) : \E i \in used : signatures[i] = k

\* The matching begins only on what read_challenge_transaction() accepted.
Scanning ==
  /\ next \in Nat /\ next >= 1
  /\ next > 1 => Signed(Server) /\ verdict # "Refused"

\* No signer that signed is passed over: its key has been found by then.
Tried ==
  \A j \in DOMAIN AllSigners :
    j < next /\ Signed(AllSigners[j]) => AllSigners[j] \in Range(found)

\* What the verdict was made from.
Judged ==
  verdict \notin {"matching", "Refused"} =>
    next = Len(AllSigners) + 1 /\ verdict = Judgement

IInv == Arguments /\ Consumed /\ Scanning /\ Tried /\ Judged

-----------------------------------------------------------------------------
LEMMA RangeAppend ==
  ASSUME NEW S, NEW s \in Seq(S), NEW e \in S
  PROVE  Append(s, e) \in Seq(S) /\ Range(Append(s, e)) = Range(s) \cup {e}
<1>1. /\ Append(s, e) \in Seq(S) /\ Len(Append(s, e)) = Len(s) + 1 /\ Len(s) \in Nat
      /\ \A i \in 1..Len(s) : Append(s, e)[i] = s[i]
      /\ Append(s, e)[Len(s) + 1] = e
      /\ DOMAIN s = 1..Len(s) /\ DOMAIN Append(s, e) = 1..Len(s) + 1
  OBVIOUS
<1>2. 1..Len(s) + 1 = 1..Len(s) \cup {Len(s) + 1}
  BY <1>1
<1> QED
  BY <1>1, <1>2 DEF Range

LEMMA RangeConcat ==
  ASSUME NEW S, NEW s \in Seq(S), NEW t \in Seq(S)
  PROVE  s \o t \in Seq(S) /\ Range(s \o t) = Range(s) \cup Range(t)
<1>1. /\ s \o t \in Seq(S) /\ Len(s \o t) = Len(s) + Len(t)
      /\ Len(s) \in Nat /\ Len(t) \in Nat
      /\ \A i \in 1..Len(s) : (s \o t)[i] = s[i]
      /\ \A i \in 1..Len(t) : (s \o t)[Len(s) + i] = t[i]
      /\ DOMAIN s = 1..Len(s) /\ DOMAIN t = 1..Len(t)
      /\ DOMAIN (s \o t) = 1..Len(s) + Len(t)
  OBVIOUS
<1>2. ASSUME NEW i \in 1..Len(s) + Len(t), i \notin 1..Len(s)
      PROVE  i - Len(s) \in 1..Len(t) /\ Len(s) + (i - Len(s)) = i
  BY <1>1, <1>2
<1>3. Range(s \o t) \subseteq Range(s) \cup Range(t)
  BY <1>1, <1>2 DEF Range
<1>4. Range(s) \subseteq Range(s \o t) /\ Range(t) \subseteq Range(s \o t)
  <2>1. \A i \in 1..Len(s) : i \in 1..Len(s) + Len(t)
    BY <1>1
  <2>2. \A i \in 1..Len(t) : Len(s) + i \in 1..Len(s) + Len(t)
    BY <1>1
  <2> QED
    BY <1>1, <2>1, <2>2 DEF Range
<1> QED
  BY <1>1, <1>3, <1>4

LEMMA AllSignersKeys ==
  ASSUME Arguments
  PROVE  /\ AllSigners \in Seq(Keys)
         /\ Range(AllSigners) = Range(signers) \cup {Server} \cup ({clientKey} \ {NoKey})
<1>1. Server \in Keys /\ NoKey \notin Keys
  BY SignaturesAssumption DEF Keys
<1> DEFINE one == <<Server>>
           two == signers \o one
<1>2. one \in Seq(Keys) /\ Range(one) = {Server}
  BY <1>1 DEF Range
<1>s. signers \in Seq(Keys)
  BY DEF Arguments
<1>3. two \in Seq(Keys) /\ Range(two) = Range(signers) \cup {Server}
  <2> HIDE DEF one
  <2> QED
    BY <1>2, <1>s, RangeConcat
<1>4. CASE clientKey = NoKey
  <2> DEFINE none == <<>>
  <2>1. AllSigners = two \o none /\ none \in Seq(Keys) /\ Range(none) = {}
    BY <1>4 DEF AllSigners, Range
  <2> HIDE DEF one, two, none
  <2>2. AllSigners \in Seq(Keys) /\ Range(AllSigners) = Range(two) \cup Range(none)
    BY <2>1, <1>3, RangeConcat
  <2> QED
    BY <2>1, <2>2, <1>3, <1>4
<1>5. CASE clientKey # NoKey
  <2> DEFINE last == <<clientKey>>
  <2>1. AllSigners = two \o last
    BY <1>5 DEF AllSigners
  <2>2. clientKey \in Keys
    BY <1>5 DEF Arguments
  <2>3. last \in Seq(Keys) /\ Range(last) = {clientKey}
    BY <2>2 DEF Range
  <2> HIDE DEF one, two, last
  <2>4. AllSigners \in Seq(Keys) /\ Range(AllSigners) = Range(two) \cup Range(last)
    BY <2>1, <2>3, <1>3, RangeConcat
  <2> QED
    BY <2>3, <2>4, <1>3, <1>5
<1> QED
  BY <1>4, <1>5

\* The members of SeqUpTo are sequences.
LEMMA SeqUpToSeq == \A S, n : n \in Nat => SeqUpTo(S, n) \subseteq Seq(S)
<1> SUFFICES ASSUME NEW S, NEW n \in Nat, NEW s \in SeqUpTo(S, n) PROVE s \in Seq(S)
  OBVIOUS
<1>1. PICK m \in 0..n : s \in [1..m -> S]
  BY DEF SeqUpTo
<1> QED
  BY <1>1

LEMMA InitIInv == Init => IInv
<1> SUFFICES ASSUME Init PROVE IInv
  OBVIOUS
<1>1. Arguments
  BY SeqUpToSeq, SignaturesAssumption DEF Init, Arguments
<1>2. next = 1 /\ used = {} /\ found = <<>> /\ verdict = "matching"
  BY DEF Init
<1>3. Consumed
  <2>1. found \in Seq(Keys) /\ Len(found) = 0 /\ Range(found) = {}
    BY <1>2 DEF Range
  <2> QED
    BY <1>2, <2>1, FS_EmptySet DEF Consumed
<1>4. Scanning /\ Judged
  BY <1>2 DEF Scanning, Judged
<1>5. Tried
  <2>1. \A j \in 1..Len(AllSigners) : ~(j < 1)
    BY <1>1, AllSignersKeys
  <2> QED
    BY <1>1, <1>2, <2>1, AllSignersKeys DEF Tried
<1> QED
  BY <1>1, <1>3, <1>4, <1>5 DEF IInv

LEMMA NextIInv == IInv /\ [Next]_vars => IInv'
<1> SUFFICES ASSUME IInv, [Next]_vars PROVE IInv'
  OBVIOUS
<1>a. Arguments /\ Consumed /\ Scanning /\ Tried /\ Judged
  BY DEF IInv
<1>b. AllSigners \in Seq(Keys) /\ Len(AllSigners) \in Nat
      /\ DOMAIN AllSigners = 1..Len(AllSigners)
  BY <1>a, AllSignersKeys
<1>1. CASE Refuse
  <2>1. UNCHANGED <<inputs, next, used, found>> /\ verdict' = "Refused" /\ next = 1
    BY <1>1 DEF Refuse
  <2> QED
    BY <2>1, <1>a DEF IInv, Arguments, Consumed, Scanning, Tried, Judged, inputs, AllSigners,
       Index, Signed
<1>2. CASE Match
  <2> DEFINE k == AllSigners[next]
  <2>1. /\ verdict = "matching" /\ next \in 1..Len(AllSigners) /\ next' = next + 1
        /\ signers' = signers /\ clientKey' = clientKey /\ signatures' = signatures
        /\ verdict' = verdict /\ Signed(Server)
    BY <1>2, <1>a, <1>b DEF Match, inputs, Scanning, Signed
  <2>2. AllSigners' = AllSigners /\ Index' = Index /\ Arguments' /\ Judged'
        /\ \A key : Signed(key)' = Signed(key)
    BY <2>1, <1>a DEF AllSigners, Index, Arguments, Judged, Signed
  <2>3. k \in Keys /\ k \in Range(AllSigners)
    BY <2>1, <1>b DEF Range
  <2>4. Scanning'
    BY <2>1, <2>2, <1>a DEF Scanning
  <2>5. ASSUME Range(found) \subseteq Range(found'), Signed(k) => k \in Range(found')
        PROVE  Tried'
    <3>1. \A j \in 1..Len(AllSigners) : j < next + 1 => j < next \/ j = next
      BY <2>1
    <3>2. ASSUME NEW j \in 1..Len(AllSigners), j < next + 1, Signed(AllSigners[j])
          PROVE  AllSigners[j] \in Range(found')
      <4>1. CASE j < next
        BY <1>a, <1>b, <2>5, <3>2, <4>1 DEF Tried
      <4>2. CASE j = next
        BY <2>5, <3>2, <4>2
      <4> QED
        BY <3>1, <3>2, <4>1, <4>2
    <3>3. \A j \in 1..Len(AllSigners) :
            j < next' /\ Signed(AllSigners[j]) => AllSigners[j] \in Range(found')
      BY <2>1, <3>2
    <3> QED
      BY <1>b, <2>1, <2>2, <3>3 DEF Tried, Signed
  <2>6. CASE Matches(k) = {} /\ UNCHANGED <<used, found>>
    <3>1. ASSUME Signed(k)
          PROVE  k \in Range(found)
      <4>1. PICK i \in Index : signatures[i] = k
        <5>1. signatures \in Seq(Keys \cup {Unknown}) /\ DOMAIN signatures = Index
          BY <1>a DEF Arguments, Index
        <5> QED
          BY <3>1, <5>1 DEF Signed, Range
      <4>2. i \in used
        BY <2>6, <4>1 DEF Matches
      <4> QED
        BY <1>a, <4>1, <4>2 DEF Consumed
    <3>2. Consumed'
      BY <2>1, <2>2, <2>6, <1>a DEF Consumed
    <3> QED
      BY <2>2, <2>4, <2>5, <2>6, <3>1, <3>2 DEF IInv
  <2>7. ASSUME NEW i \in Matches(k), used' = used \cup {i}, found' = Append(found, k)
        PROVE  IInv'
    <3>1. i \in Index /\ i \notin used /\ signatures[i] = k
      BY DEF Matches
    <3>2. found \in Seq(Keys) /\ found' \in Seq(Keys) /\ Range(found') = Range(found) \cup {k}
      BY <2>3, <2>7, <1>a, RangeAppend DEF Consumed
    <3>3. Len(found') = Len(found) + 1
      BY <2>7, <3>2
    <3>4. IsFiniteSet(used') /\ Cardinality(used') = Cardinality(used) + 1
      BY <2>7, <3>1, <1>a, FS_AddElement DEF Consumed
    <3>5. used' \subseteq Index /\ \A j \in used' : signatures[j] \in Range(found')
      BY <2>7, <3>1, <3>2, <1>a DEF Consumed
    <3>6. /\ Range(found') \subseteq Range(AllSigners)
          /\ \A key \in Range(found') : \E j \in used' : signatures[j] = key
      BY <3>1, <3>2, <2>3, <2>7, <1>a DEF Consumed
    <3>7. Consumed'
      BY <3>2, <3>3, <3>4, <3>5, <3>6, <2>1, <2>2, <1>a DEF Consumed
    <3>8. Tried'
      BY <2>5, <3>2
    <3> QED
      BY <2>2, <2>4, <3>7, <3>8 DEF IInv
  <2> QED
    BY <1>2, <2>6, <2>7 DEF Match
<1>3. CASE Judge
  <2>1. UNCHANGED <<inputs, next, used, found>> /\ next = Len(AllSigners) + 1
        /\ verdict' = Judgement
    BY <1>3 DEF Judge
  <2>2. AllSigners' = AllSigners /\ SignersFound' = SignersFound
    BY <2>1 DEF AllSigners, SignersFound, inputs
  <2>3. Arguments' /\ Consumed' /\ Tried'
    BY <2>1, <2>2, <1>a DEF Arguments, Consumed, Tried, inputs, Index, Signed
  <2>4. Judged'
    <3>1. Judgement' = Judgement
      BY <2>1, <2>2 DEF inputs, Judgement, WeightOf
    <3> QED
      BY <2>1, <2>2, <3>1 DEF Judged
  <2>5. Scanning'
    BY <2>1, <1>a DEF Scanning, inputs, Signed, Judgement
  <2> QED
    BY <2>3, <2>4, <2>5 DEF IInv
<1>4. CASE UNCHANGED vars
  <2>1. AllSigners' = AllSigners /\ SignersFound' = SignersFound /\ Index' = Index
    BY <1>4 DEF vars, inputs, AllSigners, SignersFound, Index
  <2>2. Arguments' /\ Consumed' /\ Scanning' /\ Tried'
    BY <1>4, <2>1, <1>a DEF vars, inputs, Arguments, Consumed, Scanning, Tried, Signed
  <2>3. Judged'
    BY <1>4, <2>1, <1>a DEF vars, inputs, Judged, Judgement, WeightOf
  <2> QED
    BY <2>2, <2>3 DEF IInv
<1> QED
  BY <1>1, <1>2, <1>3, <1>4 DEF Next

LEMMA Invariance == Spec => []IInv
BY InitIInv, NextIInv, PTL DEF Spec

-----------------------------------------------------------------------------
LEMMA FoundSigned == Consumed => \A k \in Range(found) : Signed(k)
BY DEF Consumed, Signed, Index, Range

\* As many finds as signatures leave no signature over.
LEMMA AllUsed ==
  ASSUME Arguments, Consumed
  PROVE  Len(found) = Len(signatures) <=> used = Index
<1>1. Len(signatures) \in Nat
  BY DEF Arguments
<1>2. IsFiniteSet(Index) /\ Cardinality(Index) = Len(signatures)
  <2>1. \A n \in Nat : IsFiniteSet(1..n) /\ Cardinality(1..n) = n
    BY FS_Interval
  <2> QED
    BY <1>1, <2>1 DEF Index
<1> QED
  BY <1>2, FS_Subset DEF Consumed

\* If the keys of all signatures were found, the client's signers among them
\* are those that signed.
LEMMA FoundClients ==
  ASSUME Arguments, Consumed, Range(signatures) \subseteq Range(found)
  PROVE  SignersFound = ClientsSigned
<1>1. SignersFound \subseteq ClientsSigned
  BY AllSignersKeys, FoundSigned DEF Consumed, SignersFound, ClientsSigned
<1>2. ClientsSigned \subseteq Range(found)
  BY DEF ClientsSigned, Signed
<1> QED
  BY <1>1, <1>2 DEF SignersFound, ClientsSigned

\* A verified SEP-10 challenge is signed by the server, by the client domain if
\* it names one, by signers of the client of enough weight, and by nobody else.
THEOREM VerifiedSigned == Spec => []VerifiedIsSigned
<1>1. IInv => VerifiedIsSigned
  <2> SUFFICES ASSUME IInv, verdict = "Verified"
               PROVE  /\ Signed(Server) /\ (clientKey # NoKey => Signed(clientKey))
                      /\ Range(signatures) \subseteq Range(signers) \cup {Server, clientKey}
                      /\ SignersFound = ClientsSigned /\ ClientsSigned # {}
                      /\ ~(WeightOf(ClientsSigned) < threshold)
    BY DEF VerifiedIsSigned
  <2>a. Arguments /\ Consumed /\ Judged
    BY DEF IInv
  <2>1. /\ Server \in Range(found) /\ (clientKey # NoKey => clientKey \in Range(found))
        /\ SignersFound # {} /\ Len(found) = Len(signatures)
        /\ ~(WeightOf(SignersFound) < threshold)
    BY <2>a DEF Judged, Judgement
  <2>2. Signed(Server) /\ (clientKey # NoKey => Signed(clientKey))
    BY <2>a, <2>1, FoundSigned
  <2>3. used = Index
    BY <2>a, <2>1, AllUsed
  <2>4. Range(signatures) \subseteq Range(found)
    BY <2>a, <2>3 DEF Consumed, Range, Index, Arguments
  <2>5. Range(signatures) \subseteq Range(signers) \cup {Server, clientKey}
    BY <2>a, <2>4, AllSignersKeys DEF Consumed
  <2>6. SignersFound = ClientsSigned
    BY <2>a, <2>4, FoundClients
  <2> QED
    BY <2>1, <2>2, <2>5, <2>6
<1> QED
  BY <1>1, Invariance, PTL

\* Whoever signs a SEP-10 challenge as the server asks is verified: no order of
\* the signers or the signatures, and no signer listed twice, keeps one of the
\* signatures from being consumed.
THEOREM SignedVerified == Spec => []SignedIsVerified
<1>1. IInv => SignedIsVerified
  <2> SUFFICES ASSUME IInv, next = Len(AllSigners) + 1, verdict # "matching",
                      Distinct(signatures), clientKey # Server,
                      clientKey # NoKey => Signed(clientKey),
                      Range(signatures) \subseteq Range(signers) \cup {Server, clientKey},
                      ClientsSigned # {}, ~(WeightOf(ClientsSigned) < threshold)
               PROVE  verdict = "Verified"
    BY DEF SignedIsVerified
  <2>a. Arguments /\ Consumed /\ Scanning /\ Tried /\ Judged
    BY DEF IInv
  <2>b. /\ AllSigners \in Seq(Keys)
        /\ Range(AllSigners) = Range(signers) \cup {Server} \cup ({clientKey} \ {NoKey})
    BY <2>a, AllSignersKeys
  <2>1. next > 1
    <3>1. Server \in Range(AllSigners)
      BY <2>b
    <3>2. Len(AllSigners) \in Nat /\ Len(AllSigners) # 0
      BY <2>b, <3>1 DEF Range
    <3> QED
      BY <3>2
  <2>2. Signed(Server) /\ verdict = Judgement
    BY <2>a, <2>1 DEF Scanning, Judged
  <2>3. \A k \in Range(AllSigners) : Signed(k) => k \in Range(found)
    <3>1. \A j \in DOMAIN AllSigners : j < next
      BY <2>b
    <3> QED
      BY <2>a, <3>1 DEF Tried, Range
  <2>4. Range(signatures) \subseteq Range(AllSigners)
    <3>1. Range(signatures) \subseteq Keys \cup {Unknown}
      BY <2>a DEF Arguments, Range
    <3> QED
      BY <2>b, <3>1, SignaturesAssumption
  <2>5. Range(signatures) \subseteq Range(found)
    BY <2>3, <2>4 DEF Signed
  <2>6. used = Index
    <3>1. ASSUME NEW i \in Index PROVE i \in used
      <4>1. signatures[i] \in Range(found)
        <5>1. DOMAIN signatures = Index
          BY <2>a DEF Index, Arguments
        <5>2. signatures[i] \in Range(signatures)
          BY <5>1 DEF Range
        <5> QED
          BY <2>5, <5>2
      <4>2. PICK j \in used : signatures[j] = signatures[i]
        BY <2>a, <4>1 DEF Consumed
      <4> QED
        BY <2>a, <4>2 DEF Distinct, Consumed, Index, Arguments
    <3> QED
      BY <2>a, <3>1 DEF Consumed
  <2>7. Len(found) = Len(signatures)
    BY <2>a, <2>6, AllUsed
  <2>8. SignersFound = ClientsSigned
    BY <2>a, <2>5, FoundClients
  <2>9. Server \in Range(found) /\ (clientKey # NoKey => clientKey \in Range(found))
    BY <2>2, <2>5 DEF Signed
  <2> QED
    BY <2>2, <2>7, <2>8, <2>9 DEF Judgement
<1> QED
  BY <1>1, Invariance, PTL

=============================================================================
