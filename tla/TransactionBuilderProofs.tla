----------------------- MODULE TransactionBuilderProofs -----------------------
(***************************************************************************)
(* The safety of TransactionBuilder for any number of builders, any fees   *)
(* and any number of operations.                                           *)
(***************************************************************************)
EXTENDS TransactionBuilder, TLAPS

\* What the envelopes are, whoever built them.
Counted ==
  /\ sequence \in Nat
  /\ envelopes \in Seq([owner : Builders, seq : Nat, fee : Nat, ops : Nat,
                        rfee : Nat, extra : Nat, shares : BOOLEAN])
  /\ builder \in [Builders -> [ops : Nat, extra : Nat, rfee : Nat]]
  /\ \A i \in Index : envelopes[i].rfee <= envelopes[i].fee

IInv == Counted /\ SequenceCountsEnvelopes /\ BumpOffersMore

-----------------------------------------------------------------------------
\* Rounding the inner fee per operation up is what makes the bump pay enough.
LEMMA CeilBounds ==
  ASSUME NEW x \in Nat, NEW n \in Nat, n > 0
  PROVE  Ceil(x, n) \in Int /\ Ceil(x, n) * n >= x
<1> DEFINE q == (x + n - 1) \div n
<1>1. q \in Int /\ x + n - 1 = n * q + ((x + n - 1) % n)
  OBVIOUS
<1>2. (x + n - 1) % n \in 0..n - 1
  OBVIOUS
<1> QED
  BY <1>1, <1>2 DEF Ceil

\* An inner transaction: it has operations and pays its resource fee.
Inner(t) == t.ops \in Nat /\ t.ops > 0 /\ t.fee \in Nat /\ t.rfee \in Nat /\ t.rfee <= t.fee

Offers(t, fee) ==
  /\ (fee - t.rfee) * t.ops >= (t.fee - t.rfee) * (t.ops + 1)
  /\ fee - t.rfee >= MinBaseFee * (t.ops + 1)

\* The guards of build_fee_bump_transaction() are enough.
LEMMA BumpOffers ==
  ASSUME NEW t, NEW base \in Nat, Inner(t), base >= MinBaseFee, base >= InnerBaseFee(t)
  PROVE  Offers(t, BumpFee(t, base))
<1> DEFINE n == t.ops
           x == t.fee - t.rfee
           r == t.rfee
<1>1. n \in Nat /\ n > 0 /\ x \in Nat /\ r \in Nat /\ MinBaseFee \in Nat
  BY BuilderAssumption DEF Inner
<1>2. base * n >= x
  <2>1. Ceil(x, n) \in Int /\ Ceil(x, n) * n >= x /\ base >= Ceil(x, n)
    BY <1>1, CeilBounds DEF InnerBaseFee
  <2>2. \A c \in Int : base >= c => base * n >= c * n
    BY <1>1
  <2>3. \A c \in Int : c * n \in Int /\ (c * n >= x /\ base * n >= c * n => base * n >= x)
    BY <1>1
  <2> QED
    BY <2>1, <2>2, <2>3
<1>3. BumpFee(t, base) = base * (n + 1) + r
  BY DEF BumpFee
<1> HIDE DEF n, x, r
<1>4. (base * (n + 1) + r) - r = base * (n + 1)
  BY <1>1
<1>5. (base * (n + 1)) * n >= x * (n + 1)
  <2>1. (base * (n + 1)) * n = (base * n) * (n + 1)
    BY <1>1
  <2>2. \A b \in Nat : b >= x => b * (n + 1) >= x * (n + 1)
    BY <1>1
  <2> QED
    BY <1>1, <1>2, <2>1, <2>2
<1>6. base * (n + 1) >= MinBaseFee * (n + 1)
  BY <1>1
<1> QED
  BY <1>3, <1>4, <1>5, <1>6 DEF Offers, n, x, r

LEMMA InitIInv == Init => IInv
<1> SUFFICES ASSUME Init PROVE IInv
  OBVIOUS
<1>1. Counted
  BY BuilderAssumption DEF Init, Counted, Index
<1>2. SequenceCountsEnvelopes /\ BumpOffersMore
  BY BuilderAssumption DEF Init, SequenceCountsEnvelopes, BumpOffersMore, Index
<1> QED
  BY <1>1, <1>2 DEF IInv

\* What a builder builds.
LEMMA EnvelopeFields ==
  ASSUME Counted, NEW b \in Builders
  PROVE  /\ Envelope(b) \in [owner : Builders, seq : Nat, fee : Nat, ops : Nat,
                             rfee : Nat, extra : Nat, shares : BOOLEAN]
         /\ Envelope(b).seq = sequence + 1
         /\ Envelope(b).rfee <= Envelope(b).fee
<1>1. builder[b].ops \in Nat /\ builder[b].rfee \in Nat /\ sequence \in Nat
  BY DEF Counted
<1>2. BaseFee * builder[b].ops \in Nat
  BY <1>1, BuilderAssumption
<1>3. BaseFee * builder[b].ops + builder[b].rfee \in Nat
  BY <1>1, <1>2
<1>4. SharesList(b) \in BOOLEAN
  BY DEF SharesList
<1> QED
  BY <1>1, <1>2, <1>3, <1>4 DEF Envelope

LEMMA FeeBumpIInv ==
  ASSUME IInv, NEW t, NEW base \in BumpFees, FeeBump(t, base),
         t.ops \in Nat, t.fee \in Nat, t.rfee \in Nat, t.rfee <= t.fee
  PROVE  IInv'
<1>1. /\ t.ops > 0 /\ base >= MinBaseFee /\ base >= InnerBaseFee(t) /\ base \in Nat
      /\ bumps' = bumps \cup {[inner |-> t, fee |-> BumpFee(t, base)]}
      /\ UNCHANGED <<sequence, builder, envelopes>>
  BY BuilderAssumption DEF FeeBump
<1>2. Offers(t, BumpFee(t, base))
  BY <1>1, BumpOffers DEF Inner
<1>3. BumpOffersMore'
  BY <1>1, <1>2 DEF IInv, BumpOffersMore, Offers
<1> QED
  BY <1>1, <1>3 DEF IInv, Counted, SequenceCountsEnvelopes, Index

LEMMA NextIInv == IInv /\ [Next]_vars => IInv'
<1> SUFFICES ASSUME IInv, [Next]_vars PROVE IInv'
  OBVIOUS
<1>a. Counted /\ SequenceCountsEnvelopes /\ BumpOffersMore
  BY DEF IInv
<1>0. ASSUME builder' \in [Builders -> [ops : Nat, extra : Nat, rfee : Nat]],
             UNCHANGED <<sequence, envelopes, bumps>>
      PROVE  IInv'
  BY <1>0, <1>a DEF IInv, Counted, SequenceCountsEnvelopes, BumpOffersMore, Index
<1>t. builder \in [Builders -> [ops : Nat, extra : Nat, rfee : Nat]]
  BY <1>a DEF Counted
<1>1. ASSUME NEW b \in Builders, AppendOperation(b) PROVE IInv'
  <2>1. builder[b].ops + 1 \in Nat
    BY <1>t
  <2>2. builder' \in [Builders -> [ops : Nat, extra : Nat, rfee : Nat]]
    BY <1>1, <1>t, <2>1 DEF AppendOperation
  <2> QED
    BY <2>2, <1>0, <1>1 DEF AppendOperation
<1>2. ASSUME NEW b \in Builders, AddExtraSigner(b) PROVE IInv'
  <2>1. builder[b].extra + 1 \in Nat
    BY <1>t
  <2>2. builder' \in [Builders -> [ops : Nat, extra : Nat, rfee : Nat]]
    BY <1>2, <1>t, <2>1 DEF AddExtraSigner
  <2> QED
    BY <2>2, <1>0, <1>2 DEF AddExtraSigner
<1>3. ASSUME NEW b \in Builders, NEW f \in ResourceFees, SetSorobanData(b, f) PROVE IInv'
  <2>1. f \in Nat
    BY BuilderAssumption
  <2>2. builder' \in [Builders -> [ops : Nat, extra : Nat, rfee : Nat]]
    BY <1>3, <1>t, <2>1 DEF SetSorobanData
  <2> QED
    BY <2>2, <1>0, <1>3 DEF SetSorobanData
<1>4. ASSUME NEW b \in Builders, Build(b) PROVE IInv'
  <2> DEFINE e == Envelope(b)
             E == [owner : Builders, seq : Nat, fee : Nat, ops : Nat,
                   rfee : Nat, extra : Nat, shares : BOOLEAN]
  <2>1. e \in E /\ e.seq = sequence + 1 /\ e.rfee <= e.fee
    BY <1>a, EnvelopeFields
  <2>2. envelopes' = Append(envelopes, e) /\ sequence' = sequence + 1 /\ UNCHANGED <<builder, bumps>>
    BY <1>4 DEF Build
  <2>3. envelopes \in Seq(E)
    BY <1>a DEF Counted
  <2> HIDE DEF e, E
  <2>4. /\ envelopes' \in Seq(E) /\ Len(envelopes') = Len(envelopes) + 1 /\ Len(envelopes) \in Nat
        /\ \A i \in Index : envelopes'[i] = envelopes[i]
        /\ envelopes'[Len(envelopes) + 1] = e
    BY <2>1, <2>2, <2>3 DEF Index
  <2>5. \A i \in Index' : i \in Index \/ i = Len(envelopes) + 1
    BY <2>4 DEF Index
  <2>6. Counted'
    <3>1. \A i \in Index' : envelopes'[i].rfee <= envelopes'[i].fee
      BY <2>1, <2>4, <2>5, <1>a DEF Counted
    <3>2. sequence' \in Nat /\ builder' \in [Builders -> [ops : Nat, extra : Nat, rfee : Nat]]
      BY <2>2, <1>a DEF Counted
    <3> QED
      BY <3>1, <3>2, <2>4 DEF Counted, E
  <2>7. SequenceCountsEnvelopes'
    <3>1. FirstSequence \in Nat /\ sequence = FirstSequence + Len(envelopes)
      BY <1>a, BuilderAssumption DEF SequenceCountsEnvelopes
    <3>2. sequence + 1 = FirstSequence + (Len(envelopes) + 1)
      BY <3>1, <2>4
    <3>3. \A i \in Index' : envelopes'[i].seq = FirstSequence + i
      BY <2>1, <2>4, <2>5, <3>2, <1>a DEF SequenceCountsEnvelopes
    <3> QED
      BY <3>2, <3>3, <2>2, <2>4 DEF SequenceCountsEnvelopes
  <2>8. BumpOffersMore'
    BY <2>2, <1>a DEF BumpOffersMore
  <2> QED
    BY <2>6, <2>7, <2>8 DEF IInv
<1>5. ASSUME NEW base \in BumpFees, NEW i \in Index, FeeBump(Content(envelopes[i]), base)
      PROVE  IInv'
  <2> DEFINE t == Content(envelopes[i])
  <2>1. t.ops \in Nat /\ t.fee \in Nat /\ t.rfee \in Nat /\ t.rfee <= t.fee
    <3>1. /\ envelopes[i].ops \in Nat /\ envelopes[i].fee \in Nat /\ envelopes[i].rfee \in Nat
          /\ envelopes[i].rfee <= envelopes[i].fee
      <4> DEFINE E == [owner : Builders, seq : Nat, fee : Nat, ops : Nat,
                       rfee : Nat, extra : Nat, shares : BOOLEAN]
      <4>1. envelopes \in Seq(E) /\ envelopes[i].rfee <= envelopes[i].fee
        BY <1>a DEF Counted
      <4> HIDE DEF E
      <4>2. envelopes[i] \in E
        BY <4>1 DEF Index
      <4> QED
        BY <4>1, <4>2 DEF E
    <3>2. t.ops = envelopes[i].ops /\ t.fee = envelopes[i].fee /\ t.rfee = envelopes[i].rfee
      BY DEF Content
    <3> QED
      BY <3>1, <3>2
  <2> HIDE DEF t
  <2> QED
    BY <1>5, <2>1, FeeBumpIInv DEF t
<1>6. ASSUME NEW base \in BumpFees, NEW t \in Foreign, FeeBump(t, base)
      PROVE  IInv'
  <2>1. t.ops \in Nat /\ t.fee \in Nat /\ t.rfee \in Nat /\ t.rfee <= t.fee
    <3>1. PICK f \in ForeignFees, r \in ResourceFees, n \in 1..MaxOps :
            t = [seq |-> 0, fee |-> f + r, ops |-> n, rfee |-> r, extra |-> 0]
      BY DEF Foreign
    <3>2. f \in Nat /\ r \in Nat /\ n \in Nat
      BY BuilderAssumption
    <3> QED
      BY <3>1, <3>2
  <2> QED
    BY <1>6, <2>1, FeeBumpIInv
<1>7. CASE UNCHANGED vars
  BY <1>7, <1>a DEF vars, IInv, Counted, SequenceCountsEnvelopes, BumpOffersMore, Index
<1> QED
  BY <1>1, <1>2, <1>3, <1>4, <1>5, <1>6, <1>7 DEF Next

LEMMA Invariance == Spec => []IInv
BY InitIInv, NextIInv, PTL DEF Spec

-----------------------------------------------------------------------------
\* build() consumes a sequence number exactly when it makes an envelope, in
\* whatever order builders over one Account object call it.
THEOREM SequenceCounted == Spec => []SequenceCountsEnvelopes
<1>1. IInv => SequenceCountsEnvelopes
  BY DEF IInv
<1> QED
  BY <1>1, Invariance, PTL

\* build_fee_bump_transaction() never offers less per operation than the inner
\* transaction does.
THEOREM BumpPaysMore == Spec => []BumpOffersMore
<1>1. IInv => BumpOffersMore
  BY DEF IInv
<1> QED
  BY <1>1, Invariance, PTL

-----------------------------------------------------------------------------
(* Envelopes and the lists they share. *)

\* A list that is shared is not empty.
Held == \A i \in Index : envelopes[i].shares => builder[envelopes[i].owner].extra > 0

LEMMA EntryFields ==
  ASSUME Counted, NEW i \in Index
  PROVE  envelopes[i].owner \in Builders /\ envelopes[i].shares \in BOOLEAN
<1> DEFINE E == [owner : Builders, seq : Nat, fee : Nat, ops : Nat,
                 rfee : Nat, extra : Nat, shares : BOOLEAN]
<1>1. envelopes \in Seq(E)
  BY DEF Counted
<1> HIDE DEF E
<1>2. envelopes[i] \in E
  BY <1>1 DEF Index
<1> QED
  BY <1>2 DEF E

\* A step adds at most one envelope, or changes the builders.
LEMMA StepEffects ==
  ASSUME Counted, [Next]_vars
  PROVE  \/ \E b \in Builders : AddExtraSigner(b) /\ UNCHANGED envelopes
         \/ \E b \in Builders : /\ envelopes' = Append(envelopes, Envelope(b))
                                /\ UNCHANGED builder
         \/ /\ UNCHANGED envelopes
            /\ \A c \in Builders : builder'[c].extra = builder[c].extra
<1>t. builder \in [Builders -> [ops : Nat, extra : Nat, rfee : Nat]]
  BY DEF Counted
<1>1. ASSUME NEW b \in Builders, AppendOperation(b)
      PROVE  UNCHANGED envelopes /\ \A c \in Builders : builder'[c].extra = builder[c].extra
  BY <1>1, <1>t DEF AppendOperation
<1>2. ASSUME NEW b \in Builders, NEW f \in ResourceFees, SetSorobanData(b, f)
      PROVE  UNCHANGED envelopes /\ \A c \in Builders : builder'[c].extra = builder[c].extra
  BY <1>2, <1>t DEF SetSorobanData
<1>3. ASSUME NEW b \in Builders, AddExtraSigner(b)
      PROVE  UNCHANGED envelopes
  BY <1>3 DEF AddExtraSigner
<1>4. ASSUME NEW b \in Builders, Build(b)
      PROVE  envelopes' = Append(envelopes, Envelope(b)) /\ UNCHANGED builder
  BY <1>4 DEF Build
<1>5. ASSUME NEW t, NEW base, FeeBump(t, base)
      PROVE  UNCHANGED <<envelopes, builder>>
  BY <1>5 DEF FeeBump
<1>6. CASE UNCHANGED vars
  BY <1>6 DEF vars
<1> QED
  BY <1>1, <1>2, <1>3, <1>4, <1>5, <1>6 DEF Next

\* What AddExtraSigner does to the number of signers.
LEMMA SignerAdded ==
  ASSUME Counted, NEW b \in Builders, AddExtraSigner(b), NEW c \in Builders
  PROVE  /\ builder[c].extra \in Nat
         /\ builder'[c].extra = IF c = b THEN builder[c].extra + 1 ELSE builder[c].extra
BY DEF Counted, AddExtraSigner

LEMMA HeldNext == Counted /\ Held /\ [Next]_vars => Held'
<1> SUFFICES ASSUME Counted, Held, [Next]_vars PROVE Held'
  OBVIOUS
<1>1. ASSUME NEW b \in Builders, AddExtraSigner(b), UNCHANGED envelopes PROVE Held'
  <2>1. ASSUME NEW i \in Index, envelopes[i].shares
        PROVE  builder'[envelopes[i].owner].extra > 0
    <3>1. envelopes[i].owner \in Builders /\ builder[envelopes[i].owner].extra > 0
      BY <2>1, EntryFields DEF Held
    <3> QED
      BY <1>1, <3>1, SignerAdded
  <2> QED
    BY <1>1, <2>1 DEF Held, Index
<1>2. ASSUME NEW b \in Builders, envelopes' = Append(envelopes, Envelope(b)), UNCHANGED builder
      PROVE  Held'
  <2> DEFINE e == Envelope(b)
             E == [owner : Builders, seq : Nat, fee : Nat, ops : Nat,
                   rfee : Nat, extra : Nat, shares : BOOLEAN]
  <2>1. e \in E /\ envelopes \in Seq(E)
    BY EnvelopeFields DEF Counted
  <2>2. e.owner = b /\ (e.shares => builder[b].extra > 0)
    BY DEF Envelope, SharesList
  <2> HIDE DEF e, E
  <2>3. /\ \A i \in Index : envelopes'[i] = envelopes[i]
        /\ \A i \in Index' : i \in Index \/ envelopes'[i] = e
    BY <1>2, <2>1 DEF Index, e
  <2> QED
    BY <1>2, <2>2, <2>3 DEF Held
<1>3. ASSUME UNCHANGED envelopes, \A c \in Builders : builder'[c].extra = builder[c].extra
      PROVE  Held'
  <2>1. ASSUME NEW i \in Index, envelopes[i].shares
        PROVE  builder'[envelopes[i].owner].extra > 0
    BY <1>3, <2>1, EntryFields DEF Held
  <2> QED
    BY <1>3, <2>1 DEF Held, Index
<1> QED
  BY <1>1, <1>2, <1>3, StepEffects

LEMMA KeptNext ==
  ASSUME Counted, Held, [Next]_vars, NEW i \in Index
  PROVE  Kept(i) \/ GetsSigner(i)
<1>e. envelopes[i].owner \in Builders /\ envelopes[i].shares \in BOOLEAN
  BY EntryFields
<1>1. ASSUME NEW b \in Builders, AddExtraSigner(b), UNCHANGED envelopes
      PROVE  Kept(i) \/ GetsSigner(i)
  <2>1. CASE envelopes[i].shares /\ envelopes[i].owner = b
    <3>1. Extra(envelopes[i]) = builder[b].extra /\ Extra(envelopes[i])' = builder[b].extra + 1
      BY <1>1, <2>1, SignerAdded DEF Extra
    <3>2. Extra(envelopes[i]) > 0
      BY <2>1, <3>1 DEF Held
    <3> QED
      BY <1>1, <2>1, <3>1, <3>2 DEF GetsSigner, Content
  <2>2. CASE ~(envelopes[i].shares /\ envelopes[i].owner = b)
    <3>1. Extra(envelopes[i])' = Extra(envelopes[i])
      BY <1>e, <1>1, <2>2, SignerAdded DEF Extra
    <3> QED
      BY <1>1, <3>1 DEF Kept, Content
  <2> QED
    BY <2>1, <2>2
<1>2. ASSUME NEW b \in Builders, envelopes' = Append(envelopes, Envelope(b)), UNCHANGED builder
      PROVE  Kept(i)
  <2> DEFINE e == Envelope(b)
             E == [owner : Builders, seq : Nat, fee : Nat, ops : Nat,
                   rfee : Nat, extra : Nat, shares : BOOLEAN]
  <2>1. e \in E /\ envelopes \in Seq(E)
    BY EnvelopeFields DEF Counted
  <2> HIDE DEF e, E
  <2>2. envelopes'[i] = envelopes[i]
    BY <1>2, <2>1 DEF Index, e
  <2> QED
    BY <1>2, <2>2 DEF Kept, Content, Extra
<1>3. ASSUME UNCHANGED envelopes, \A c \in Builders : builder'[c].extra = builder[c].extra
      PROVE  Kept(i)
  BY <1>e, <1>3 DEF Kept, Content, Extra
<1> QED
  BY <1>1, <1>2, <1>3, StepEffects

\* An envelope, once built, is changed by nothing but the signers added to the
\* builder whose list it shares, whatever else is built, bumped or appended.
THEOREM NothingElseChanges == Spec => BuiltStaysBuilt
<1>1. Init => Held
  BY DEF Init, Held, Index
<1>2. IInv => Counted
  BY DEF IInv
<1>3. IInv /\ Held /\ [Next]_vars => Held'
  BY <1>2, HeldNext
<1>4. IInv /\ Held /\ [Next]_vars => [\A i \in Index : Kept(i) \/ GetsSigner(i)]_vars
  BY <1>2, KeptNext
<1> QED
  BY <1>1, <1>3, <1>4, Invariance, PTL DEF Spec, BuiltStaysBuilt

===============================================================================
