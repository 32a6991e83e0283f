-------------------------- MODULE TransactionBuilder --------------------------
(***************************************************************************)
(* transaction_builder.py, account.py, transaction.py, preconditions.py:   *)
(* builders that share one Account object, the envelopes they build, which *)
(* may be wrapped into fee bumps, and the lists that they share.           *)
(* Operations count, their content does not; of the preconditions only the *)
(* extra signers are kept, the one that is not a value.                    *)
(***************************************************************************)
EXTENDS Integers, Sequences, FiniteSets

CONSTANTS
  Builders,      \* TransactionBuilder objects over the one Account object
  FirstSequence, \* Account.sequence when it was loaded
  BaseFee,       \* the builders' base_fee
  MinBaseFee,    \* MIN_BASE_FEE
  BumpFees,      \* the base_fee values fee bumps are asked with
  ForeignFees,   \* the fees of envelopes read with from_xdr()
  ResourceFees,  \* resource_fee of a soroban_data, 0 for none
  MaxOps, MaxExtra, MaxEnvelopes, MaxBumps  \* bounds

ASSUME BuilderAssumption ==
  /\ FirstSequence \in Nat /\ BaseFee \in Nat /\ MinBaseFee \in Nat
  /\ BumpFees \subseteq Nat /\ ForeignFees \subseteq Nat /\ ResourceFees \subseteq Nat
  /\ MaxOps \in Nat /\ MaxExtra \in Nat /\ MaxEnvelopes \in Nat /\ MaxBumps \in Nat

VARIABLES
  sequence,  \* Account.sequence
  builder,   \* per builder: number of operations and extra signers, resource fee
  envelopes, \* all envelopes, in the order they were made
  bumps      \* the fee bumps, each with the inner envelope it was made from

vars == <<sequence, builder, envelopes, bumps>>

Index == 1..Len(envelopes)

\* extra_signers of an envelope's preconditions: a list of its own, or the list
\* of the builder that built it.
Extra(e) == IF e.shares THEN builder[e.owner].extra ELSE e.extra

\* What is hashed and signed.
Content(e) == [seq |-> e.seq, fee |-> e.fee, ops |-> e.ops, rfee |-> e.rfee, extra |-> Extra(e)]

Init ==
  /\ sequence = FirstSequence
  /\ builder = [b \in Builders |-> [ops |-> 0, extra |-> 0, rfee |-> 0]]
  /\ envelopes = <<>>
  /\ bumps = {}

AppendOperation(b) ==
  /\ builder[b].ops < MaxOps
  /\ builder' = [builder EXCEPT ![b].ops = @ + 1]
  /\ UNCHANGED <<sequence, envelopes, bumps>>

AddExtraSigner(b) ==
  /\ builder[b].extra < MaxExtra
  /\ builder' = [builder EXCEPT ![b].extra = @ + 1]
  /\ UNCHANGED <<sequence, envelopes, bumps>>

SetSorobanData(b, f) ==
  /\ builder' = [builder EXCEPT ![b].rfee = f]
  /\ UNCHANGED <<sequence, envelopes, bumps>>

\* Preconditions() refuses more than two extra signers; an empty list is not
\* kept but replaced by a new one.
Preconditions(b) == builder[b].extra <= 2

\* Mutant of SharesList: an empty list is kept like any other.
SharesListAlways(b) == TRUE

SharesList(b) == builder[b].extra > 0

Envelope(b) ==
  [owner |-> b, seq |-> sequence + 1,
   fee |-> BaseFee * builder[b].ops + builder[b].rfee,
   ops |-> builder[b].ops, rfee |-> builder[b].rfee,
   extra |-> 0, shares |-> SharesList(b)]

\* Mutant of Build: the sequence number is taken before Preconditions() refuses.
BuildCountsFirst(b) ==
  /\ Len(envelopes) < MaxEnvelopes /\ sequence < FirstSequence + MaxEnvelopes
  /\ sequence' = sequence + 1
  /\ envelopes' = IF Preconditions(b) THEN Append(envelopes, Envelope(b)) ELSE envelopes
  /\ UNCHANGED <<builder, bumps>>

\* build() increments the account's sequence number when all else is done.
Build(b) ==
  /\ Len(envelopes) < MaxEnvelopes
  /\ Preconditions(b)
  /\ envelopes' = Append(envelopes, Envelope(b))
  /\ sequence' = sequence + 1
  /\ UNCHANGED <<builder, bumps>>

Ceil(x, n) == (x + n - 1) \div n

\* Mutant of InnerBaseFee: rounded down.
InnerBaseFeeFloor(t) == (t.fee - t.rfee) \div t.ops

\* The inclusion fee per operation of an inner transaction.
InnerBaseFee(t) == Ceil(t.fee - t.rfee, t.ops)

\* Mutant of BumpFee: the bump itself is not counted as an operation.
BumpFeeSameOps(t, base) == base * t.ops + t.rfee

BumpFee(t, base) == base * (t.ops + 1) + t.rfee

\* build_fee_bump_transaction() copies an envelope, its own or a foreign one.
FeeBump(t, base) ==
  /\ t.ops > 0
  /\ base >= MinBaseFee /\ base >= InnerBaseFee(t)
  /\ bumps' = bumps \cup {[inner |-> t, fee |-> BumpFee(t, base)]}
  /\ UNCHANGED <<sequence, builder, envelopes>>

Foreign ==
  {[seq |-> 0, fee |-> f + r, ops |-> n, rfee |-> r, extra |-> 0] :
     f \in ForeignFees, r \in ResourceFees, n \in 1..MaxOps}

Next ==
  \/ \E b \in Builders :
       \/ AppendOperation(b) \/ AddExtraSigner(b) \/ Build(b)
       \/ \E f \in ResourceFees : SetSorobanData(b, f)
  \/ /\ Cardinality(bumps) < MaxBumps
     /\ \E base \in BumpFees :
          \/ \E i \in Index : FeeBump(Content(envelopes[i]), base)
          \/ \E t \in Foreign : FeeBump(t, base)

Spec == Init /\ [][Next]_vars

-----------------------------------------------------------------------------
(* Properties *)

\* Whichever builders build, and however often build() is refused, the Account
\* counts the envelopes, and no two of them have the same sequence number.
SequenceCountsEnvelopes ==
  /\ sequence = FirstSequence + Len(envelopes)
  /\ \A i \in Index : envelopes[i].seq = FirstSequence + i

\* A fee bump offers at least the inner transaction's inclusion fee per
\* operation, and at least the minimum, counting itself as an operation.
BumpOffersMore ==
  \A bump \in bumps :
    LET t == bump.inner
        offer == bump.fee - t.rfee
    IN /\ offer * t.ops >= (t.fee - t.rfee) * (t.ops + 1)
       /\ offer >= MinBaseFee * (t.ops + 1)

Kept(i) == (Content(envelopes[i]))' = Content(envelopes[i])

GetsSigner(i) ==
  /\ Extra(envelopes[i]) > 0 /\ AddExtraSigner(envelopes[i].owner)
  /\ (Content(envelopes[i]))' = [Content(envelopes[i]) EXCEPT !.extra = @ + 1]

\* What is built stays as it was built, and signed, although builders go on and
\* envelopes share lists with them (TransactionBuilder.build, Preconditions):
\* the exception is an envelope that was built with extra signers, which gets
\* the signers that are added to its builder later, and nothing else.
BuiltStaysBuilt == [][\A i \in Index : Kept(i) \/ GetsSigner(i)]_vars

=============================================================================
