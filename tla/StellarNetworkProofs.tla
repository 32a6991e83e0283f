------------------------ MODULE StellarNetworkProofs ------------------------
(***************************************************************************)
(* What the operators of StellarNetwork do to an envelope, for the proofs  *)
(* about the synchronous and the asynchronous contract invocation.         *)
(***************************************************************************)
EXTENDS StellarNetwork, TLAPS

-----------------------------------------------------------------------------
(* The operators on envelopes *)

\* A hash keeps every field of the envelope but the signature.
LEMMA HashFields ==
  ASSUME NEW t \in Tx
  PROVE  /\ Hash(t) \in Tx
         /\ Hash(t).owner = t.owner /\ Hash(t).seq = t.seq
         /\ Hash(t).fee = t.fee /\ Hash(t).rfee = t.rfee
         /\ Hash(t).unsigned = t.unsigned /\ Hash(t).authorized = t.authorized
         /\ Hash(t).covered = t.covered
         /\ Hash(t).excess = t.excess /\ Hash(t).halfway = t.halfway
  BY DEF Hash, Tx

\* What a simulation asks for is a fee and a resource fee.
LEMMA AskedType ==
  /\ \A f \in ResourceFees : f.min \in Nat /\ f.stored \in Nat
  /\ \A t : Asked(t) \subseteq ResourceFees
BY FeesAssumption DEF Asked

\* A fresh envelope has the base fee and its resource fee, and no entries.
LEMMA BuildFields ==
  ASSUME NEW o \in Clients \cup {RestoreOp}, NEW n \in Nat, NEW f \in Nat
  PROVE  /\ Build(o, n, f) \in Tx
         /\ Build(o, n, f).owner = o /\ Build(o, n, f).seq = n
         /\ Build(o, n, f).rfee = f /\ Build(o, n, f).fee = BaseFee + f
         /\ Build(o, n, f).unsigned = {} /\ Build(o, n, f).authorized = {}
         /\ ~Build(o, n, f).signed
         /\ Build(o, n, f).excess = 0 /\ Build(o, n, f).halfway = {}
  BY NetworkAssumption DEF Build, Tx

\* Assembling adds the fee, replaces the resource fee, fills op.auth only if it is
\* empty, and covers the contract accounts that have signed.
LEMMA AssembleFields ==
  ASSUME NEW t \in Tx, NEW f \in ResourceFees
  PROVE  /\ Assemble(t, f) \in Tx
         /\ Assemble(t, f).owner = t.owner /\ Assemble(t, f).seq = t.seq
         /\ Assemble(t, f).rfee = f.stored /\ Assemble(t, f).fee = (t.fee - t.rfee) + f.min
         /\ Assemble(t, f).authorized = t.authorized
         /\ Assemble(t, f).unsigned =
              IF t.owner # RestoreOp /\ t.unsigned \cup t.authorized = {}
              THEN Addrs ELSE t.unsigned
         /\ Assemble(t, f).covered = t.authorized \cap ContractAddrs
         /\ ~Assemble(t, f).signed
         /\ Assemble(t, f).excess = t.excess + f.min - f.stored
         /\ Assemble(t, f).halfway = {}
<1> DEFINE entries == IF t.owner # RestoreOp /\ t.unsigned \cup t.authorized = {}
                      THEN Addrs ELSE t.unsigned
           cov == t.authorized \cap ContractAddrs
           fee == (t.fee - t.rfee) + f.min
           exc == t.excess + f.min - f.stored
           none == {}
<1>1. entries \in SUBSET Addrs
  BY DEF Tx
<1>2. cov \in SUBSET ContractAddrs /\ none \in SUBSET ContractAddrs
  OBVIOUS
<1>3. f.min \in Nat /\ f.stored \in Nat
  BY AskedType
<1>4. fee \in Int /\ exc \in Int
  BY <1>3 DEF Tx
<1>5. Assemble(t, f) = [t EXCEPT !.fee = fee, !.rfee = f.stored, !.unsigned = entries,
                                 !.covered = cov, !.signed = FALSE, !.excess = exc,
                                 !.halfway = none]
  BY DEF Assemble, Tx
<1>e. /\ entries = IF t.owner # RestoreOp /\ t.unsigned \cup t.authorized = {}
                    THEN Addrs ELSE t.unsigned
      /\ cov = t.authorized \cap ContractAddrs /\ none = {}
  OBVIOUS
<1>f. fee = (t.fee - t.rfee) + f.min /\ exc = t.excess + f.min - f.stored
  OBVIOUS
<1> HIDE DEF entries, cov, fee, exc, none
<1>6. Assemble(t, f) \in Tx
  BY <1>1, <1>2, <1>3, <1>4, <1>5 DEF Tx
<1>7. /\ Assemble(t, f).owner = t.owner /\ Assemble(t, f).seq = t.seq
      /\ Assemble(t, f).rfee = f.stored /\ Assemble(t, f).fee = fee
      /\ Assemble(t, f).authorized = t.authorized
      /\ Assemble(t, f).unsigned = entries
      /\ Assemble(t, f).covered = cov
      /\ ~Assemble(t, f).signed
      /\ Assemble(t, f).excess = exc /\ Assemble(t, f).halfway = none
  BY <1>5 DEF Tx
<1> QED
  BY <1>6, <1>7, <1>e, <1>f

\* The copy that prepare() simulates keeps the entries and loses the resources.
LEMMA ForSimulationFields ==
  ASSUME NEW t \in Tx
  PROVE  /\ ForSimulation(t) \in Tx
         /\ ForSimulation(t).owner = t.owner /\ ForSimulation(t).seq = t.seq
         /\ ForSimulation(t).rfee = 0 /\ ForSimulation(t).fee = t.fee - t.rfee
         /\ ForSimulation(t).unsigned = t.unsigned
         /\ ForSimulation(t).authorized = t.authorized
         /\ ForSimulation(t).excess = t.excess
<1>1. {} \in SUBSET ContractAddrs /\ t.fee - t.rfee \in Int /\ 0 \in Nat
  BY DEF Tx
<1>2. QED
  BY <1>1 DEF ForSimulation, Tx

\* The entries of an address that are signed, all or some of them.
LEMMA SignEntriesFields ==
  ASSUME NEW t \in Tx, NEW a \in t.unsigned \cup t.authorized
  PROVE  LET u == SignEntries(t, a)
         IN /\ u \in Tx /\ u.owner = t.owner /\ u.seq = t.seq
            /\ u.fee = t.fee /\ u.rfee = t.rfee /\ u.excess = t.excess /\ u.signed = t.signed
            /\ u.unsigned = t.unsigned \ {a} /\ u.authorized = t.authorized \cup {a}
            /\ u.covered = t.covered \ {a} /\ u.halfway = t.halfway \ {a}
<1> DEFINE uns == t.unsigned \ {a}
           aut == t.authorized \cup {a}
           cov == t.covered \ {a}
           half == t.halfway \ {a}
<1>1. /\ uns \in SUBSET Addrs /\ aut \in SUBSET Addrs
      /\ cov \in SUBSET ContractAddrs /\ half \in SUBSET ContractAddrs
  BY DEF Tx
<1>2. SignEntries(t, a) = [t EXCEPT !.unsigned = uns, !.authorized = aut, !.covered = cov,
                                    !.halfway = half]
  BY DEF SignEntries, Tx
<1> HIDE DEF uns, aut, cov, half
<1>3. LET u == SignEntries(t, a)
      IN /\ u \in Tx /\ u.owner = t.owner /\ u.seq = t.seq
         /\ u.fee = t.fee /\ u.rfee = t.rfee /\ u.excess = t.excess /\ u.signed = t.signed
         /\ u.unsigned = uns /\ u.authorized = aut /\ u.covered = cov /\ u.halfway = half
  BY <1>1, <1>2 DEF Tx
<1> QED
  BY <1>3 DEF uns, aut, cov, half

LEMMA SignSomeEntriesFields ==
  ASSUME NEW t \in Tx, NEW a \in t.unsigned \cup t.authorized
  PROVE  LET u == SignSomeEntries(t, a)
         IN /\ u \in Tx /\ u.owner = t.owner /\ u.seq = t.seq
            /\ u.fee = t.fee /\ u.rfee = t.rfee /\ u.excess = t.excess /\ u.signed = t.signed
            /\ u.unsigned = t.unsigned /\ u.authorized = t.authorized
            /\ u.covered = t.covered \ {a}
            /\ u.halfway = t.halfway \cup ({a} \cap t.authorized \cap ContractAddrs)
<1> DEFINE cov == t.covered \ {a}
           half == t.halfway \cup ({a} \cap t.authorized \cap ContractAddrs)
<1>1. cov \in SUBSET ContractAddrs /\ half \in SUBSET ContractAddrs
  BY DEF Tx
<1>2. SignSomeEntries(t, a) = [t EXCEPT !.covered = cov, !.halfway = half]
  BY DEF SignSomeEntries, Tx
<1> HIDE DEF cov, half
<1>3. LET u == SignSomeEntries(t, a)
      IN /\ u \in Tx /\ u.owner = t.owner /\ u.seq = t.seq
         /\ u.fee = t.fee /\ u.rfee = t.rfee /\ u.excess = t.excess /\ u.signed = t.signed
         /\ u.unsigned = t.unsigned /\ u.authorized = t.authorized
         /\ u.covered = cov /\ u.halfway = half
  BY <1>1, <1>2 DEF Tx
<1> QED
  BY <1>3 DEF cov, half

\* Signing changes the signature and nothing else.
LEMMA SignedFields ==
  ASSUME NEW t \in Tx, NEW b \in BOOLEAN
  PROVE  /\ [t EXCEPT !.signed = b] \in Tx
         /\ [t EXCEPT !.signed = b].signed = b
         /\ [t EXCEPT !.signed = b].owner = t.owner
         /\ [t EXCEPT !.signed = b].seq = t.seq
         /\ [t EXCEPT !.signed = b].fee = t.fee
         /\ [t EXCEPT !.signed = b].rfee = t.rfee
         /\ [t EXCEPT !.signed = b].unsigned = t.unsigned
         /\ [t EXCEPT !.signed = b].authorized = t.authorized
         /\ [t EXCEPT !.signed = b].covered = t.covered
         /\ [t EXCEPT !.signed = b].excess = t.excess
         /\ [t EXCEPT !.signed = b].halfway = t.halfway
  BY DEF Tx

-----------------------------------------------------------------------------
(* What an envelope must be like, wherever it is kept. *)

Paid(t) == t.fee = BaseFee + t.rfee + t.excess

\* Its entries are those the simulation asked for, or not known yet.
Whole(t) == t.unsigned \cup t.authorized \in {{}, Addrs}

\* A built transaction, np being its object's _needs_preparation.
Fit(t, np) ==
  /\ t.unsigned \cup t.authorized = Addrs
  /\ ~np => t.authorized \cap ContractAddrs \subseteq t.covered \cup t.halfway
  /\ t.signed => t.unsigned = {} /\ ~np

Ready(t) ==
  t.owner # RestoreOp =>
    t.unsigned = {} /\ ContractAddrs \subseteq t.covered \cup t.halfway

LEMMA BuildGood ==
  ASSUME NEW o \in Clients \cup {RestoreOp}, NEW n \in Nat, NEW f \in Nat
  PROVE  Paid(Build(o, n, f)) /\ Whole(Build(o, n, f))
<1>1. BaseFee + f = BaseFee + f + 0
  BY NetworkAssumption
<1> QED
  BY <1>1, BuildFields DEF Paid, Whole

LEMMA AssembleGood ==
  ASSUME NEW t \in Tx, NEW f \in ResourceFees, Paid(t)
  PROVE  /\ Paid(Assemble(t, f))
         /\ t.owner # RestoreOp /\ Whole(t) => Fit(Assemble(t, f), FALSE)
<1>1. Paid(Assemble(t, f))
  <2>1. t.fee \in Int /\ t.rfee \in Int /\ t.excess \in Int
        /\ t.fee = BaseFee + t.rfee + t.excess
    BY DEF Tx, Paid
  <2>2. f.min \in Int /\ f.stored \in Int
    BY AskedType
  <2>3. (t.fee - t.rfee) + f.min = BaseFee + f.stored + (t.excess + f.min - f.stored)
    BY <2>1, <2>2, NetworkAssumption
  <2> QED
    BY <2>3, AssembleFields DEF Paid
<1>2. ASSUME t.owner # RestoreOp, Whole(t)
      PROVE  Fit(Assemble(t, f), FALSE)
  <2>1. t.unsigned \cup t.authorized = {} => t.authorized = {}
    OBVIOUS
  <2>2. Assemble(t, f).unsigned \cup Assemble(t, f).authorized = Addrs
    BY <1>2, <2>1, AssembleFields DEF Whole
  <2> QED
    BY <2>2, AssembleFields DEF Fit
<1> QED
  BY <1>1, <1>2

LEMMA ForSimulationGood ==
  ASSUME NEW t \in Tx, NEW np, Paid(t), Fit(t, np)
  PROVE  Paid(ForSimulation(t)) /\ Whole(ForSimulation(t))
<1>1. \A fee, rfee, exc \in Int :
        fee = BaseFee + rfee + exc => fee - rfee = BaseFee + 0 + exc
  BY NetworkAssumption
<1>2. t.fee \in Int /\ t.rfee \in Int /\ t.excess \in Int
      /\ t.fee = BaseFee + t.rfee + t.excess
  BY DEF Tx, Paid
<1>3. t.fee - t.rfee = BaseFee + 0 + t.excess
  BY <1>1, <1>2
<1> QED
  BY <1>3, ForSimulationFields DEF Paid, Whole, Fit

\* A signature may be put on a transaction with no unsigned entry that needs no
\* preparation.
LEMMA SignedGood ==
  ASSUME NEW t \in Tx, NEW b \in BOOLEAN, Paid(t), Fit(t, FALSE), b => t.unsigned = {}
  PROVE  Paid([t EXCEPT !.signed = b]) /\ Fit([t EXCEPT !.signed = b], FALSE)
  BY SignedFields DEF Paid, Fit

LEMMA HashGood ==
  ASSUME NEW t \in Tx, Paid(t)
  PROVE  /\ Paid(Hash(t))
         /\ \A np : Fit(t, np) /\ t.signed => Ready(Hash(t))
  BY HashFields, AddrsAssumption DEF Paid, Fit, Ready

LEMMA AuthorizedGood ==
  ASSUME NEW t \in Tx, NEW np \in BOOLEAN, NEW a \in t.unsigned \cup t.authorized,
         ~t.signed, Paid(t), Fit(t, np)
  PROVE  Paid(SignEntries(t, a)) /\ Fit(SignEntries(t, a), np \/ a \in ContractAddrs)
<1> DEFINE u == SignEntries(t, a)
<1>1. /\ u.fee = t.fee /\ u.rfee = t.rfee /\ u.excess = t.excess /\ u.signed = t.signed
      /\ u.unsigned = t.unsigned \ {a} /\ u.authorized = t.authorized \cup {a}
      /\ u.covered = t.covered \ {a} /\ u.halfway = t.halfway \ {a}
  BY SignEntriesFields
<1> HIDE DEF u
<1>2. Paid(u)
  BY <1>1 DEF Paid
<1>3. Fit(u, np \/ a \in ContractAddrs)
  <2>1. u.unsigned \cup u.authorized = Addrs
    BY <1>1 DEF Fit
  <2>2. ASSUME ~np, a \notin ContractAddrs
        PROVE  u.authorized \cap ContractAddrs \subseteq u.covered \cup u.halfway
    BY <1>1, <2>2 DEF Fit
  <2> QED
    BY <1>1, <2>1, <2>2 DEF Fit
<1> QED
  BY <1>2, <1>3 DEF u

\* Of an authorize() that raised half way the flag knows nothing, halfway does.
LEMMA HalfAuthorizedGood ==
  ASSUME NEW t \in Tx, NEW np \in BOOLEAN, NEW a \in t.unsigned \cup t.authorized,
         ~t.signed, Paid(t), Fit(t, np)
  PROVE  Paid(SignSomeEntries(t, a)) /\ Fit(SignSomeEntries(t, a), np)
<1> DEFINE u == SignSomeEntries(t, a)
<1>1. /\ u.fee = t.fee /\ u.rfee = t.rfee /\ u.excess = t.excess /\ u.signed = t.signed
      /\ u.unsigned = t.unsigned /\ u.authorized = t.authorized
      /\ u.covered = t.covered \ {a}
      /\ u.halfway = t.halfway \cup ({a} \cap t.authorized \cap ContractAddrs)
  BY SignSomeEntriesFields
<1> HIDE DEF u
<1>2. Paid(u) /\ u.unsigned \cup u.authorized = Addrs
  BY <1>1 DEF Paid, Fit
<1>3. ASSUME ~np
      PROVE  u.authorized \cap ContractAddrs \subseteq u.covered \cup u.halfway
  BY <1>1, <1>3 DEF Fit
<1> QED
  BY <1>1, <1>2, <1>3 DEF Fit, u

=============================================================================
