---------------------------- MODULE StellarNetwork ----------------------------
(***************************************************************************)
(* Transaction envelopes, as far as they matter to their acceptance, and   *)
(* the network behind the RPC server: the account that all envelopes spend *)
(* the sequence numbers of, the mempool and the ledger.  The synchronous   *)
(* and the asynchronous contract invocation both extend this module.       *)
(***************************************************************************)
EXTENDS Integers

CONSTANTS
  Clients,        \* the AssembledTransaction objects
  Addrs,          \* addresses whose authorization the invocation requires
  ContractAddrs,  \* those among them that are contracts (C...)
  Several,        \* the addresses that have more than one entry in op.auth
  BaseFee,        \* TransactionBuilder.base_fee
  ResourceFees,   \* what simulations ask for: pairs of a fee and a resource fee
  MaxExcess,      \* bound: by how much these may have differed for an envelope
  MaxSeq,         \* bound: the last sequence number the account consumes
  OtherWallets,   \* do other programs spend the account's sequence numbers?
  RestoreOp,      \* the owner of a restore transaction: no object in particular
  NoTx            \* Python's None where a transaction may be

ASSUME OwnersAssumption == RestoreOp \notin Clients
ASSUME AddrsAssumption == ContractAddrs \subseteq Addrs /\ Several \subseteq Addrs

\* min is the response's min_resource_fee, stored the resource_fee in its
\* transaction_data: two fields, which nothing in the SDK compares.
ASSUME FeesAssumption ==
  ResourceFees \subseteq [min : Nat, stored : Nat] /\ MaxExcess \in Nat
ASSUME NetworkAssumption ==
  /\ BaseFee \in Nat
  /\ MaxSeq \in Nat
  /\ OtherWallets \in BOOLEAN

(* A transaction envelope.  rfee is soroban_data.resource_fee, 0 when there *)
(* is no soroban_data; unsigned are the addresses that have an op.auth entry*)
(* without a signature, authorized those all of whose entries are signed;   *)
(* covered are the contract accounts whose current signatures the resources *)
(* in soroban_data were computed with; signed tells whether the envelope    *)
(* carries the source's signature.  Two fields are history: excess is what  *)
(* the simulations asked for beyond the resource fees they stored, halfway  *)
(* are the contract accounts whose signed entries an authorize() that       *)
(* raised has signed again in part, since the resources were computed.      *)
Tx == [owner : Clients \cup {RestoreOp}, seq : Nat, fee : Int, rfee : Nat,
       unsigned : SUBSET Addrs, authorized : SUBSET Addrs,
       covered : SUBSET ContractAddrs, signed : BOOLEAN,
       excess : Int, halfway : SUBSET ContractAddrs]

ASSUME NoTxAssumption == NoTx \notin Tx

Simulation == [error : BOOLEAN, preamble : BOOLEAN, read : BOOLEAN]
Statuses   == {"PENDING", "DUPLICATE", "TRY_AGAIN_LATER", "ERROR"}
Send       == [hash : Tx, status : Statuses]

VARIABLES
  account,    \* the source account's sequence number
  pool,       \* the account's transaction in the mempool, or NoTx
  archived,   \* is contract state the invocations read archived?
  succeeded,  \* hashes of the transactions applied with success
  failed,     \* hashes of the transactions applied with a failure
  accepted    \* history: hashes of all transactions that ever entered the mempool

networkVars == <<account, pool, archived, succeeded, failed>>

-----------------------------------------------------------------------------
(* Envelopes *)

Hash(t) == [t EXCEPT !.signed = FALSE]

\* TransactionBuilder.build() for a builder of one operation
Build(owner, seq, rfee) ==
  [owner |-> owner, seq |-> seq, fee |-> BaseFee + rfee, rfee |-> rfee,
   unsigned |-> {}, authorized |-> {}, covered |-> {}, signed |-> FALSE,
   excess |-> 0, halfway |-> {}]

\* What a simulation of t may ask for.
Asked(t) ==
  {f \in ResourceFees : t.excess + f.min - f.stored \in -MaxExcess..MaxExcess}

\* Mutant of Assemble: every authorized address counts as a contract account.
AssembleCoversAll(t, f) ==
  [t EXCEPT !.fee = (@ - t.rfee) + f.min,
            !.rfee = f.stored,
            !.unsigned = IF t.owner # RestoreOp /\ t.unsigned \cup t.authorized = {}
                         THEN Addrs ELSE @,
            !.covered = t.authorized,
            !.signed = FALSE,
            !.excess = @ + f.min - f.stored,
            !.halfway = {}]

\* _assemble_transaction with a simulation that asks for f: what it adds to the
\* fee is f.min, what the next preparation takes off again is f.stored.
Assemble(t, f) ==
  [t EXCEPT !.fee = (@ - t.rfee) + f.min,
            !.rfee = f.stored,
            !.unsigned = IF t.owner # RestoreOp /\ t.unsigned \cup t.authorized = {}
                         THEN Addrs ELSE @,
            !.covered = t.authorized \cap ContractAddrs,
            !.signed = FALSE,
            !.excess = @ + f.min - f.stored,
            !.halfway = {}]

\* Mutant of ForSimulation: the resource fee stays in the fee.
ForSimulationKeepsFee(t) ==
  [t EXCEPT !.rfee = 0, !.covered = {}, !.signed = FALSE, !.halfway = {}]

\* _transaction_for_simulation
ForSimulation(t) ==
  [t EXCEPT !.fee = @ - t.rfee, !.rfee = 0, !.covered = {}, !.signed = FALSE,
            !.halfway = {}]

\* The loop of _authorize_entries over all the entries of the address a.
SignEntries(t, a) ==
  [t EXCEPT !.unsigned = @ \ {a}, !.authorized = @ \cup {a},
            !.covered = @ \ {a}, !.halfway = @ \ {a}]

\* That loop if the signer raises at a later entry of a: one that had no
\* signature has none yet, and of those that had some are replaced.
SignSomeEntries(t, a) ==
  [t EXCEPT !.covered = @ \ {a},
            !.halfway = @ \cup ({a} \cap t.authorized \cap ContractAddrs)]

\* May prepare() simulate t again?
Preparable(t) == t # NoTx /\ ~t.signed /\ t.unsigned = {}

-----------------------------------------------------------------------------
(* The network.  A mempool holds one transaction per source account. *)

Live(t) == t.seq = account + 1

SendStatuses(t) ==
  IF Hash(t) = pool THEN {"DUPLICATE"}
  ELSE IF pool # NoTx THEN {"TRY_AGAIN_LATER"}
  ELSE IF t.signed /\ Live(t) THEN {"PENDING", "TRY_AGAIN_LATER", "ERROR"}
  ELSE {"ERROR", "TRY_AGAIN_LATER"}

Enqueue(t) == /\ pool' = Hash(t)
              /\ accepted' = accepted \cup {Hash(t)}

NotEnqueued == UNCHANGED <<pool, accepted>>

\* What simulateTransaction may answer.  A call that needs authorization writes
\* the nonces of its entries, so only one without entries can be a read call.
SimulationAnswers ==
  [error : {TRUE}, preamble : {FALSE}, read : {FALSE}] \cup
  [error : {FALSE}, preamble : {archived},
   read : IF Addrs = {} THEN BOOLEAN ELSE {FALSE}]

\* May the ledger execute t without error?  Resources that were computed before
\* a signature was replaced may still do.
Executable(t) == t.owner # RestoreOp => t.unsigned = {} /\ ~archived

LedgerApplies ==
  /\ pool # NoTx /\ Live(pool) /\ account < MaxSeq
  /\ account' = account + 1
  /\ pool' = NoTx
  /\ \/ /\ Executable(pool)
        /\ succeeded' = succeeded \cup {pool}
        /\ archived' = (archived /\ pool.owner # RestoreOp)
        /\ UNCHANGED failed
     \/ /\ failed' = failed \cup {pool}
        /\ UNCHANGED <<succeeded, archived>>
  /\ UNCHANGED accepted

PoolEvicts ==
  /\ pool # NoTx
  /\ pool' = NoTx
  /\ UNCHANGED <<account, archived, succeeded, failed, accepted>>

WalletSpends ==
  /\ OtherWallets /\ account < MaxSeq
  /\ account' = account + 1
  /\ pool' = NoTx
  /\ UNCHANGED <<archived, succeeded, failed, accepted>>

StateArchives ==
  /\ ~archived
  /\ archived' = TRUE
  /\ UNCHANGED <<account, pool, succeeded, failed, accepted>>

NetworkInit ==
  /\ account = 0 /\ pool = NoTx /\ archived \in BOOLEAN
  /\ succeeded = {} /\ failed = {} /\ accepted = {}

=============================================================================
