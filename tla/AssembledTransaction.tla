------------------------ MODULE AssembledTransaction ------------------------
(***************************************************************************)
(* stellar_sdk/contract/assembled_transaction.py: the life of a contract   *)
(* invocation, from its simulation to the answer of the network.  Each     *)
(* client owns one AssembledTransaction; every client spends the sequence  *)
(* numbers of the same source account.  A client has at most one call in   *)
(* progress; between two RPC requests of a call the ledger and the other   *)
(* clients move.  A call that is refused before it changes any attribute   *)
(* (NotYetSimulatedError, NeedsPreparationError, ...) is not a step: its   *)
(* refusal is the guard of the action.                                     *)
(***************************************************************************)
EXTENDS StellarNetwork, FiniteSets

CONSTANTS
  Keyed,          \* the objects constructed with a transaction_signer
  MaxLost,        \* bound: the sendTransaction replies that get lost
  NoSim, NoSend   \* Python's None for the respective attributes

ASSUME ClientsAssumption == Keyed \subseteq Clients
ASSUME BoundsAssumption == MaxLost \in Nat
ASSUME NoneAssumption == NoSim \notin Simulation /\ NoSend \notin Send

Calls  == [op : {"none", "simulate", "prepare", "sign_and_submit", "submit", "restore"},
               restore : BOOLEAN, force : BOOLEAN]
NoCall == [op |-> "none", restore |-> FALSE, force |-> FALSE]

VARIABLES
  \* one value per client
  pc,         \* the RPC request the call in progress awaits, or "idle"
  call,       \* the method in progress, with its arguments, or NoCall
  draft,      \* built_tx, simulation_tx or the restore transaction of that call
  outcome,    \* how the last call ended, "none" if nothing is to be told of it
  built,      \* built_transaction
  simulation, \* simulation
  cache,      \* _simulation_result and _simulation_transaction_data
  needsPrep,  \* _needs_preparation
  sent,       \* send_transaction_response
  \* history
  lost,       \* how many sendTransaction replies were lost
  restored    \* sequence number of the restore the last call waited for, or 0

clientVars  == <<pc, call, draft, outcome, built, simulation, cache, needsPrep, sent>>
historyVars == <<accepted, lost, restored>>
vars == <<clientVars, networkVars, historyVars>>

-----------------------------------------------------------------------------
(* The network moves between any two requests. *)

Apply == LedgerApplies /\ UNCHANGED <<clientVars, lost, restored>>

Evict == PoolEvicts /\ UNCHANGED <<clientVars, lost, restored>>

OtherWalletSpends == WalletSpends /\ UNCHANGED <<clientVars, lost, restored>>

Archive == StateArchives /\ UNCHANGED <<clientVars, lost, restored>>

Network == Apply \/ Evict \/ OtherWalletSpends \/ Archive

-----------------------------------------------------------------------------
(* Calls *)

Begin(c, op, restore, force, request, t) ==
  /\ pc[c] = "idle"
  /\ draft' = [draft EXCEPT ![c] = t]
  /\ pc' = [pc EXCEPT ![c] = request]
  /\ call' = [call EXCEPT ![c] = [op |-> op, restore |-> restore, force |-> force]]
  /\ outcome' = [outcome EXCEPT ![c] = "none"]
  /\ restored' = [restored EXCEPT ![c] = 0]

Await(c, request, t) ==
  /\ pc' = [pc EXCEPT ![c] = request]
  /\ draft' = [draft EXCEPT ![c] = t]
  /\ UNCHANGED <<call, outcome>>

Return(c, how) ==
  /\ pc' = [pc EXCEPT ![c] = "idle"]
  /\ call' = [call EXCEPT ![c] = NoCall]
  /\ draft' = [draft EXCEPT ![c] = NoTx]
  /\ outcome' = [outcome EXCEPT ![c] = how]

Simulate(c, restore) ==
  /\ Begin(c, "simulate", restore, FALSE, "load", NoTx)
  /\ cache' = [cache EXCEPT ![c] = NoSim]
  /\ UNCHANGED <<built, simulation, needsPrep, sent, networkVars, accepted, lost>>

\* The answer of load_account; build() follows without another request.
LoadAccount(c) ==
  /\ pc[c] = "load"
  /\ Await(c, "simulate", Build(c, account + 1, 0))
  /\ UNCHANGED <<built, simulation, cache, needsPrep, sent, networkVars, historyVars>>

Prepare(c, restore) ==
  /\ Preparable(built[c])
  /\ Begin(c, "prepare", restore, FALSE, "simulate", ForSimulation(built[c]))
  /\ UNCHANGED <<built, simulation, cache, needsPrep, sent, networkVars, accepted, lost>>

\* sign_and_submit() of a transaction that needs preparation
PrepareSignAndSubmit(c, force) ==
  /\ needsPrep[c] /\ Preparable(built[c])
  /\ Begin(c, "sign_and_submit", TRUE, force, "simulate", ForSimulation(built[c]))
  /\ UNCHANGED <<built, simulation, cache, needsPrep, sent, networkVars, accepted, lost>>

\* Mutant of CacheAtAnswer: prepare() does not empty the cache.
CacheAtAnswerKept(c) == cache[c]

\* simulate() empties the cache before its requests, prepare() after the answer.
CacheAtAnswer(c) == IF call[c].op = "simulate" THEN cache[c] ELSE NoSim

\* _simulation_data(), given the attributes' current values
Cached(sim, ca) == IF ca = NoSim THEN sim ELSE ca

Restores(c, sim) ==
  call[c].restore /\ sim.preamble /\ ~Cached(sim, CacheAtAnswer(c)).read

\* Mutant of Signable: sign() forgets to ask _needs_preparation.
SignableUnprepared(t, sim, ca, np, force) ==
  /\ t # NoTx
  /\ force \/ (~sim.error /\ ~Cached(sim, ca).read)
  /\ ~sim.preamble
  /\ t.unsigned = {}
  /\ ~t.signed

\* May sign() go on, given force and the attributes' current values?  The
\* signer comes from the caller or from the constructor, the same key each time,
\* so that a second signature is a SignatureExistError.
Signable(t, sim, ca, np, force) ==
  /\ t # NoTx
  /\ ~np
  /\ force \/ (~sim.error /\ ~Cached(sim, ca).read)
  /\ ~sim.preamble
  /\ t.unsigned = {}
  /\ ~t.signed

\* Mutant of SubmitRequest: a transaction other than the one sent is sent too.
SubmitRequestAgain(c) ==
  IF sent[c] = NoSend THEN "send"
  ELSE IF sent[c].hash # Hash(built[c]) THEN "send" ELSE "poll"

SubmitRequest(c) == IF sent[c] = NoSend THEN "send" ELSE "poll"

SimulationFails(c, sim) ==
  /\ sim.error
  /\ Return(c, "SimulationFailed")
  /\ cache' = [cache EXCEPT ![c] = CacheAtAnswer(c)]
  /\ UNCHANGED <<built, needsPrep>>

SimulationNeedsRestore(c, sim) ==
  /\ Restores(c, sim)
  /\ IF c \in Keyed THEN Await(c, "restore_load", NoTx) ELSE Return(c, "ValueError")
  /\ cache' = [cache EXCEPT ![c] = Cached(sim, CacheAtAnswer(c))]
  /\ UNCHANGED <<built, needsPrep>>

SimulationSucceeds(c, sim, f) ==
  /\ ~sim.error /\ ~Restores(c, sim)
  /\ LET t == Assemble(draft[c], f)
         signs == call[c].op = "sign_and_submit"
                  /\ Signable(t, sim, NoSim, FALSE, call[c].force)
         reads == \/ call[c].restore /\ sim.preamble
                  \/ call[c].op = "sign_and_submit" /\ ~call[c].force
     IN /\ built' = [built EXCEPT ![c] = [t EXCEPT !.signed = signs]]
        /\ IF signs THEN Await(c, SubmitRequest(c), NoTx)
           ELSE Return(c, CASE call[c].op = "simulate" -> "Simulated"
                            [] call[c].op = "prepare" -> "Prepared"
                            [] OTHER -> "Refused")
        /\ cache' = [cache EXCEPT ![c] = IF reads THEN Cached(sim, CacheAtAnswer(c))
                                         ELSE CacheAtAnswer(c)]
  /\ needsPrep' = [needsPrep EXCEPT ![c] = FALSE]

AnswerSimulate(c) ==
  /\ pc[c] = "simulate"
  /\ \E sim \in SimulationAnswers :
       /\ simulation' = [simulation EXCEPT ![c] = sim]
       /\ \/ SimulationFails(c, sim)
          \/ SimulationNeedsRestore(c, sim)
          \/ \E f \in Asked(draft[c]) : SimulationSucceeds(c, sim, f)
  /\ UNCHANGED <<sent, networkVars, historyVars>>

-----------------------------------------------------------------------------
(* restore_footprint(): a second AssembledTransaction over the same account *)

RestoreFootprint(c) ==
  /\ simulation[c] # NoSim /\ simulation[c].preamble /\ c \in Keyed
  /\ Begin(c, "restore", FALSE, FALSE, "restore_load", NoTx)
  /\ UNCHANGED <<built, simulation, cache, needsPrep, sent, networkVars, accepted, lost>>

\* The restore takes transaction_data from the preamble, not its min_resource_fee.
RestoreLoadAccount(c) ==
  /\ pc[c] = "restore_load"
  /\ \E f \in ResourceFees :
       Await(c, "restore_simulate", Build(RestoreOp, account + 1, f.stored))
  /\ UNCHANGED <<built, simulation, cache, needsPrep, sent, networkVars, historyVars>>

RestoreSimulate(c) ==
  /\ pc[c] = "restore_simulate"
  /\ \/ Return(c, "RestorationFailed")
     \/ \E f \in Asked(draft[c]) :
          Await(c, "restore_send", [Assemble(draft[c], f) EXCEPT !.signed = TRUE])
  /\ UNCHANGED <<built, simulation, cache, needsPrep, sent, networkVars, historyVars>>

RestoreSend(c) ==
  /\ pc[c] = "restore_send"
  /\ \E status \in SendStatuses(draft[c]) :
       IF status = "PENDING"
       THEN Enqueue(draft[c]) /\ Await(c, "restore_poll", draft[c])
       ELSE NotEnqueued /\ Return(c, "RestorationFailed")
  /\ UNCHANGED <<built, simulation, cache, needsPrep, sent,
                 account, archived, succeeded, failed, lost, restored>>

\* Mutant of RestoreDone: simulate() goes on with the sequence it had loaded.
RestoreDoneNoReload(c) ==
  /\ pc[c] = "restore_poll" /\ Hash(draft[c]) \in succeeded
  /\ restored' = [restored EXCEPT ![c] = draft[c].seq]
  /\ CASE call[c].op = "simulate" ->
            Await(c, "simulate", Build(c, draft[c].seq, 0)) /\ UNCHANGED cache
       [] call[c].op \in {"prepare", "sign_and_submit"} ->
            Await(c, "simulate", ForSimulation(built[c])) /\ UNCHANGED cache
       [] OTHER -> Return(c, "Restored") /\ UNCHANGED cache
  /\ UNCHANGED <<built, simulation, needsPrep, sent, networkVars, accepted, lost>>

\* The restore succeeded: simulate() starts over, prepare() simulates
\* built_transaction again, restore_footprint() returns.
RestoreDone(c) ==
  /\ pc[c] = "restore_poll" /\ Hash(draft[c]) \in succeeded
  /\ restored' = [restored EXCEPT ![c] = draft[c].seq]
  /\ CASE call[c].op = "simulate" ->
            /\ Await(c, "load", NoTx)
            /\ cache' = [cache EXCEPT ![c] = NoSim]
       [] call[c].op \in {"prepare", "sign_and_submit"} ->
            /\ Await(c, "simulate", ForSimulation(built[c]))
            /\ UNCHANGED cache
       [] OTHER -> Return(c, "Restored") /\ UNCHANGED cache
  /\ UNCHANGED <<built, simulation, needsPrep, sent, networkVars, accepted, lost>>

\* The restore failed, or the polling timed out.
RestoreGivesUp(c) ==
  /\ pc[c] = "restore_poll"
  /\ Return(c, "RestorationFailed")
  /\ UNCHANGED <<built, simulation, cache, needsPrep, sent, networkVars, historyVars>>

-----------------------------------------------------------------------------
(* Authorization, signature, submission *)

\* Does authorize() find entries of a that it may sign?
Authorizable(t, a) == t # NoTx /\ ~t.signed /\ a \in t.unsigned \cup t.authorized

Authorize(c, a) ==
  /\ pc[c] = "idle" /\ Authorizable(built[c], a)
  /\ built' = [built EXCEPT ![c] = SignEntries(@, a)]
  /\ needsPrep' = [needsPrep EXCEPT ![c] = @ \/ a \in ContractAddrs]
  /\ outcome' = [outcome EXCEPT ![c] = "none"]
  /\ UNCHANGED <<pc, call, draft, simulation, cache, sent, networkVars, historyVars>>

\* authorize() whose signer raises at a later entry of a: what it has signed is in
\* op.auth, and _mark_needs_preparation is not reached.
AuthorizeFails(c, a) ==
  /\ pc[c] = "idle" /\ a \in Several /\ Authorizable(built[c], a)
  /\ built' = [built EXCEPT ![c] = SignSomeEntries(@, a)]
  /\ outcome' = [outcome EXCEPT ![c] = "none"]
  /\ UNCHANGED <<pc, call, draft, simulation, cache, needsPrep, sent, networkVars, historyVars>>

\* Without force, sign() asks is_read_call() and so fills the cache.
CacheAfterSign(c, force) ==
  cache' = IF force THEN cache
           ELSE [cache EXCEPT ![c] = Cached(simulation[c], cache[c])]

Sign(c, force) ==
  /\ pc[c] = "idle"
  /\ Signable(built[c], simulation[c], cache[c], needsPrep[c], force)
  /\ built' = [built EXCEPT ![c].signed = TRUE]
  /\ CacheAfterSign(c, force)
  /\ outcome' = [outcome EXCEPT ![c] = "none"]
  /\ UNCHANGED <<pc, call, draft, simulation, needsPrep, sent, networkVars, historyVars>>

Submit(c) ==
  /\ built[c] # NoTx
  /\ Begin(c, "submit", FALSE, FALSE, SubmitRequest(c), NoTx)
  /\ UNCHANGED <<built, simulation, cache, needsPrep, sent, networkVars, accepted, lost>>

\* sign_and_submit() of a transaction that needs no preparation
SignAndSubmit(c, force) ==
  /\ Signable(built[c], simulation[c], cache[c], needsPrep[c], force)
  /\ Begin(c, "sign_and_submit", TRUE, force, SubmitRequest(c), NoTx)
  /\ built' = [built EXCEPT ![c].signed = TRUE]
  /\ CacheAfterSign(c, force)
  /\ UNCHANGED <<simulation, needsPrep, sent, networkVars, accepted, lost>>

\* send_transaction_response is stored before its status is looked at.
SendTransaction(c) ==
  /\ pc[c] = "send"
  /\ \E status \in SendStatuses(built[c]) :
       /\ sent' = [sent EXCEPT ![c] = [hash |-> Hash(built[c]), status |-> status]]
       /\ IF status = "PENDING"
          THEN Enqueue(built[c]) /\ Await(c, "poll", NoTx)
          ELSE NotEnqueued /\ Return(c, "SendFailed")
  /\ UNCHANGED <<built, simulation, cache, needsPrep,
                 account, archived, succeeded, failed, lost, restored>>

\* Mutant of GetTransaction: the transaction is looked up by its place in the
\* account's sequence instead of by its hash.
GetTransactionBySequence(c) ==
  /\ pc[c] = "poll"
  /\ \/ \E t \in succeeded : t.seq = sent[c].hash.seq /\ Return(c, "Success")
     \/ \E t \in failed : t.seq = sent[c].hash.seq /\ Return(c, "Failed")
  /\ UNCHANGED <<built, simulation, cache, needsPrep, sent, networkVars, historyVars>>

\* Mutant of GetTransaction: being in the ledger is taken for success.
GetTransactionAnyResult(c) ==
  /\ pc[c] = "poll"
  /\ sent[c].hash \in succeeded \cup failed /\ Return(c, "Success")
  /\ UNCHANGED <<built, simulation, cache, needsPrep, sent, networkVars, historyVars>>

\* A getTransaction answer other than NOT_FOUND ends the polling ...
GetTransaction(c) ==
  /\ pc[c] = "poll"
  /\ \/ sent[c].hash \in succeeded /\ Return(c, "Success")
     \/ sent[c].hash \in failed /\ Return(c, "Failed")
  /\ UNCHANGED <<built, simulation, cache, needsPrep, sent, networkVars, historyVars>>

\* ... and so does submit_timeout, after NOT_FOUND answers.
StillPending(c) ==
  /\ pc[c] = "poll"
  /\ Return(c, "StillPending")
  /\ UNCHANGED <<built, simulation, cache, needsPrep, sent, networkVars, historyVars>>

-----------------------------------------------------------------------------
(* result() and is_read_call() *)

Query(c) ==
  /\ pc[c] = "idle"
  /\ simulation[c] # NoSim /\ ~simulation[c].error /\ ~needsPrep[c]
  /\ cache' = [cache EXCEPT ![c] = Cached(simulation[c], @)]
  /\ UNCHANGED <<pc, call, outcome, draft, built, simulation, needsPrep, sent,
                 networkVars, historyVars>>

(* Transport errors *)

\* A request fails before it reaches the server, or its answer is an error.
RequestFails(c) ==
  /\ pc[c] # "idle"
  /\ Return(c, "RequestError")
  /\ UNCHANGED <<built, simulation, cache, needsPrep, sent, networkVars, historyVars>>

\* The server accepted a sendTransaction but its reply is lost: the HTTP
\* client repeats the request, or the call raises a connection error.
SendReplyLost(c) ==
  /\ pc[c] \in {"send", "restore_send"} /\ lost < MaxLost
  /\ LET t == IF pc[c] = "send" THEN built[c] ELSE draft[c]
     IN "PENDING" \in SendStatuses(t) /\ Enqueue(t)
  /\ lost' = lost + 1
  /\ UNCHANGED <<pc, call, draft, outcome>> \/ Return(c, "RequestError")
  /\ UNCHANGED <<built, simulation, cache, needsPrep, sent,
                 account, archived, succeeded, failed, restored>>

-----------------------------------------------------------------------------
Init ==
  /\ pc = [c \in Clients |-> "idle"]
  /\ call = [c \in Clients |-> NoCall]
  /\ outcome = [c \in Clients |-> "none"]
  /\ draft = [c \in Clients |-> NoTx]
  /\ built = [c \in Clients |-> NoTx]
  /\ simulation = [c \in Clients |-> NoSim]
  /\ cache = [c \in Clients |-> NoSim]
  /\ needsPrep = [c \in Clients |-> FALSE]
  /\ sent = [c \in Clients |-> NoSend]
  /\ NetworkInit
  /\ lost = 0
  /\ restored = [c \in Clients |-> 0]

Requests(c) ==
  \/ LoadAccount(c) \/ AnswerSimulate(c)
  \/ RestoreLoadAccount(c) \/ RestoreSimulate(c) \/ RestoreSend(c)
  \/ RestoreDone(c) \/ RestoreGivesUp(c)
  \/ SendTransaction(c) \/ GetTransaction(c) \/ StillPending(c)
  \/ RequestFails(c) \/ SendReplyLost(c)

UserCalls(c) ==
  \/ \E restore \in BOOLEAN : Simulate(c, restore) \/ Prepare(c, restore)
  \/ \E force \in BOOLEAN :
       PrepareSignAndSubmit(c, force) \/ Sign(c, force) \/ SignAndSubmit(c, force)
  \/ \E a \in Addrs : Authorize(c, a) \/ AuthorizeFails(c, a)
  \/ RestoreFootprint(c) \/ Submit(c) \/ Query(c)

Next == Network \/ \E c \in Clients : Requests(c) \/ UserCalls(c)

Spec == Init /\ [][Next]_vars

-----------------------------------------------------------------------------
(* Properties *)

Invocations(c) == {t \in accepted : t.owner = c}

Requested == {"idle", "load", "simulate", "send", "poll", "restore_load",
              "restore_simulate", "restore_send", "restore_poll"}
Outcomes == {"none", "Simulated", "Prepared", "Restored", "Refused", "SimulationFailed", "RestorationFailed",
             "ValueError", "RequestError", "SendFailed", "StillPending",
             "Success", "Failed"}

\* The attributes of every object and the network stay well formed.
TypeOK ==
  /\ pc \in [Clients -> Requested]
  /\ call \in [Clients -> Calls]
  /\ outcome \in [Clients -> Outcomes]
  /\ draft \in [Clients -> Tx \cup {NoTx}]
  /\ built \in [Clients -> Tx \cup {NoTx}]
  /\ simulation \in [Clients -> Simulation \cup {NoSim}]
  /\ cache \in [Clients -> Simulation \cup {NoSim}]
  /\ needsPrep \in [Clients -> BOOLEAN]
  /\ sent \in [Clients -> Send \cup {NoSend}]
  /\ account \in Nat
  /\ pool \in Tx \cup {NoTx}
  /\ archived \in BOOLEAN
  /\ succeeded \subseteq Tx /\ failed \subseteq Tx /\ accepted \subseteq Tx
  /\ lost \in Nat
  /\ restored \in [Clients -> Nat]

\* However often a transaction is simulated, prepared and restored, its fee is
\* the base fee, the resource fee of its current soroban_data, and what the
\* simulations since simulate() asked for beyond the resource fee they stored:
\* the preparations that follow take off the stored fee, once, and no more
\* (_assemble_transaction, _transaction_for_simulation).
FeeExact ==
  \A t \in (accepted \cup {built[c] : c \in Clients}) \ {NoTx} :
    t.fee = BaseFee + t.rfee + t.excess

\* sign() and authorize() exclude each other so that no invocation reaches the
\* network with an unsigned authorization entry, or with resources computed
\* before a contract account's entries got the signatures they carry.  The code
\* allows one exception: an authorize() that raised half way through entries
\* that were signed before has marked nothing (_authorize_entries).
AcceptedIsReady ==
  \A t \in accepted : t.owner # RestoreOp =>
    t.unsigned = {} /\ ContractAddrs \subseteq t.covered \cup t.halfway

\* An object puts at most one invocation into the network, whatever is
\* re-simulated, re-signed and re-submitted after a timeout; and if replies of
\* sendTransaction are lost, at most one more for each of them.
AtMostOneInvocation ==
  \A c \in Clients : Cardinality(Invocations(c)) <= 1 + lost

\* What submit() reports is what happened to the invocation: Success if it was
\* applied; TransactionFailedError only if it never will be; as long as no
\* reply is lost, SendTransactionFailedError only if the network never got it;
\* and TransactionStillPendingError of one the network got, or of one it refused
\* at an earlier submit().
OutcomeIsTrue ==
  \A c \in Clients :
    /\ outcome[c] = "Success" => Invocations(c) \cap succeeded # {}
    /\ outcome[c] = "Failed" /\ lost = 0 => Invocations(c) \cap succeeded = {}
    /\ outcome[c] = "SendFailed" /\ lost = 0 => Invocations(c) = {}
    /\ outcome[c] = "StillPending" => Invocations(c) # {} \/ sent[c].status # "PENDING"

\* result(), is_read_call() and sign() decide from the latest simulation: the
\* cached _simulation_result is never that of an earlier one.
CacheMatchesSimulation ==
  \A c \in Clients : cache[c] = NoSim \/ cache[c] = simulation[c]

\* A call that restored archived state and then returned left a transaction
\* that comes after the restore in the account's sequence.
OutlivesRestore(how) ==
  \A c \in Clients : outcome[c] = how => built[c].seq > restored[c]

\* simulate() rebuilds the transaction after the restore it waited for.
SimulateOutlivesRestore == OutlivesRestore("Simulated")

\* prepare() is documented to leave a transaction ready "for signing and
\* submission", so it should hold of prepare() too.
PrepareOutlivesRestore == OutlivesRestore("Prepared")

\* submit() is documented to raise TransactionStillPendingError "if the
\* transaction is still pending after the timeout": the network has it.
StillPendingWasAccepted ==
  \A c \in Clients : outcome[c] = "StillPending" => Invocations(c) # {}

-----------------------------------------------------------------------------
(* The promise to the caller *)

StageOf(c) ==
  CASE Invocations(c) = {} -> "unsent"
    [] Invocations(c) # {} /\ Invocations(c) \cap (succeeded \cup failed) = {} -> "accepted"
    [] Invocations(c) \cap succeeded # {} -> "succeeded"
    [] Invocations(c) \cap (failed \ succeeded) # {} -> "failed"

ReportOf(c) ==
  IF outcome[c] \in {"SendFailed", "Success", "Failed"} THEN outcome[c] ELSE "none"

\* The caller of an object has it to itself.
Promise == INSTANCE Invocation WITH
  Objects <- Clients, Callers <- Clients, Of <- [c \in Clients |-> c],
  stage <- [c \in Clients |-> StageOf(c)],
  report <- [c \in Clients |-> ReportOf(c)]

\* Without lost replies, every object keeps the promise of Invocation, step by
\* step and with the other objects' transactions in between.
KeepsPromise == Promise!Spec

=============================================================================
