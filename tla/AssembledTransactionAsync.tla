---------------------- MODULE AssembledTransactionAsync ----------------------
(***************************************************************************)
(* stellar_sdk/contract/assembled_transaction_async.py: one                *)
(* AssembledTransactionAsync object used by several asyncio tasks.  A task *)
(* runs without interruption from one awaited request to the next; the     *)
(* other tasks, the network and a cancellation come in between.  What a    *)
(* coroutine keeps in local variables (draft) stays with its task; the     *)
(* attributes are shared, and written when the answer arrives.             *)
(***************************************************************************)
EXTENDS StellarNetwork

CONSTANTS
  Tasks,          \* the asyncio tasks that use the object
  Self,           \* the object, as the owner of its invocations
  HasSigner,      \* was it constructed with a transaction_signer?
  MaxCalls,       \* bound: the calls that await something, or authorize() and raise,
                  \* and the requests that fail or are cancelled, together
  NoSim, NoSend   \* Python's None for the respective attributes

ASSUME SelfAssumption == Self \in Clients /\ HasSigner \in BOOLEAN
ASSUME BoundAssumption == MaxCalls \in Nat
ASSUME NoneAssumption == NoSim \notin Simulation /\ NoSend \notin Send

Calls  == [op : {"none", "simulate", "prepare", "sign_and_submit", "submit"},
           restore : BOOLEAN, force : BOOLEAN]
NoCall == [op |-> "none", restore |-> FALSE, force |-> FALSE]

VARIABLES
  \* one value per task
  pc,         \* the request its coroutine awaits, or "idle"; a status when the
              \* server's answer to sendTransaction is under way to it
  call,       \* the method in progress, with its arguments
  draft,      \* its local variable: built_tx, simulation_tx, tx_hash, or the
              \* envelope in the awaited request
  outcome,    \* what its last submit() told: a result, TransactionFailedError or
              \* SendTransactionFailedError; "none" for every other end of a call
  \* the object
  built,      \* built_transaction
  simulation, \* simulation
  cache,      \* _simulation_result and _simulation_transaction_data
  needsPrep,  \* _needs_preparation
  sent,       \* send_transaction_response
  \* history
  overlap,    \* did two sendTransaction requests of the object overlap?
  peeked,     \* was the cache filled while a simulate() awaited its answer?
  unheard,    \* did the object not hear that the network took its invocation?
  calls       \* how many calls were begun that await something or raise, and
              \* how many requests failed

taskVars    == <<pc, call, draft, outcome>>
objectVars  == <<built, simulation, cache, needsPrep, sent>>
historyVars == <<overlap, unheard, calls>>
vars == <<taskVars, objectVars, historyVars, peeked, networkVars, accepted>>

-----------------------------------------------------------------------------
(* The network moves between any two requests; the account's other wallets are *)
(* left to AssembledTransaction, here a restore makes transactions stale.      *)

Network ==
  /\ LedgerApplies \/ PoolEvicts \/ StateArchives
  /\ UNCHANGED <<taskVars, objectVars, historyVars>>

(* Control of a task *)

Begin(t, op, restore, force, request, tx) ==
  /\ pc[t] = "idle" /\ calls < MaxCalls
  /\ calls' = calls + 1
  /\ pc' = [pc EXCEPT ![t] = request]
  /\ call' = [call EXCEPT ![t] = [op |-> op, restore |-> restore, force |-> force]]
  /\ draft' = [draft EXCEPT ![t] = tx]
  /\ outcome' = [outcome EXCEPT ![t] = "none"]

Await(t, request, tx) ==
  /\ pc' = [pc EXCEPT ![t] = request]
  /\ draft' = [draft EXCEPT ![t] = tx]
  /\ UNCHANGED <<call, outcome>>

Return(t, how) ==
  /\ pc' = [pc EXCEPT ![t] = "idle"]
  /\ call' = [call EXCEPT ![t] = NoCall]
  /\ draft' = [draft EXCEPT ![t] = NoTx]
  /\ outcome' = [outcome EXCEPT ![t] = how]

\* Is a sendTransaction request of the object under way?
Sending == \E t \in Tasks : pc[t] \in {"send"} \cup Statuses

\* Mutant of SubmitStep: a transaction other than the one sent is sent too.
SubmitStepAgain(tx) ==
  IF sent = NoSend THEN <<"send", tx>>
  ELSE IF sent.hash # Hash(tx) THEN <<"send", tx>> ELSE <<"poll", sent.hash>>

\* _submit() sends tx, or polls for the transaction that was sent before.
SubmitStep(tx) == IF sent = NoSend THEN <<"send", tx>> ELSE <<"poll", sent.hash>>

SendsNext(tx) == overlap' = (overlap \/ (SubmitStep(tx)[1] = "send" /\ Sending))

-----------------------------------------------------------------------------
(* simulate() and prepare() *)

Simulate(t, restore) ==
  /\ Begin(t, "simulate", restore, FALSE, "load", NoTx)
  /\ cache' = NoSim
  /\ UNCHANGED <<built, simulation, needsPrep, sent, overlap, unheard,
                 networkVars, accepted>>

LoadAccount(t) ==
  /\ pc[t] = "load"
  /\ Await(t, "simulate", Build(Self, account + 1, 0))
  /\ UNCHANGED <<objectVars, historyVars, networkVars, accepted>>

Prepare(t, restore) ==
  /\ Preparable(built)
  /\ Begin(t, "prepare", restore, FALSE, "simulate", ForSimulation(built))
  /\ UNCHANGED <<objectVars, overlap, unheard, networkVars, accepted>>

\* sign_and_submit() of a transaction that needs preparation
PrepareSignAndSubmit(t, force) ==
  /\ needsPrep /\ Preparable(built)
  /\ Begin(t, "sign_and_submit", TRUE, force, "simulate", ForSimulation(built))
  /\ UNCHANGED <<objectVars, overlap, unheard, networkVars, accepted>>

\* Mutant of CacheAtAnswer: prepare() leaves the cache as it is.
CacheAtAnswerKept(t) == cache

\* simulate() empties the cache before its requests, prepare() after the answer.
CacheAtAnswer(t) == IF call[t].op = "simulate" THEN cache ELSE NoSim

\* _simulation_data(), given the attributes' current values
Cached(sim, ca) == IF ca = NoSim THEN sim ELSE ca

Restores(t, sim) ==
  call[t].restore /\ sim.preamble /\ ~Cached(sim, CacheAtAnswer(t)).read

\* Mutant of Signable: sign() forgets to ask _needs_preparation.
SignableUnprepared(tx, sim, ca, np, force) ==
  /\ tx # NoTx
  /\ force \/ (~sim.error /\ ~Cached(sim, ca).read)
  /\ ~sim.preamble /\ tx.unsigned = {} /\ ~tx.signed

\* May sign() go on, given force and the attributes' current values?
Signable(tx, sim, ca, np, force) ==
  /\ tx # NoTx
  /\ ~np
  /\ force \/ (~sim.error /\ ~Cached(sim, ca).read)
  /\ ~sim.preamble /\ tx.unsigned = {} /\ ~tx.signed

SimulationFails(t, sim) ==
  /\ sim.error
  /\ Return(t, "none")
  /\ cache' = CacheAtAnswer(t)
  /\ UNCHANGED <<built, needsPrep, overlap>>

SimulationNeedsRestore(t, sim) ==
  /\ Restores(t, sim)
  /\ IF HasSigner THEN Await(t, "restore_load", NoTx) ELSE Return(t, "none")
  /\ cache' = Cached(sim, CacheAtAnswer(t))
  /\ UNCHANGED <<built, needsPrep, overlap>>

\* built_transaction is replaced by the envelope this coroutine has simulated,
\* whatever the other tasks did to it since.
SimulationSucceeds(t, sim, f) ==
  /\ ~sim.error /\ ~Restores(t, sim)
  /\ LET tx == Assemble(draft[t], f)
         signs == call[t].op = "sign_and_submit"
                  /\ Signable(tx, sim, NoSim, FALSE, call[t].force)
         reads == \/ call[t].restore /\ sim.preamble
                  \/ call[t].op = "sign_and_submit" /\ ~call[t].force
     IN /\ built' = [tx EXCEPT !.signed = signs]
        /\ IF signs
           THEN /\ Await(t, SubmitStep(built')[1], SubmitStep(built')[2])
                /\ SendsNext(built')
           ELSE Return(t, "none") /\ UNCHANGED overlap
        /\ cache' = IF reads THEN Cached(sim, CacheAtAnswer(t)) ELSE CacheAtAnswer(t)
  /\ needsPrep' = FALSE

AnswerSimulate(t) ==
  /\ pc[t] = "simulate"
  /\ \E sim \in SimulationAnswers :
       /\ simulation' = sim
       /\ \/ SimulationFails(t, sim)
          \/ SimulationNeedsRestore(t, sim)
          \/ \E f \in Asked(draft[t]) : SimulationSucceeds(t, sim, f)
  /\ UNCHANGED <<sent, unheard, calls, networkVars, accepted>>

-----------------------------------------------------------------------------
(* restore_footprint(), in a second object that only this coroutine knows *)

RestoreLoadAccount(t) ==
  /\ pc[t] = "restore_load"
  /\ \E f \in ResourceFees :
       Await(t, "restore_simulate", Build(RestoreOp, account + 1, f.stored))
  /\ UNCHANGED <<objectVars, historyVars, networkVars, accepted>>

RestoreSimulate(t) ==
  /\ pc[t] = "restore_simulate"
  /\ \/ Return(t, "none")
     \/ \E f \in Asked(draft[t]) :
          Await(t, "restore_send", [Assemble(draft[t], f) EXCEPT !.signed = TRUE])
  /\ UNCHANGED <<objectVars, historyVars, networkVars, accepted>>

RestoreSend(t) ==
  /\ pc[t] = "restore_send"
  /\ \E status \in SendStatuses(draft[t]) :
       IF status = "PENDING"
       THEN Enqueue(draft[t]) /\ Await(t, "restore_poll", draft[t])
       ELSE NotEnqueued /\ Return(t, "none")
  /\ UNCHANGED <<objectVars, historyVars,
                 account, archived, succeeded, failed>>

\* simulate() starts over; prepare() too, and looks at built_transaction again.
RestoreDone(t) ==
  /\ pc[t] = "restore_poll" /\ Hash(draft[t]) \in succeeded
  /\ IF call[t].op = "simulate" THEN Await(t, "load", NoTx) /\ cache' = NoSim
     ELSE /\ IF Preparable(built) THEN Await(t, "simulate", ForSimulation(built))
             ELSE Return(t, "none")
          /\ UNCHANGED cache
  /\ UNCHANGED <<built, simulation, needsPrep, sent, historyVars,
                 networkVars, accepted>>

RestoreGivesUp(t) ==
  /\ pc[t] = "restore_poll"
  /\ Return(t, "none")
  /\ UNCHANGED <<objectVars, historyVars, networkVars, accepted>>

-----------------------------------------------------------------------------
(* Authorization, signature and queries do not await anything once they look *)
(* at an attribute.                                                          *)

\* Does authorize() find entries of a that it may sign?
Authorizable(tx, a) == tx # NoTx /\ ~tx.signed /\ a \in tx.unsigned \cup tx.authorized

\* Mutant of Authorize: a contract's new signature asks for no preparation.
AuthorizeUnmarked(a) ==
  /\ Authorizable(built, a)
  /\ built' = SignEntries(built, a)
  /\ UNCHANGED <<taskVars, simulation, cache, needsPrep, sent, historyVars,
                 networkVars, accepted>>

Authorize(a) ==
  /\ Authorizable(built, a)
  /\ built' = SignEntries(built, a)
  /\ needsPrep' = (needsPrep \/ a \in ContractAddrs)
  /\ UNCHANGED <<taskVars, simulation, cache, sent, historyVars, networkVars, accepted>>

\* authorize() whose signer raises at a later entry of a: what it has signed is in
\* op.auth, and _mark_needs_preparation is not reached.
AuthorizeFails(a) ==
  /\ a \in Several /\ Authorizable(built, a) /\ calls < MaxCalls
  /\ built' = SignSomeEntries(built, a)
  /\ calls' = calls + 1
  /\ UNCHANGED <<taskVars, simulation, cache, needsPrep, sent, overlap, unheard,
                 networkVars, accepted>>

\* Without force, sign() asks is_read_call() and so fills the cache.
CacheAfterSign(force) == IF force THEN cache ELSE Cached(simulation, cache)

Sign(force) ==
  /\ Signable(built, simulation, cache, needsPrep, force)
  /\ built' = [built EXCEPT !.signed = TRUE]
  /\ cache' = CacheAfterSign(force)
  /\ UNCHANGED <<taskVars, simulation, needsPrep, sent, historyVars, networkVars, accepted>>

\* result() and is_read_call()
Query ==
  /\ simulation # NoSim /\ ~simulation.error /\ ~needsPrep
  /\ cache' = Cached(simulation, cache)
  /\ UNCHANGED <<taskVars, built, simulation, needsPrep, sent, historyVars,
                 networkVars, accepted>>

-----------------------------------------------------------------------------
(* submit() *)

Submit(t) ==
  /\ built # NoTx
  /\ Begin(t, "submit", FALSE, FALSE, SubmitStep(built)[1], SubmitStep(built)[2])
  /\ SendsNext(built)
  /\ UNCHANGED <<objectVars, unheard, networkVars, accepted>>

\* sign_and_submit() of a transaction that needs no preparation
SignAndSubmit(t, force) ==
  /\ Signable(built, simulation, cache, needsPrep, force)
  /\ built' = [built EXCEPT !.signed = TRUE]
  /\ Begin(t, "sign_and_submit", TRUE, force, SubmitStep(built')[1], SubmitStep(built')[2])
  /\ cache' = CacheAfterSign(force)
  /\ SendsNext(built')
  /\ UNCHANGED <<simulation, needsPrep, sent, unheard,
                 networkVars, accepted>>

\* The server takes the request; its answer is under way.
ServerTakes(t) ==
  /\ pc[t] = "send"
  /\ \E status \in SendStatuses(draft[t]) :
       /\ IF status = "PENDING" THEN Enqueue(draft[t]) ELSE NotEnqueued
       /\ Await(t, status, draft[t])
  /\ UNCHANGED <<objectVars, historyVars, account, archived, succeeded, failed>>

\* Mutant of SendAnswered: the answer to an envelope is taken for the answer to
\* built_transaction.
SendAnsweredForBuilt(t) ==
  /\ pc[t] \in Statuses
  /\ sent' = [hash |-> Hash(built), status |-> pc[t]]
  /\ IF pc[t] = "PENDING" THEN Await(t, "poll", Hash(built)) ELSE Return(t, "SendFailed")
  /\ UNCHANGED <<built, simulation, cache, needsPrep, historyVars, networkVars, accepted>>

\* send_transaction_response is overwritten, then its status is looked at.
SendAnswered(t) ==
  /\ pc[t] \in Statuses
  /\ sent' = [hash |-> Hash(draft[t]), status |-> pc[t]]
  /\ IF pc[t] = "PENDING" THEN Await(t, "poll", Hash(draft[t])) ELSE Return(t, "SendFailed")
  /\ UNCHANGED <<built, simulation, cache, needsPrep, historyVars, networkVars, accepted>>

\* Mutant of GetTransaction: being in the ledger is taken for success.
GetTransactionAnyResult(t) ==
  /\ pc[t] = "poll"
  /\ draft[t] \in succeeded \cup failed /\ Return(t, "Success")
  /\ UNCHANGED <<objectVars, historyVars, networkVars, accepted>>

GetTransaction(t) ==
  /\ pc[t] = "poll"
  /\ \/ draft[t] \in succeeded /\ Return(t, "Success")
     \/ draft[t] \in failed /\ Return(t, "Failed")
  /\ UNCHANGED <<objectVars, historyVars, networkVars, accepted>>

\* Mutant of StillPending: the last answer is taken for the result.
StillPendingAsResult(t) ==
  /\ pc[t] = "poll"
  /\ Return(t, "NotFound")
  /\ UNCHANGED <<objectVars, historyVars, networkVars, accepted>>

StillPending(t) ==
  /\ pc[t] = "poll"
  /\ Return(t, "none")
  /\ UNCHANGED <<objectVars, historyVars, networkVars, accepted>>

\* A connection error, an error response, or the cancellation of the task.
RequestFails(t) ==
  /\ pc[t] # "idle" /\ calls < MaxCalls
  /\ Return(t, "none")
  /\ calls' = calls + 1
  /\ unheard' = (unheard \/ pc[t] \in {"PENDING", "DUPLICATE"})
  /\ UNCHANGED <<objectVars, overlap, networkVars, accepted>>

-----------------------------------------------------------------------------
Init ==
  /\ pc = [t \in Tasks |-> "idle"]
  /\ call = [t \in Tasks |-> NoCall]
  /\ draft = [t \in Tasks |-> NoTx]
  /\ outcome = [t \in Tasks |-> "none"]
  /\ built = NoTx /\ simulation = NoSim /\ cache = NoSim /\ needsPrep = FALSE
  /\ sent = NoSend
  /\ overlap = FALSE /\ peeked = FALSE /\ unheard = FALSE /\ calls = 0
  /\ NetworkInit

Requests(t) ==
  \/ LoadAccount(t) \/ AnswerSimulate(t)
  \/ RestoreLoadAccount(t) \/ RestoreSimulate(t) \/ RestoreSend(t)
  \/ RestoreDone(t) \/ RestoreGivesUp(t)
  \/ ServerTakes(t) \/ SendAnswered(t) \/ GetTransaction(t) \/ StillPending(t)
  \/ RequestFails(t)

UserCalls(t) ==
  \/ \E restore \in BOOLEAN : Simulate(t, restore) \/ Prepare(t, restore)
  \/ \E force \in BOOLEAN : PrepareSignAndSubmit(t, force) \/ SignAndSubmit(t, force)
  \/ Submit(t)

Immediate ==
  \/ \E a \in Addrs : Authorize(a) \/ AuthorizeFails(a)
  \/ \E force \in BOOLEAN : Sign(force)
  \/ Query

\* Is a simulate() between the emptying of the cache and its answer?
Simulating == \E t \in Tasks : call[t].op = "simulate" /\ pc[t] \in {"load", "simulate"}

Peek == peeked' = (peeked \/ (cache' \notin {NoSim, cache} /\ Simulating'))

Next ==
  /\ Network \/ Immediate \/ \E t \in Tasks : Requests(t) \/ UserCalls(t)
  /\ Peek

Spec == Init /\ [][Next]_vars

-----------------------------------------------------------------------------
(* Properties *)

Invocations == {t \in accepted : t.owner = Self}

\* Nothing was sent behind the object's back: no two of its sendTransaction
\* requests overlapped, and it heard of every acceptance.
Orderly == ~overlap /\ ~unheard

Requested == {"idle", "load", "simulate", "send", "poll", "restore_load",
              "restore_simulate", "restore_send", "restore_poll"} \cup Statuses
Outcomes == {"none", "SendFailed", "Success", "Failed"}

\* The locals of every task, the attributes and the network stay well formed.
TypeOK ==
  /\ pc \in [Tasks -> Requested]
  /\ call \in [Tasks -> Calls]
  /\ draft \in [Tasks -> Tx \cup {NoTx}]
  /\ outcome \in [Tasks -> Outcomes]
  /\ built \in Tx \cup {NoTx}
  /\ simulation \in Simulation \cup {NoSim}
  /\ cache \in Simulation \cup {NoSim}
  /\ needsPrep \in BOOLEAN
  /\ sent \in Send \cup {NoSend}
  /\ overlap \in BOOLEAN /\ peeked \in BOOLEAN /\ unheard \in BOOLEAN
  /\ calls \in Nat
  /\ account \in Nat
  /\ pool \in Tx \cup {NoTx}
  /\ archived \in BOOLEAN
  /\ succeeded \subseteq Tx /\ failed \subseteq Tx /\ accepted \subseteq Tx

\* Whatever a prepare() or simulate() under way overwrites, built_transaction is
\* not without _needs_preparation unless its resources were computed with the
\* contract signatures it carries: to_xdr() and sign() rely on it.  The exception
\* are signatures replaced by an authorize() that raised half way.
FlagIsHonest ==
  built # NoTx /\ ~needsPrep =>
    built.authorized \cap ContractAddrs \subseteq built.covered \cup built.halfway

\* The cached result is that of the latest simulation, unless somebody looked at the
\* result while a simulate() awaited its answer (it empties the cache only before).
CacheIsEarned == ~peeked => cache \in {NoSim, simulation}

\* No interleaving of authorize(), prepare(), simulate(), sign() and submit()
\* puts an invocation into the network that lacks an authorization, or whose
\* resources were computed before a contract signature it carries, but for the
\* signatures replaced by an authorize() that raised half way.
AcceptedIsReady ==
  \A t \in accepted : t.owner # RestoreOp =>
    t.unsigned = {} /\ ContractAddrs \subseteq t.covered \cup t.halfway

\* Overlapping sends and unheard answers are the only way to a second
\* invocation: re-simulating, preparing or signing next to a submit() is none.
AtMostOneInvocation ==
  Orderly => \A s, t \in Invocations : s = t

\* What a submit() reports is what happened, although other tasks replaced
\* built_transaction while it waited.
OutcomeIsTrue ==
  \A t \in Tasks :
    /\ outcome[t] = "Success" => Invocations \cap succeeded # {}
    /\ outcome[t] = "Failed" /\ Orderly => Invocations \cap succeeded = {}
    /\ outcome[t] = "SendFailed" /\ Orderly => Invocations = {}

\* An invocation that the network took can be asked for: once no request is
\* under way, the next submit() polls for that invocation and no other.
Findable ==
  Orderly /\ ~Sending /\ Invocations # {} => sent # NoSend /\ sent.hash \in Invocations

-----------------------------------------------------------------------------
(* The promise to the callers *)

\* What the network's records say of the object's invocation.
Stage ==
  CASE Invocations = {} -> "unsent"
    [] Invocations # {} /\ Invocations \cap (succeeded \cup failed) = {} -> "accepted"
    [] Invocations \cap succeeded # {} -> "succeeded"
    [] Invocations \cap (failed \ succeeded) # {} -> "failed"

\* The tasks share the object.
Promise == INSTANCE Invocation WITH
  Objects <- {Self}, Callers <- Tasks, Of <- [t \in Tasks |-> Self],
  stage <- [o \in {Self} |-> Stage], report <- outcome

\* As long as nothing was sent behind the object's back, the tasks that share it
\* are promised what the only caller of a synchronous object is, step by step:
\* no task is told of an end that another task's submit() could still undo.
OrderlyKeepsPromise ==
  Promise!Init /\ [][Orderly' => Promise!Next]_<<Stage, outcome>>

=============================================================================
