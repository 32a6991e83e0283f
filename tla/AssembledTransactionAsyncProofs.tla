------------------- MODULE AssembledTransactionAsyncProofs -------------------
(***************************************************************************)
(* Proofs about AssembledTransactionAsync, for any number of tasks, calls, *)
(* failures, addresses and fees: what its attributes and its coroutines'   *)
(* locals are like between any two steps of the event loop.                *)
(***************************************************************************)
EXTENDS AssembledTransactionAsync, StellarNetworkProofs

-----------------------------------------------------------------------------
(* The invariant *)

Restoring == {"restore_simulate", "restore_send", "restore_poll"}

\* The transaction d is a fit local for a coroutine that awaits p.
LocalGood(p, d) ==
  /\ p \in Requested /\ d \in Tx \cup {NoTx}
  /\ p \in {"simulate", "send"} \cup Restoring \cup Statuses => d \in Tx
  /\ p = "simulate" => d.owner = Self /\ Paid(d) /\ Whole(d)
  /\ p \in Restoring => d.owner = RestoreOp
  /\ p \in {"send"} \cup Statuses => d.owner = Self /\ (d.signed => Ready(Hash(d)))
  /\ p = "poll" => d \in Tx /\ d.owner = Self

TasksGood ==
  /\ pc \in [Tasks -> Requested]
  /\ call \in [Tasks -> Calls]
  /\ draft \in [Tasks -> Tx \cup {NoTx}]
  /\ outcome \in [Tasks -> Outcomes]
  /\ \A t \in Tasks : LocalGood(pc[t], draft[t])

\* What is in built_transaction, np being _needs_preparation.
BuiltGood(b, np) ==
  b # NoTx => b \in Tx /\ b.owner = Self /\ Paid(b) /\ Fit(b, np)

ObjectGood ==
  /\ built \in Tx \cup {NoTx} /\ needsPrep \in BOOLEAN
  /\ BuiltGood(built, needsPrep)
  /\ simulation \in Simulation \cup {NoSim}
  /\ cache \in Simulation \cup {NoSim}
  /\ sent \in Send \cup {NoSend}
  /\ sent # NoSend => sent.hash.owner = Self

HistoryGood ==
  overlap \in BOOLEAN /\ unheard \in BOOLEAN /\ calls \in Nat

NetworkGood ==
  /\ account \in Nat
  /\ pool \in Tx \cup {NoTx}
  /\ archived \in BOOLEAN
  /\ succeeded \subseteq Tx /\ failed \subseteq Tx /\ accepted \subseteq Tx

\* What the network took, and what became of it.
AcceptedGood ==
  /\ \A t \in accepted : Ready(t)
  /\ pool # NoTx => pool \in accepted
  /\ succeeded \cup failed \subseteq accepted
  /\ succeeded \cap failed = {}
  /\ \A t \in succeeded \cup failed : t.seq <= account

Good == TasksGood /\ ObjectGood /\ HistoryGood /\ NetworkGood /\ AcceptedGood

IInv == Good /\ peeked \in BOOLEAN

-----------------------------------------------------------------------------
(* Steps that leave a part alone. *)

LEMMA SameTasks == TasksGood /\ UNCHANGED taskVars => TasksGood'
  BY DEF TasksGood, taskVars

LEMMA SameObject == ObjectGood /\ UNCHANGED objectVars => ObjectGood'
  BY DEF ObjectGood, objectVars

LEMMA SameHistory == HistoryGood /\ UNCHANGED historyVars => HistoryGood'
  BY DEF HistoryGood, historyVars

LEMMA SameNetwork ==
  NetworkGood /\ AcceptedGood /\ UNCHANGED <<networkVars, accepted>>
    => NetworkGood' /\ AcceptedGood'
  BY DEF NetworkGood, AcceptedGood, networkVars

-----------------------------------------------------------------------------
(* Control *)

LEMMA TaskMoves ==
  ASSUME TasksGood, NEW t \in Tasks, NEW p, NEW d, LocalGood(p, d),
         pc' = [pc EXCEPT ![t] = p], draft' = [draft EXCEPT ![t] = d],
         call' \in [Tasks -> Calls], outcome' \in [Tasks -> Outcomes]
  PROVE  TasksGood'
<1>1. p \in Requested /\ d \in Tx \cup {NoTx}
  BY DEF LocalGood
<1>2. pc' \in [Tasks -> Requested] /\ draft' \in [Tasks -> Tx \cup {NoTx}]
  BY <1>1 DEF TasksGood
<1>3. ASSUME NEW u \in Tasks
      PROVE  LocalGood(pc'[u], draft'[u])
  <2>1. CASE u = t
    <3>1. pc'[u] = p /\ draft'[u] = d
      BY <2>1 DEF TasksGood
    <3> QED
      BY <3>1
  <2>2. CASE u # t
    <3>1. pc'[u] = pc[u] /\ draft'[u] = draft[u]
      BY <2>2 DEF TasksGood
    <3>2. LocalGood(pc[u], draft[u])
      BY DEF TasksGood
    <3> QED
      BY <3>1, <3>2
  <2> QED
    BY <2>1, <2>2
<1> QED
  BY <1>2, <1>3 DEF TasksGood

LEMMA AwaitGood ==
  ASSUME TasksGood, NEW t \in Tasks, NEW p, NEW d, LocalGood(p, d), Await(t, p, d)
  PROVE  TasksGood'
<1>1. /\ pc' = [pc EXCEPT ![t] = p] /\ draft' = [draft EXCEPT ![t] = d]
      /\ call' \in [Tasks -> Calls] /\ outcome' \in [Tasks -> Outcomes]
  BY DEF Await, TasksGood
<1> QED
  BY <1>1, TaskMoves

\* A step of one task leaves the other ones' locals alone.
OthersStay(t) ==
  \A u \in Tasks : u # t =>
    pc'[u] = pc[u] /\ call'[u] = call[u] /\ draft'[u] = draft[u] /\ outcome'[u] = outcome[u]

LEMMA AwaitMoves ==
  ASSUME TasksGood, NEW t \in Tasks, NEW p, NEW d, Await(t, p, d)
  PROVE  /\ OthersStay(t)
         /\ pc'[t] = p /\ call'[t] = call[t] /\ draft'[t] = d /\ outcome'[t] = outcome[t]
  BY DEF TasksGood, Await, OthersStay

LEMMA ReturnMoves ==
  ASSUME TasksGood, NEW t \in Tasks, NEW how, Return(t, how)
  PROVE  OthersStay(t) /\ pc'[t] = "idle" /\ outcome'[t] = how
  BY DEF TasksGood, Return, OthersStay

LEMMA BeginMoves ==
  ASSUME TasksGood, NEW t \in Tasks, NEW op, NEW restore, NEW force, NEW p, NEW d,
         Begin(t, op, restore, force, p, d)
  PROVE  /\ OthersStay(t) /\ pc[t] = "idle"
         /\ pc'[t] = p /\ call'[t].op = op /\ draft'[t] = d /\ outcome'[t] = "none"
  BY DEF TasksGood, Begin, OthersStay

LEMMA IdleGood == LocalGood("idle", NoTx)
  BY DEF LocalGood, Restoring, Statuses, Requested

LEMMA LoadGood == LocalGood("load", NoTx) /\ LocalGood("restore_load", NoTx)
  BY DEF LocalGood, Restoring, Statuses, Requested

LEMMA PollGood == \A d \in Tx : d.owner = Self => LocalGood("poll", d)
  BY DEF LocalGood, Restoring, Statuses, Requested

LEMMA ReturnGood ==
  ASSUME TasksGood, NEW t \in Tasks, NEW how \in Outcomes, Return(t, how)
  PROVE  TasksGood'
<1>1. NoCall \in Calls
  BY DEF NoCall, Calls
<1>2. /\ pc' = [pc EXCEPT ![t] = "idle"] /\ draft' = [draft EXCEPT ![t] = NoTx]
      /\ call' \in [Tasks -> Calls] /\ outcome' \in [Tasks -> Outcomes]
  BY <1>1 DEF Return, TasksGood
<1> QED
  BY <1>2, IdleGood, TaskMoves

LEMMA BeginGood ==
  ASSUME TasksGood, HistoryGood, NEW t \in Tasks,
         NEW op \in {"simulate", "prepare", "sign_and_submit", "submit"},
         NEW restore \in BOOLEAN, NEW force \in BOOLEAN, NEW p, NEW d, LocalGood(p, d),
         Begin(t, op, restore, force, p, d)
  PROVE  TasksGood' /\ calls' \in Nat
<1>1. [op |-> op, restore |-> restore, force |-> force] \in Calls /\ "none" \in Outcomes
  BY DEF Calls, Outcomes
<1>2. /\ pc' = [pc EXCEPT ![t] = p] /\ draft' = [draft EXCEPT ![t] = d]
      /\ call' \in [Tasks -> Calls] /\ outcome' \in [Tasks -> Outcomes]
  BY <1>1 DEF Begin, TasksGood
<1>3. \A n \in Nat : n + 1 \in Nat
  OBVIOUS
<1>4. calls' \in Nat
  BY <1>3, Zenon DEF Begin, HistoryGood
<1>5. TasksGood'
  BY <1>2, TaskMoves
<1> QED
  BY <1>4, <1>5

\* Whatever is simulated is one of the envelopes the invariant speaks of.
LEMMA SimulateGood ==
  ASSUME NEW d \in Tx, d.owner = Self, Paid(d), Whole(d)
  PROVE  LocalGood("simulate", d)
  BY DEF LocalGood, Restoring, Statuses, Requested

LEMMA SubmitGood ==
  ASSUME ObjectGood, NEW b \in Tx, b.owner = Self, b.signed => Ready(Hash(b))
  PROVE  LocalGood(SubmitStep(b)[1], SubmitStep(b)[2])
<1>1. CASE sent = NoSend
  <2>1. SubmitStep(b)[1] = "send" /\ SubmitStep(b)[2] = b
    BY <1>1 DEF SubmitStep
  <2>2. LocalGood("send", b)
    BY DEF LocalGood, Restoring, Statuses, Requested
  <2> QED
    BY <2>1, <2>2
<1>2. CASE sent # NoSend
  <2>1. SubmitStep(b)[1] = "poll" /\ SubmitStep(b)[2] = sent.hash
    BY <1>2 DEF SubmitStep
  <2>2. sent.hash \in Tx /\ sent.hash.owner = Self
    BY <1>2 DEF ObjectGood, Send
  <2> QED
    BY <2>1, <2>2, PollGood
<1> QED
  BY <1>1, <1>2

\* The envelope that prepare() copies.
LEMMA CopyGood ==
  ASSUME ObjectGood, Preparable(built)
  PROVE  LocalGood("simulate", ForSimulation(built))
<1>1. built \in Tx /\ built.owner = Self /\ Paid(built) /\ Fit(built, needsPrep)
  BY DEF ObjectGood, Preparable, BuiltGood
<1>2. /\ ForSimulation(built) \in Tx /\ ForSimulation(built).owner = Self
      /\ Paid(ForSimulation(built)) /\ Whole(ForSimulation(built))
  BY <1>1, ForSimulationFields, ForSimulationGood
<1> QED
  BY <1>2, SimulateGood

\* A fit transaction, once signed, is ready.
LEMMA SignedReady ==
  ASSUME NEW b \in Tx, NEW np, Paid(b), Fit(b, np)
  PROVE  b.signed => Ready(Hash(b))
  BY HashGood

\* sign() makes a fit transaction of one that needs no preparation.
LEMMA SignGood ==
  ASSUME NEW b \in Tx, b.owner = Self, Paid(b), Fit(b, FALSE), NEW s \in BOOLEAN,
         s => b.unsigned = {}
  PROVE  LET x == [b EXCEPT !.signed = s]
         IN x \in Tx /\ x.owner = Self /\ BuiltGood(x, FALSE)
            /\ (x.signed => Ready(Hash(x)))
<1> DEFINE x == [b EXCEPT !.signed = s]
<1>1. x \in Tx /\ x.owner = Self
  BY SignedFields
<1>2. Paid(x) /\ Fit(x, FALSE)
  BY SignedGood
<1> HIDE DEF x
<1>3. x.signed => Ready(Hash(x))
  BY <1>1, <1>2, SignedReady
<1> QED
  BY <1>1, <1>2, <1>3 DEF BuiltGood, x

-----------------------------------------------------------------------------
(* The network *)

\* A transaction is applied once: its sequence number is spent.
LEMMA AppliesGood ==
  ASSUME NetworkGood, AcceptedGood, LedgerApplies
  PROVE  AcceptedGood'
<1>1. pool \in Tx /\ pool \in accepted /\ pool.seq = account + 1 /\ account \in Nat
  BY DEF NetworkGood, AcceptedGood, LedgerApplies, Live
<1>2. \A t \in succeeded \cup failed : t \in Tx /\ t.seq \in Nat /\ t.seq <= account
  BY DEF NetworkGood, AcceptedGood, Tx
<1>3. pool \notin succeeded \cup failed
  BY <1>1, <1>2
<1>4. account' = account + 1 /\ pool' = NoTx /\ accepted' = accepted
  BY DEF LedgerApplies
<1>5. \/ succeeded' = succeeded \cup {pool} /\ failed' = failed
      \/ succeeded' = succeeded /\ failed' = failed \cup {pool}
  BY DEF LedgerApplies
<1>6. succeeded' \cup failed' = (succeeded \cup failed) \cup {pool}
  BY <1>5
<1>7. \A t \in (succeeded \cup failed) \cup {pool} : t.seq <= account + 1
  BY <1>1, <1>2
<1>8. \A t \in succeeded' \cup failed' : t.seq <= account'
  BY <1>4, <1>6, <1>7, Zenon
<1>9. succeeded' \cap failed' = {}
  BY <1>3, <1>5 DEF AcceptedGood
<1> QED
  BY <1>1, <1>4, <1>6, <1>8, <1>9 DEF AcceptedGood

LEMMA NetworkStepGood == Good /\ Network => Good'
<1> SUFFICES ASSUME Good, Network PROVE Good'
  OBVIOUS
<1>1. UNCHANGED taskVars /\ UNCHANGED objectVars /\ UNCHANGED historyVars /\ UNCHANGED accepted
  BY DEF Network, LedgerApplies, PoolEvicts, StateArchives
<1>2. \A n \in Nat : n + 1 \in Nat
  OBVIOUS
<1>3. account' \in Nat
  BY <1>2, Zenon DEF Good, NetworkGood, Network, LedgerApplies, PoolEvicts, StateArchives
<1>4. /\ pool' \in Tx \cup {NoTx} /\ archived' \in BOOLEAN
      /\ succeeded' \subseteq Tx /\ failed' \subseteq Tx
  BY DEF Good, NetworkGood, Network, LedgerApplies, PoolEvicts, StateArchives
<1>5. NetworkGood'
  BY <1>1, <1>3, <1>4 DEF Good, NetworkGood
<1>6. AcceptedGood'
  <2>1. CASE LedgerApplies
    BY <2>1, AppliesGood DEF Good
  <2>2. CASE PoolEvicts \/ StateArchives
    BY <2>2 DEF Good, AcceptedGood, PoolEvicts, StateArchives
  <2> QED
    BY <2>1, <2>2 DEF Network
<1> QED
  BY <1>1, <1>5, <1>6, SameTasks, SameObject, SameHistory DEF Good

-----------------------------------------------------------------------------
(* The users' calls *)

LEMMA SimulateStepGood ==
  ASSUME Good, NEW t \in Tasks, NEW restore \in BOOLEAN, Simulate(t, restore)
  PROVE  Good'
<1>1. TasksGood' /\ calls' \in Nat
  BY BeginGood, LoadGood DEF Good, Simulate
<1>2. ObjectGood'
  BY DEF Good, ObjectGood, Simulate
<1>3. HistoryGood'
  BY <1>1 DEF Good, HistoryGood, Simulate
<1> QED
  BY <1>1, <1>2, <1>3, SameNetwork DEF Good, Simulate

LEMMA PrepareStepGood ==
  ASSUME Good, NEW t \in Tasks, NEW restore \in BOOLEAN, Prepare(t, restore)
  PROVE  Good'
<1>1. LocalGood("simulate", ForSimulation(built))
  BY CopyGood DEF Good, Prepare
<1>2. TasksGood' /\ calls' \in Nat
  BY <1>1, BeginGood DEF Good, Prepare
<1>3. HistoryGood'
  BY <1>2 DEF Good, HistoryGood, Prepare
<1> QED
  BY <1>2, <1>3, SameObject, SameNetwork DEF Good, Prepare

LEMMA PrepareSignAndSubmitStepGood ==
  ASSUME Good, NEW t \in Tasks, NEW force \in BOOLEAN, PrepareSignAndSubmit(t, force)
  PROVE  Good'
<1>1. LocalGood("simulate", ForSimulation(built))
  BY CopyGood DEF Good, PrepareSignAndSubmit
<1>2. TasksGood' /\ calls' \in Nat
  BY <1>1, BeginGood DEF Good, PrepareSignAndSubmit
<1>3. HistoryGood'
  BY <1>2 DEF Good, HistoryGood, PrepareSignAndSubmit
<1> QED
  BY <1>2, <1>3, SameObject, SameNetwork DEF Good, PrepareSignAndSubmit

LEMMA SubmitStepGood ==
  ASSUME Good, NEW t \in Tasks, Submit(t)
  PROVE  Good'
<1>1. built \in Tx /\ built.owner = Self /\ Paid(built) /\ Fit(built, needsPrep)
  BY DEF Good, ObjectGood, BuiltGood, Submit
<1>2. LocalGood(SubmitStep(built)[1], SubmitStep(built)[2])
  BY <1>1, SignedReady, SubmitGood DEF Good
<1>3. TasksGood' /\ calls' \in Nat
  BY <1>2, BeginGood DEF Good, Submit
<1>4. HistoryGood'
  BY <1>3 DEF Good, HistoryGood, Submit, SendsNext
<1> QED
  BY <1>3, <1>4, SameObject, SameNetwork DEF Good, Submit

\* A transaction that sign() accepts, and the one that it makes of it.
LEMMA SignableGood ==
  ASSUME ObjectGood, NEW force, Signable(built, simulation, cache, needsPrep, force)
  PROVE  LET x == [built EXCEPT !.signed = TRUE]
         IN x \in Tx /\ x.owner = Self /\ BuiltGood(x, needsPrep)
            /\ (x.signed => Ready(Hash(x)))
<1>1. /\ built \in Tx /\ built.owner = Self /\ Paid(built) /\ Fit(built, FALSE)
      /\ needsPrep = FALSE /\ built.unsigned = {}
  BY DEF ObjectGood, BuiltGood, Signable
<1> QED
  BY <1>1, SignGood

LEMMA CacheAfterSignGood ==
  ASSUME ObjectGood, NEW force
  PROVE  CacheAfterSign(force) \in Simulation \cup {NoSim}
  BY DEF ObjectGood, CacheAfterSign, Cached

LEMMA SignAndSubmitStepGood ==
  ASSUME Good, NEW t \in Tasks, NEW force \in BOOLEAN, SignAndSubmit(t, force)
  PROVE  Good'
<1> DEFINE x == [built EXCEPT !.signed = TRUE]
<1>1. ObjectGood /\ Signable(built, simulation, cache, needsPrep, force)
  BY DEF Good, SignAndSubmit
<1>2. x \in Tx /\ x.owner = Self /\ BuiltGood(x, needsPrep)
      /\ (x.signed => Ready(Hash(x)))
  BY <1>1, SignableGood
<1>3. built' = x
  BY DEF SignAndSubmit
<1> HIDE DEF x
<1>4. LocalGood(SubmitStep(x)[1], SubmitStep(x)[2])
  BY <1>1, <1>2, SubmitGood
<1>5. Begin(t, "sign_and_submit", TRUE, force, SubmitStep(x)[1], SubmitStep(x)[2])
  BY <1>3 DEF SignAndSubmit
<1>6. TasksGood' /\ calls' \in Nat
  BY <1>4, <1>5, BeginGood DEF Good
<1>7. HistoryGood'
  BY <1>6 DEF Good, HistoryGood, SignAndSubmit, SendsNext
<1>8. cache' \in Simulation \cup {NoSim}
  BY <1>1, CacheAfterSignGood DEF SignAndSubmit
<1>9. ObjectGood'
  BY <1>1, <1>2, <1>3, <1>8 DEF ObjectGood, SignAndSubmit
<1> QED
  BY <1>6, <1>7, <1>9, SameNetwork DEF Good, SignAndSubmit

-----------------------------------------------------------------------------
(* The calls that await nothing *)

LEMMA AuthorizeStepGood ==
  ASSUME Good, NEW a \in Addrs, Authorize(a)
  PROVE  Good'
<1> DEFINE x == SignEntries(built, a)
           np == needsPrep \/ a \in ContractAddrs
<1>1. /\ built \in Tx /\ built.owner = Self /\ Paid(built) /\ Fit(built, needsPrep)
      /\ needsPrep \in BOOLEAN /\ ~built.signed /\ a \in built.unsigned \cup built.authorized
  BY DEF Good, ObjectGood, BuiltGood, Authorize, Authorizable
<1>2. Paid(x) /\ Fit(x, np)
  BY <1>1, AuthorizedGood
<1>3. x \in Tx /\ x.owner = Self
  BY <1>1, SignEntriesFields
<1>4. built' = x /\ needsPrep' = np /\ np \in BOOLEAN
  BY DEF Authorize
<1> HIDE DEF x, np
<1>5. BuiltGood(built', needsPrep')
  BY <1>2, <1>3, <1>4 DEF BuiltGood
<1>6. ObjectGood'
  BY <1>3, <1>4, <1>5 DEF Good, ObjectGood, Authorize
<1> QED
  BY <1>6, SameTasks, SameHistory, SameNetwork DEF Good, Authorize

LEMMA AuthorizeFailsStepGood ==
  ASSUME Good, NEW a \in Addrs, AuthorizeFails(a)
  PROVE  Good'
<1> DEFINE x == SignSomeEntries(built, a)
<1>1. /\ built \in Tx /\ built.owner = Self /\ Paid(built) /\ Fit(built, needsPrep)
      /\ needsPrep \in BOOLEAN /\ ~built.signed /\ a \in built.unsigned \cup built.authorized
  BY DEF Good, ObjectGood, BuiltGood, AuthorizeFails, Authorizable
<1>2. Paid(x) /\ Fit(x, needsPrep)
  BY <1>1, HalfAuthorizedGood
<1>3. x \in Tx /\ x.owner = Self
  BY <1>1, SignSomeEntriesFields
<1>4. built' = x /\ needsPrep' = needsPrep
  BY DEF AuthorizeFails
<1> HIDE DEF x
<1>5. BuiltGood(built', needsPrep')
  BY <1>2, <1>3, <1>4 DEF BuiltGood
<1>6. ObjectGood'
  BY <1>3, <1>4, <1>5 DEF Good, ObjectGood, AuthorizeFails
<1>7. HistoryGood'
  BY DEF Good, HistoryGood, AuthorizeFails
<1> QED
  BY <1>6, <1>7, SameTasks, SameNetwork DEF Good, AuthorizeFails

LEMMA SignStepGood ==
  ASSUME Good, NEW force \in BOOLEAN, Sign(force)
  PROVE  Good'
<1> DEFINE x == [built EXCEPT !.signed = TRUE]
<1>1. ObjectGood /\ Signable(built, simulation, cache, needsPrep, force)
  BY DEF Good, Sign
<1>2. x \in Tx /\ BuiltGood(x, needsPrep)
  BY <1>1, SignableGood
<1>3. built' = x
  BY DEF Sign
<1> HIDE DEF x
<1>4. cache' \in Simulation \cup {NoSim}
  BY <1>1, CacheAfterSignGood DEF Sign
<1>5. ObjectGood'
  BY <1>1, <1>2, <1>3, <1>4 DEF ObjectGood, Sign
<1> QED
  BY <1>5, SameTasks, SameHistory, SameNetwork DEF Good, Sign

LEMMA QueryStepGood == Good /\ Query => Good'
<1> SUFFICES ASSUME Good, Query PROVE Good'
  OBVIOUS
<1>1. ObjectGood'
  BY DEF Good, ObjectGood, Query, Cached
<1> QED
  BY <1>1, SameTasks, SameHistory, SameNetwork DEF Good, Query

-----------------------------------------------------------------------------
(* The answers *)

LEMMA LoadAccountGood ==
  ASSUME Good, NEW t \in Tasks, LoadAccount(t)
  PROVE  Good'
<1> DEFINE d == Build(Self, account + 1, 0)
<1>1. account + 1 \in Nat /\ 0 \in Nat
  BY DEF Good, NetworkGood
<1>2. d \in Tx /\ d.owner = Self /\ Paid(d) /\ Whole(d)
  BY <1>1, SelfAssumption, BuildFields, BuildGood
<1>3. Await(t, "simulate", d)
  BY DEF LoadAccount
<1> HIDE DEF d
<1>4. TasksGood'
  BY <1>2, <1>3, SimulateGood, AwaitGood DEF Good
<1> QED
  BY <1>4, SameObject, SameHistory, SameNetwork DEF Good, LoadAccount

\* The simulations of the server, and what becomes of the cache.
LEMMA AnswerFields ==
  ASSUME ObjectGood, NetworkGood, NEW t \in Tasks, NEW sim \in SimulationAnswers
  PROVE  /\ sim \in Simulation
         /\ CacheAtAnswer(t) \in Simulation \cup {NoSim}
         /\ Cached(sim, CacheAtAnswer(t)) \in Simulation \cup {NoSim}
<1>1. sim \in Simulation
  BY DEF NetworkGood, SimulationAnswers, Simulation
<1> QED
  BY <1>1 DEF ObjectGood, CacheAtAnswer, Cached

LEMMA AnswerSimulateGood ==
  ASSUME Good, NEW t \in Tasks, AnswerSimulate(t)
  PROVE  Good'
<1>1. PICK sim \in SimulationAnswers :
        /\ simulation' = sim
        /\ \/ SimulationFails(t, sim)
           \/ SimulationNeedsRestore(t, sim)
           \/ \E f \in ResourceFees : SimulationSucceeds(t, sim, f)
  BY AskedType DEF AnswerSimulate
<1>2. /\ sim \in Simulation
      /\ CacheAtAnswer(t) \in Simulation \cup {NoSim}
      /\ Cached(sim, CacheAtAnswer(t)) \in Simulation \cup {NoSim}
  BY AnswerFields DEF Good
<1>3. /\ UNCHANGED sent /\ UNCHANGED unheard /\ UNCHANGED calls
      /\ NetworkGood' /\ AcceptedGood'
  BY SameNetwork DEF Good, AnswerSimulate
<1>4. "none" \in Outcomes
  BY DEF Outcomes
<1>5. CASE SimulationFails(t, sim)
  <2>1. TasksGood'
    BY <1>4, <1>5, ReturnGood DEF Good, SimulationFails
  <2>2. ObjectGood'
    BY <1>1, <1>2, <1>3, <1>5 DEF Good, ObjectGood, SimulationFails
  <2>3. HistoryGood'
    BY <1>3, <1>5 DEF Good, HistoryGood, SimulationFails
  <2> QED
    BY <1>3, <2>1, <2>2, <2>3 DEF Good
<1>6. CASE SimulationNeedsRestore(t, sim)
  <2>1. TasksGood'
    <3>1. Await(t, "restore_load", NoTx) \/ Return(t, "none")
      BY <1>6 DEF SimulationNeedsRestore
    <3> QED
      BY <1>4, <3>1, LoadGood, AwaitGood, ReturnGood DEF Good
  <2>2. ObjectGood'
    BY <1>1, <1>2, <1>3, <1>6 DEF Good, ObjectGood, SimulationNeedsRestore
  <2>3. HistoryGood'
    BY <1>3, <1>6 DEF Good, HistoryGood, SimulationNeedsRestore
  <2> QED
    BY <1>3, <2>1, <2>2, <2>3 DEF Good
<1>7. ASSUME NEW f \in ResourceFees, SimulationSucceeds(t, sim, f)
      PROVE  Good'
  <2> DEFINE a == Assemble(draft[t], f)
             signs == /\ call[t].op = "sign_and_submit"
                      /\ Signable(a, sim, NoSim, FALSE, call[t].force)
             x == [a EXCEPT !.signed = signs]
  <2>1. LocalGood("simulate", draft[t])
    BY Zenon DEF Good, TasksGood, AnswerSimulate
  <2>2. /\ draft[t] \in Tx /\ draft[t].owner = Self
        /\ Paid(draft[t]) /\ Whole(draft[t]) /\ Self # RestoreOp
    BY <2>1, SelfAssumption, OwnersAssumption DEF LocalGood
  <2>3. a \in Tx /\ a.owner = Self /\ Paid(a) /\ Fit(a, FALSE)
    BY <2>1, <2>2, AssembleFields, AssembleGood
  <2>4. signs \in BOOLEAN /\ (signs => a.unsigned = {})
    BY DEF Signable
  <2>5. /\ built' = x
        /\ \/ Await(t, SubmitStep(built')[1], SubmitStep(built')[2]) /\ SendsNext(built')
           \/ Return(t, "none") /\ UNCHANGED overlap
        /\ cache' \in {Cached(sim, CacheAtAnswer(t)), CacheAtAnswer(t)}
        /\ needsPrep' = FALSE
    BY <1>7 DEF SimulationSucceeds
  <2> HIDE DEF a, signs
  <2>6. x \in Tx /\ x.owner = Self /\ BuiltGood(x, FALSE)
        /\ (x.signed => Ready(Hash(x)))
    BY <2>3, <2>4, SignGood
  <2> HIDE DEF x
  <2>7. LocalGood(SubmitStep(x)[1], SubmitStep(x)[2])
    BY <2>6, SubmitGood DEF Good
  <2>8. TasksGood'
    <3>1. Await(t, SubmitStep(x)[1], SubmitStep(x)[2]) \/ Return(t, "none")
      BY <2>5
    <3> QED
      BY <1>4, <2>7, <3>1, AwaitGood, ReturnGood DEF Good
  <2>9. ObjectGood'
    BY <1>1, <1>2, <1>3, <2>5, <2>6 DEF Good, ObjectGood
  <2>10. HistoryGood'
    BY <1>3, <2>5 DEF Good, HistoryGood, SendsNext
  <2> QED
    BY <1>3, <2>8, <2>9, <2>10 DEF Good
<1> QED
  BY <1>1, <1>5, <1>6, <1>7

LEMMA RestoreLoadAccountGood ==
  ASSUME Good, NEW t \in Tasks, RestoreLoadAccount(t)
  PROVE  Good'
<1>1. PICK f \in ResourceFees : Await(t, "restore_simulate", Build(RestoreOp, account + 1, f.stored))
  BY DEF RestoreLoadAccount
<1> DEFINE d == Build(RestoreOp, account + 1, f.stored)
<1>2. account + 1 \in Nat /\ f.stored \in Nat
  BY AskedType DEF Good, NetworkGood
<1>3. d \in Tx /\ d.owner = RestoreOp
  <2>1. \A n, g \in Nat : /\ Build(RestoreOp, n, g) \in Tx
                         /\ Build(RestoreOp, n, g).owner = RestoreOp
    BY BuildFields
  <2> QED
    BY <1>2, <2>1, Zenon
<1>4. Await(t, "restore_simulate", d)
  BY <1>1
<1> HIDE DEF d
<1>5. LocalGood("restore_simulate", d)
  BY <1>3 DEF LocalGood, Restoring, Statuses, Requested
<1>6. TasksGood'
  BY <1>4, <1>5, AwaitGood DEF Good
<1> QED
  BY <1>6, SameObject, SameHistory, SameNetwork DEF Good, RestoreLoadAccount

LEMMA RestoreSimulateGood ==
  ASSUME Good, NEW t \in Tasks, RestoreSimulate(t)
  PROVE  Good'
<1>1. LocalGood("restore_simulate", draft[t]) /\ "none" \in Outcomes
  BY Zenon DEF Good, TasksGood, RestoreSimulate, Outcomes
<1>2. draft[t] \in Tx /\ draft[t].owner = RestoreOp
  BY <1>1 DEF LocalGood, Restoring
<1>3. ASSUME NEW f \in ResourceFees,
             Await(t, "restore_send", [Assemble(draft[t], f) EXCEPT !.signed = TRUE])
      PROVE  TasksGood'
  <2> DEFINE a == Assemble(draft[t], f)
             d == [a EXCEPT !.signed = TRUE]
  <2>2. a \in Tx /\ a.owner = RestoreOp
    BY <1>2, AssembleFields
  <2>3. Await(t, "restore_send", d)
    BY <1>3
  <2> HIDE DEF a
  <2>4. d \in Tx /\ d.owner = RestoreOp
    BY <2>2, SignedFields
  <2> HIDE DEF d
  <2>5. LocalGood("restore_send", d)
    BY <2>4 DEF LocalGood, Restoring, Statuses, Requested
  <2> QED
    BY <2>3, <2>5, AwaitGood DEF Good
<1>4. TasksGood'
  BY <1>1, <1>3, AskedType, ReturnGood DEF Good, RestoreSimulate
<1> QED
  BY <1>4, SameObject, SameHistory, SameNetwork DEF Good, RestoreSimulate

\* What enters the mempool.
LEMMA EnqueueGood ==
  ASSUME NetworkGood, AcceptedGood, NEW d \in Tx, Ready(Hash(d)), Enqueue(d),
         UNCHANGED <<account, archived, succeeded, failed>>
  PROVE  NetworkGood' /\ AcceptedGood'
<1>1. Hash(d) \in Tx
  BY HashFields
<1>2. pool' = Hash(d) /\ accepted' = accepted \cup {Hash(d)}
  BY DEF Enqueue
<1>3. NetworkGood'
  BY <1>1, <1>2 DEF NetworkGood
<1>4. AcceptedGood'
  BY <1>2 DEF AcceptedGood
<1> QED
  BY <1>3, <1>4

LEMMA RestoreSendGood ==
  ASSUME Good, NEW t \in Tasks, RestoreSend(t)
  PROVE  Good'
<1>1. LocalGood("restore_send", draft[t]) /\ "none" \in Outcomes
  BY Zenon DEF Good, TasksGood, RestoreSend, Outcomes
<1>2. draft[t] \in Tx /\ draft[t].owner = RestoreOp
  BY <1>1 DEF LocalGood, Restoring
<1>3. Ready(Hash(draft[t]))
  BY <1>2, HashFields DEF Ready
<1>4. LocalGood("restore_poll", draft[t])
  BY <1>2 DEF LocalGood, Restoring, Statuses, Requested
<1>5. \/ Enqueue(draft[t]) /\ Await(t, "restore_poll", draft[t])
      \/ NotEnqueued /\ Return(t, "none")
  BY DEF RestoreSend
<1>6. TasksGood'
  BY <1>1, <1>4, <1>5, AwaitGood, ReturnGood DEF Good
<1>7. NetworkGood' /\ AcceptedGood'
  <2>1. CASE Enqueue(draft[t])
    BY <1>2, <1>3, <2>1, EnqueueGood DEF Good, RestoreSend
  <2>2. CASE NotEnqueued
    BY <2>2, SameNetwork DEF Good, RestoreSend, NotEnqueued, networkVars
  <2> QED
    BY <1>5, <2>1, <2>2
<1> QED
  BY <1>6, <1>7, SameObject, SameHistory DEF Good, RestoreSend

LEMMA RestoreDoneGood ==
  ASSUME Good, NEW t \in Tasks, RestoreDone(t)
  PROVE  Good'
<1>1. "none" \in Outcomes
  BY DEF Outcomes
<1>2. \/ Await(t, "load", NoTx)
      \/ Preparable(built) /\ Await(t, "simulate", ForSimulation(built))
      \/ Return(t, "none")
  BY DEF RestoreDone
<1>3. TasksGood'
  BY <1>1, <1>2, LoadGood, CopyGood, AwaitGood, ReturnGood DEF Good
<1>4. ObjectGood'
  BY DEF Good, ObjectGood, RestoreDone
<1> QED
  BY <1>3, <1>4, SameHistory, SameNetwork DEF Good, RestoreDone

LEMMA ServerTakesGood ==
  ASSUME Good, NEW t \in Tasks, ServerTakes(t)
  PROVE  Good'
<1>1. LocalGood("send", draft[t])
  BY Zenon DEF Good, TasksGood, ServerTakes
<1>2. /\ draft[t] \in Tx /\ draft[t].owner = Self
      /\ draft[t].signed => Ready(Hash(draft[t]))
  BY <1>1 DEF LocalGood
<1>3. PICK status \in SendStatuses(draft[t]) :
        /\ IF status = "PENDING" THEN Enqueue(draft[t]) ELSE NotEnqueued
        /\ Await(t, status, draft[t])
  BY DEF ServerTakes
<1>4. status \in Statuses
  BY <1>3 DEF SendStatuses, Statuses
<1>5. LocalGood(status, draft[t])
  BY <1>2, <1>4 DEF LocalGood, Restoring, Statuses, Requested
<1>6. TasksGood'
  BY <1>3, <1>5, AwaitGood DEF Good
<1>7. NetworkGood' /\ AcceptedGood'
  <2>1. CASE status = "PENDING"
    <3>1. draft[t].signed /\ Enqueue(draft[t])
      BY <1>3, <2>1 DEF SendStatuses
    <3> QED
      BY <1>2, <3>1, EnqueueGood DEF Good, ServerTakes
  <2>2. CASE status # "PENDING"
    BY <1>3, <2>2, SameNetwork DEF Good, ServerTakes, NotEnqueued, networkVars
  <2> QED
    BY <2>1, <2>2
<1> QED
  BY <1>6, <1>7, SameObject, SameHistory DEF Good, ServerTakes

LEMMA SendAnsweredGood ==
  ASSUME Good, NEW t \in Tasks, SendAnswered(t)
  PROVE  Good'
<1>1. LocalGood(pc[t], draft[t]) /\ pc[t] \in Statuses /\ "SendFailed" \in Outcomes
  BY Zenon DEF Good, TasksGood, SendAnswered, Outcomes
<1>2. draft[t] \in Tx /\ draft[t].owner = Self
  BY <1>1 DEF LocalGood
<1>3. Hash(draft[t]) \in Tx /\ Hash(draft[t]).owner = Self
  BY <1>2, HashFields
<1>4. [hash |-> Hash(draft[t]), status |-> pc[t]] \in Send
  BY <1>1, <1>3 DEF Send
<1>5. Await(t, "poll", Hash(draft[t])) \/ Return(t, "SendFailed")
  BY DEF SendAnswered
<1>6. TasksGood'
  BY <1>1, <1>3, <1>5, PollGood, AwaitGood, ReturnGood DEF Good
<1>7. ObjectGood'
  BY <1>3, <1>4 DEF Good, ObjectGood, SendAnswered
<1> QED
  BY <1>6, <1>7, SameHistory, SameNetwork DEF Good, SendAnswered

\* The ends of a call that change nothing but its task.
LEMMA EndGood ==
  ASSUME Good, NEW t \in Tasks, GetTransaction(t) \/ StillPending(t) \/ RestoreGivesUp(t)
  PROVE  Good'
<1>1. /\ \E how \in Outcomes : Return(t, how)
      /\ UNCHANGED <<objectVars, historyVars, networkVars, accepted>>
  BY DEF GetTransaction, StillPending, RestoreGivesUp, Outcomes
<1>2. TasksGood'
  BY <1>1, ReturnGood DEF Good
<1> QED
  BY <1>1, <1>2, SameObject, SameHistory, SameNetwork DEF Good

LEMMA RequestFailsGood ==
  ASSUME Good, NEW t \in Tasks, RequestFails(t)
  PROVE  Good'
<1>1. TasksGood'
  BY ReturnGood DEF Good, RequestFails, Outcomes
<1>2. \A n \in Nat : n + 1 \in Nat
  OBVIOUS
<1>3. calls' \in Nat
  BY <1>2, Zenon DEF Good, HistoryGood, RequestFails
<1>4. HistoryGood'
  BY <1>3 DEF Good, HistoryGood, RequestFails
<1> QED
  BY <1>1, <1>4, SameObject, SameNetwork DEF Good, RequestFails

-----------------------------------------------------------------------------
(* Every step *)

LEMMA InitGood == Init => IInv
<1> SUFFICES ASSUME Init PROVE IInv
  OBVIOUS
<1>1. NoCall \in Calls /\ "none" \in Outcomes /\ "idle" \in Requested
  BY DEF NoCall, Calls, Outcomes, Requested
<1>2. TasksGood
  BY <1>1, IdleGood DEF Init, TasksGood
<1>3. ObjectGood
  BY DEF Init, ObjectGood, BuiltGood
<1>4. HistoryGood /\ NetworkGood /\ AcceptedGood /\ peeked \in BOOLEAN
  BY DEF Init, NetworkInit, HistoryGood, NetworkGood, AcceptedGood
<1> QED
  BY <1>2, <1>3, <1>4 DEF IInv, Good

LEMMA NextGood == Good /\ [Next]_vars => Good'
<1> SUFFICES ASSUME Good, [Next]_vars PROVE Good'
  OBVIOUS
<1>1. CASE UNCHANGED vars
  BY <1>1, SameTasks, SameObject, SameHistory, SameNetwork DEF Good, vars
<1>2. CASE Network
  BY <1>2, NetworkStepGood
<1>3. CASE Immediate
  BY <1>3, AuthorizeStepGood, AuthorizeFailsStepGood, SignStepGood, QueryStepGood DEF Immediate
<1>4. ASSUME NEW t \in Tasks, UserCalls(t)
      PROVE  Good'
  BY <1>4, SimulateStepGood, PrepareStepGood, PrepareSignAndSubmitStepGood,
     SignAndSubmitStepGood, SubmitStepGood DEF UserCalls
<1>5. ASSUME NEW t \in Tasks, Requests(t)
      PROVE  Good'
  BY <1>5, LoadAccountGood, AnswerSimulateGood, RestoreLoadAccountGood, RestoreSimulateGood,
     RestoreSendGood, RestoreDoneGood, ServerTakesGood, SendAnsweredGood, EndGood,
     RequestFailsGood DEF Requests
<1> QED
  BY <1>1, <1>2, <1>3, <1>4, <1>5 DEF Next

LEMMA NextIInv == IInv /\ [Next]_vars => IInv'
<1> SUFFICES ASSUME IInv, [Next]_vars PROVE IInv'
  OBVIOUS
<1>1. Good'
  BY NextGood DEF IInv
<1>2. peeked' \in BOOLEAN
  BY DEF IInv, Next, Peek, vars
<1> QED
  BY <1>1, <1>2 DEF IInv

-----------------------------------------------------------------------------
(* The cache.  simulate() empties it before its first request, so a simulate *)
(* under way finds it empty unless somebody looked at the result meanwhile.  *)

CacheInv == CacheIsEarned /\ (~peeked /\ Simulating => cache = NoSim)

\* A task that moves is simulating afterwards only if it awaits one of simulate()'s
\* requests in a call of simulate().
LEMMA OtherwiseSimulating ==
  ASSUME TasksGood, NEW t \in Tasks,
         OthersStay(t), Simulating',
         ~(call'[t].op = "simulate" /\ pc'[t] \in {"load", "simulate"}) \/ Simulating
  PROVE  Simulating
  BY DEF Simulating, OthersStay

LEMMA SimulatingGrows ==
  ASSUME TasksGood, [Next]_vars, Simulating', ~Simulating
  PROVE  cache' = NoSim
<1> DEFINE Becomes(t) == call'[t].op = "simulate" /\ pc'[t] \in {"load", "simulate"}
<1>1. ASSUME NEW t \in Tasks, OthersStay(t)
      PROVE  Becomes(t)
  BY <1>1, OtherwiseSimulating
<1>2. ASSUME NEW t \in Tasks, pc[t] \in {"load", "simulate"}
      PROVE  call[t].op # "simulate"
  BY <1>2 DEF Simulating
<1>3. ASSUME NEW t \in Tasks, NEW how, Return(t, how)
      PROVE  FALSE
  BY <1>1, <1>3, ReturnMoves
<1>4. ASSUME NEW t \in Tasks, NEW p, NEW d, Await(t, p, d)
      PROVE  call[t].op = "simulate" /\ p \in {"load", "simulate"}
  BY <1>1, <1>4, AwaitMoves
<1>5. ASSUME NEW t \in Tasks, NEW op, NEW restore, NEW force, NEW p, NEW d,
             Begin(t, op, restore, force, p, d)
      PROVE  op = "simulate"
  BY <1>1, <1>5, BeginMoves
<1>6. ~UNCHANGED <<pc, call>>
  BY DEF Simulating
<1>7. CASE Network \/ Immediate \/ UNCHANGED vars
  BY <1>6, <1>7 DEF Network, Immediate, Authorize, AuthorizeFails, Sign, Query, vars, taskVars
<1>8. ASSUME NEW t \in Tasks, UserCalls(t)
      PROVE  cache' = NoSim
  BY <1>5, <1>8 DEF UserCalls, Simulate, Prepare, PrepareSignAndSubmit, SignAndSubmit, Submit
<1>9. ASSUME NEW t \in Tasks, Requests(t)
      PROVE  cache' = NoSim
  <2>1. CASE LoadAccount(t) \/ AnswerSimulate(t)
    <3>1. pc[t] \in {"load", "simulate"}
      BY <2>1 DEF LoadAccount, AnswerSimulate
    <3>2. (\E how : Return(t, how)) \/ (\E p, d : Await(t, p, d))
      BY <2>1 DEF LoadAccount, AnswerSimulate, SimulationFails, SimulationNeedsRestore,
                  SimulationSucceeds
    <3> QED
      BY <1>2, <1>3, <1>4, <3>1, <3>2
  <2>2. CASE RestoreDone(t)
    <3>1. CASE call[t].op = "simulate"
      BY <2>2, <3>1 DEF RestoreDone
    <3>2. CASE call[t].op # "simulate"
      <4>1. (\E how : Return(t, how)) \/ (\E p, d : Await(t, p, d))
        BY <2>2, <3>2 DEF RestoreDone
      <4> QED
        BY <1>3, <1>4, <3>2, <4>1
    <3> QED
      BY <3>1, <3>2
  <2>3. CASE \/ RestoreLoadAccount(t) \/ RestoreSimulate(t) \/ RestoreSend(t)
             \/ RestoreGivesUp(t) \/ ServerTakes(t) \/ SendAnswered(t)
             \/ GetTransaction(t) \/ StillPending(t) \/ RequestFails(t)
    <3>1. CASE RestoreLoadAccount(t) \/ RestoreSimulate(t)
      <4>1. \/ Return(t, "none")
            \/ \E d : Await(t, "restore_simulate", d)
            \/ \E d : Await(t, "restore_send", d)
        BY <3>1, Zenon DEF RestoreLoadAccount, RestoreSimulate
      <4> QED
        BY <1>3, <1>4, <4>1
    <3>2. CASE RestoreSend(t)
      <4>1. \/ Await(t, "restore_poll", draft[t])
            \/ Return(t, "none")
        BY <3>2 DEF RestoreSend
      <4> QED
        BY <1>3, <1>4, <4>1
    <3>3. CASE ServerTakes(t)
      <4>1. PICK status \in SendStatuses(draft[t]) : Await(t, status, draft[t])
        BY <3>3 DEF ServerTakes
      <4>2. status \notin {"load", "simulate"}
        BY <4>1 DEF SendStatuses
      <4> QED
        BY <1>4, <4>1, <4>2
    <3>4. CASE SendAnswered(t)
      <4>1. Await(t, "poll", Hash(draft[t])) \/ Return(t, "SendFailed")
        BY <3>4 DEF SendAnswered
      <4> QED
        BY <1>3, <1>4, <4>1
    <3>5. CASE RestoreGivesUp(t) \/ GetTransaction(t) \/ StillPending(t) \/ RequestFails(t)
      <4>1. \E how : Return(t, how)
        BY <3>5 DEF RestoreGivesUp, GetTransaction, StillPending, RequestFails
      <4> QED
        BY <1>3, <4>1
    <3> QED
      BY <2>3, <3>1, <3>2, <3>3, <3>4, <3>5
  <2> QED
    BY <1>9, <2>1, <2>2, <2>3 DEF Requests
<1> QED
  BY <1>7, <1>8, <1>9 DEF Next

LEMMA NextCacheInv == IInv /\ CacheInv /\ [Next]_vars => CacheInv'
<1> SUFFICES ASSUME IInv, CacheInv, [Next]_vars PROVE CacheInv'
  OBVIOUS
<1>1. TasksGood /\ peeked \in BOOLEAN
  BY DEF IInv, Good
<1>2. ~peeked' => ~peeked /\ (cache' \in {NoSim, cache} \/ ~Simulating')
  <2>1. CASE Peek
    BY <2>1, Zenon DEF Peek
  <2>2. CASE UNCHANGED vars
    BY <2>2 DEF vars, objectVars
  <2> QED
    BY <2>1, <2>2 DEF Next
<1>3. ~peeked' /\ Simulating' => cache' = NoSim
  BY <1>1, <1>2, SimulatingGrows DEF CacheInv
<1>4. \/ UNCHANGED simulation /\ cache' \in {NoSim, cache, Cached(simulation, cache)}
      \/ \E t \in Tasks : AnswerSimulate(t)
  <2>1. CASE Network \/ Immediate \/ UNCHANGED vars
    BY <2>1
    DEF Network, Immediate, Authorize, AuthorizeFails, Sign, CacheAfterSign, Query, vars, objectVars
  <2>2. ASSUME NEW t \in Tasks, UserCalls(t)
        PROVE  UNCHANGED simulation /\ cache' \in {NoSim, cache, Cached(simulation, cache)}
    BY <2>2 DEF UserCalls, Simulate, Prepare, PrepareSignAndSubmit, SignAndSubmit,
                CacheAfterSign, Submit, objectVars
  <2>3. ASSUME NEW t \in Tasks, Requests(t), ~AnswerSimulate(t)
        PROVE  UNCHANGED simulation /\ cache' \in {NoSim, cache, Cached(simulation, cache)}
    BY <2>3
    DEF Requests, LoadAccount, RestoreLoadAccount, RestoreSimulate, RestoreSend, RestoreDone,
        RestoreGivesUp, ServerTakes, SendAnswered, GetTransaction, StillPending,
        RequestFails, objectVars
  <2> QED
    BY <2>1, <2>2, <2>3 DEF Next
<1>5. ~peeked' => cache' \in {NoSim, simulation'}
  <2> SUFFICES ASSUME ~peeked' PROVE cache' \in {NoSim, simulation'}
    OBVIOUS
  <2>1. CASE UNCHANGED simulation /\ cache' \in {NoSim, cache, Cached(simulation, cache)}
    BY <1>2, <2>1 DEF CacheInv, CacheIsEarned, Cached
  <2>2. ASSUME NEW t \in Tasks, AnswerSimulate(t)
        PROVE  cache' \in {NoSim, simulation'}
    <3>1. CacheAtAnswer(t) = NoSim
      <4>1. CASE call[t].op = "simulate"
        <5>1. Simulating
          BY <2>2, <4>1 DEF Simulating, AnswerSimulate
        <5> QED
          BY <1>2, <4>1, <5>1 DEF CacheInv, CacheAtAnswer
      <4>2. CASE call[t].op # "simulate"
        BY <4>2 DEF CacheAtAnswer
      <4> QED
        BY <4>1, <4>2
    <3>2. cache' \in {CacheAtAnswer(t), Cached(simulation', CacheAtAnswer(t))}
      BY <2>2 DEF AnswerSimulate, SimulationFails, SimulationNeedsRestore,
                  SimulationSucceeds
    <3> QED
      BY <3>1, <3>2 DEF Cached
  <2> QED
    BY <1>4, <2>1, <2>2
<1> QED
  BY <1>3, <1>5 DEF CacheInv, CacheIsEarned

-----------------------------------------------------------------------------
(* How often an invocation is sent.  As long as no two requests overlap and *)
(* every acceptance is heard of, the attribute sent and the one request that *)
(* may be under way tell which invocations the network ever took.            *)

InSend == {"send"} \cup Statuses

Once ==
  /\ \A t \in Tasks : pc[t] \in InSend =>
       /\ sent = NoSend
       /\ \A u \in Tasks : pc[u] \in InSend => u = t
       /\ Invocations = IF pc[t] = "PENDING" THEN {Hash(draft[t])} ELSE {}
  /\ ~Sending =>
       Invocations = IF sent # NoSend /\ sent.status = "PENDING" THEN {sent.hash} ELSE {}

OnceInv == Orderly => Once

(* What a step may do to all this. *)

SameInvocations == UNCHANGED sent /\ Invocations' = Invocations

\* Nothing.
Quiet ==
  /\ SameInvocations
  /\ \A u \in Tasks : pc[u] \in InSend \/ pc'[u] \in InSend =>
       pc'[u] = pc[u] /\ draft'[u] = draft[u]
  /\ Orderly' => Orderly

\* The task t sends.
Starts(t) ==
  /\ SameInvocations /\ OthersStay(t)
  /\ pc[t] \notin InSend /\ pc'[t] = "send" /\ sent = NoSend
  /\ Orderly' => Orderly /\ ~Sending

\* The request of t fails.
Leaves(t) ==
  /\ SameInvocations /\ OthersStay(t)
  /\ pc[t] \in InSend /\ pc'[t] = "idle"
  /\ Orderly' => Orderly /\ pc[t] \notin {"PENDING", "DUPLICATE"}

LEMMA StayQuiet ==
  ASSUME NEW t \in Tasks, OthersStay(t), pc[t] \notin InSend, pc'[t] \notin InSend,
         SameInvocations, Orderly' => Orderly
  PROVE  Quiet
  BY DEF OthersStay, Quiet

LEMMA SameAccepted == UNCHANGED accepted => Invocations' = Invocations
  BY DEF Invocations

\* A task that goes on with _submit() starts to send, or polls.
LEMMA SubmitKinds ==
  ASSUME NEW t \in Tasks, NEW b, OthersStay(t), pc[t] \notin InSend,
         pc'[t] = SubmitStep(b)[1], SendsNext(b), SameInvocations, UNCHANGED unheard
  PROVE  Quiet \/ Starts(t)
<1>1. Orderly' => Orderly
  BY DEF SendsNext, Orderly
<1>2. CASE sent = NoSend
  <2>1. SubmitStep(b)[1] = "send"
    BY <1>2 DEF SubmitStep
  <2>2. Orderly' => ~Sending
    BY <2>1 DEF SendsNext, Orderly
  <2> QED
    BY <1>1, <1>2, <2>1, <2>2 DEF Starts
<1>3. CASE sent # NoSend
  <2>1. SubmitStep(b)[1] = "poll"
    BY <1>3 DEF SubmitStep
  <2> QED
    BY <1>1, <2>1, StayQuiet DEF InSend, Statuses
<1> QED
  BY <1>2, <1>3

LEMMA UserKinds ==
  ASSUME Good, NEW t \in Tasks, UserCalls(t)
  PROVE  Quiet \/ Starts(t)
<1>0. "idle" \notin InSend /\ "load" \notin InSend /\ "simulate" \notin InSend
  BY DEF InSend, Statuses
<1>1. SameInvocations
  <2>1. UNCHANGED sent /\ UNCHANGED accepted
    BY DEF UserCalls, Simulate, Prepare, PrepareSignAndSubmit, SignAndSubmit, Submit,
           objectVars
  <2> QED
    BY <2>1, SameAccepted DEF SameInvocations
<1>2. TasksGood
  BY DEF Good
<1>3. ASSUME NEW op, NEW restore, NEW force, NEW p, NEW d, Begin(t, op, restore, force, p, d)
      PROVE  OthersStay(t) /\ pc[t] \notin InSend /\ pc'[t] = p
  BY <1>0, <1>2, <1>3, BeginMoves
<1>4. ASSUME NEW restore \in BOOLEAN, Simulate(t, restore) \/ Prepare(t, restore)
      PROVE  Quiet
  <2>1. OthersStay(t) /\ pc[t] \notin InSend /\ pc'[t] \in {"load", "simulate"}
    BY <1>3, <1>4 DEF Simulate, Prepare
  <2>2. Orderly' => Orderly
    BY <1>4 DEF Simulate, Prepare, Orderly
  <2> QED
    BY <1>0, <1>1, <2>1, <2>2, StayQuiet
<1>5. ASSUME NEW force \in BOOLEAN, PrepareSignAndSubmit(t, force)
      PROVE  Quiet
  <2>1. OthersStay(t) /\ pc[t] \notin InSend /\ pc'[t] = "simulate"
    BY <1>3, <1>5 DEF PrepareSignAndSubmit
  <2>2. Orderly' => Orderly
    BY <1>5 DEF PrepareSignAndSubmit, Orderly
  <2> QED
    BY <1>0, <1>1, <2>1, <2>2, StayQuiet
<1>6. ASSUME NEW force \in BOOLEAN, SignAndSubmit(t, force)
      PROVE  Quiet \/ Starts(t)
  <2> DEFINE b == [built EXCEPT !.signed = TRUE]
  <2>1. /\ Begin(t, "sign_and_submit", TRUE, force, SubmitStep(b)[1], SubmitStep(b)[2])
        /\ SendsNext(b) /\ UNCHANGED unheard
    BY <1>6 DEF SignAndSubmit
  <2> HIDE DEF b
  <2>2. OthersStay(t) /\ pc[t] \notin InSend /\ pc'[t] = SubmitStep(b)[1]
    BY <1>3, <2>1
  <2> QED
    BY <1>1, <2>1, <2>2, SubmitKinds
<1>7. CASE Submit(t)
  <2>1. /\ Begin(t, "submit", FALSE, FALSE, SubmitStep(built)[1], SubmitStep(built)[2])
        /\ SendsNext(built) /\ UNCHANGED unheard
    BY <1>7 DEF Submit
  <2>2. OthersStay(t) /\ pc[t] \notin InSend /\ pc'[t] = SubmitStep(built)[1]
    BY <1>3, <2>1
  <2> QED
    BY <1>1, <2>1, <2>2, SubmitKinds
<1> QED
  BY <1>4, <1>5, <1>6, <1>7 DEF UserCalls

\* A restore transaction is no invocation.
LEMMA RestoreIsNone ==
  ASSUME NEW d \in Tx, d.owner = RestoreOp, accepted' = accepted \cup {Hash(d)}
  PROVE  Invocations' = Invocations
<1>1. Hash(d).owner = RestoreOp /\ RestoreOp # Self
  BY HashFields, OwnersAssumption, SelfAssumption
<1> QED
  BY <1>1 DEF Invocations

LEMMA RequestKinds ==
  ASSUME Good, NEW t \in Tasks, Requests(t)
  PROVE  Quiet \/ Starts(t) \/ Leaves(t) \/ ServerTakes(t) \/ SendAnswered(t)
<1>1. TasksGood
  BY DEF Good
<1>2. /\ "idle" \notin InSend /\ "load" \notin InSend /\ "simulate" \notin InSend
      /\ "poll" \notin InSend /\ "restore_load" \notin InSend
      /\ "restore_simulate" \notin InSend /\ "restore_send" \notin InSend
      /\ "restore_poll" \notin InSend
  BY DEF InSend, Statuses
<1>3. ASSUME NEW how, Return(t, how)
      PROVE  OthersStay(t) /\ pc'[t] = "idle"
  BY <1>1, <1>3, ReturnMoves
<1>4. ASSUME NEW p, NEW d, Await(t, p, d)
      PROVE  OthersStay(t) /\ pc'[t] = p
  BY <1>1, <1>4, AwaitMoves
<1>5. UNCHANGED historyVars => (Orderly' => Orderly)
  BY DEF historyVars, Orderly
<1>6. UNCHANGED sent /\ UNCHANGED accepted => SameInvocations
  BY SameAccepted DEF SameInvocations
<1>7. CASE LoadAccount(t)
  <2>1. OthersStay(t) /\ pc'[t] = "simulate" /\ pc[t] = "load"
    BY <1>4, <1>7 DEF LoadAccount
  <2>2. SameInvocations /\ (Orderly' => Orderly)
    BY <1>5, <1>6, <1>7 DEF LoadAccount, objectVars
  <2> QED
    BY <1>2, <2>1, <2>2, StayQuiet
<1>8. CASE AnswerSimulate(t)
  <2>1. PICK sim \in SimulationAnswers :
          \/ SimulationFails(t, sim)
          \/ SimulationNeedsRestore(t, sim)
          \/ \E f \in ResourceFees : SimulationSucceeds(t, sim, f)
    BY <1>8, AskedType DEF AnswerSimulate
  <2>2. pc[t] = "simulate" /\ SameInvocations /\ UNCHANGED unheard
    BY <1>6, <1>8 DEF AnswerSimulate
  <2>3. UNCHANGED overlap => (Orderly' => Orderly)
    BY <2>2 DEF Orderly
  <2>4. CASE SimulationFails(t, sim)
    <3>1. OthersStay(t) /\ pc'[t] = "idle" /\ UNCHANGED overlap
      BY <1>3, <2>4 DEF SimulationFails
    <3> QED
      BY <1>2, <2>2, <2>3, <3>1, StayQuiet
  <2>5. CASE SimulationNeedsRestore(t, sim)
    <3>1. OthersStay(t) /\ pc'[t] \in {"idle", "restore_load"} /\ UNCHANGED overlap
      BY <1>3, <1>4, <2>5 DEF SimulationNeedsRestore
    <3> QED
      BY <1>2, <2>2, <2>3, <3>1, StayQuiet
  <2>6. ASSUME NEW f \in ResourceFees, SimulationSucceeds(t, sim, f)
        PROVE  Quiet \/ Starts(t)
    <3> DEFINE a == Assemble(draft[t], f)
               x == [a EXCEPT !.signed = /\ call[t].op = "sign_and_submit"
                                         /\ Signable(a, sim, NoSim, FALSE, call[t].force)]
    <3>1. \/ Await(t, SubmitStep(x)[1], SubmitStep(x)[2]) /\ SendsNext(x)
          \/ Return(t, "none") /\ UNCHANGED overlap
      BY <2>6 DEF SimulationSucceeds
    <3> HIDE DEF x
    <3>2. CASE Await(t, SubmitStep(x)[1], SubmitStep(x)[2]) /\ SendsNext(x)
      <4>1. OthersStay(t) /\ pc'[t] = SubmitStep(x)[1] /\ SendsNext(x)
        BY <1>4, <3>2
      <4> QED
        BY <1>2, <2>2, <4>1, SubmitKinds
    <3>3. CASE Return(t, "none") /\ UNCHANGED overlap
      <4>1. OthersStay(t) /\ pc'[t] = "idle"
        BY <1>3, <3>3
      <4> QED
        BY <1>2, <2>2, <2>3, <3>3, <4>1, StayQuiet
    <3> QED
      BY <3>1, <3>2, <3>3
  <2> QED
    BY <2>1, <2>4, <2>5, <2>6
<1>9. CASE RestoreLoadAccount(t) \/ RestoreSimulate(t)
  <2>1. /\ \/ Return(t, "none")
           \/ \E d : Await(t, "restore_simulate", d)
           \/ \E d : Await(t, "restore_send", d)
        /\ pc[t] \in {"restore_load", "restore_simulate"}
    BY <1>9, Zenon DEF RestoreLoadAccount, RestoreSimulate
  <2>2. OthersStay(t) /\ pc'[t] \in {"idle", "restore_simulate", "restore_send"}
    BY <1>3, <1>4, <2>1
  <2>3. SameInvocations /\ (Orderly' => Orderly)
    BY <1>5, <1>6, <1>9 DEF RestoreLoadAccount, RestoreSimulate, objectVars
  <2> QED
    BY <1>2, <2>1, <2>2, <2>3, StayQuiet
<1>10. CASE RestoreSend(t)
  <2>1. LocalGood("restore_send", draft[t])
    BY <1>1, <1>10, Zenon DEF TasksGood, RestoreSend
  <2>2. draft[t] \in Tx /\ draft[t].owner = RestoreOp
    BY <2>1 DEF LocalGood, Restoring
  <2>3. \/ Enqueue(draft[t]) /\ Await(t, "restore_poll", draft[t])
        \/ NotEnqueued /\ Return(t, "none")
    BY <1>10 DEF RestoreSend
  <2>4. OthersStay(t) /\ pc[t] = "restore_send" /\ pc'[t] \in {"idle", "restore_poll"}
    BY <1>3, <1>4, <1>10, <2>3 DEF RestoreSend
  <2>5. UNCHANGED sent /\ (Orderly' => Orderly)
    BY <1>5, <1>10 DEF RestoreSend, objectVars
  <2>6. Invocations' = Invocations
    BY <2>2, <2>3, RestoreIsNone, SameAccepted DEF Enqueue, NotEnqueued
  <2> QED
    BY <1>2, <2>4, <2>5, <2>6, StayQuiet DEF SameInvocations
<1>11. CASE RestoreDone(t)
  <2>1. /\ pc[t] = "restore_poll"
        /\ \/ Await(t, "load", NoTx)
           \/ Await(t, "simulate", ForSimulation(built))
           \/ Return(t, "none")
    BY <1>11 DEF RestoreDone
  <2>2. OthersStay(t) /\ pc'[t] \in {"idle", "load", "simulate"}
    BY <1>3, <1>4, <2>1
  <2>3. SameInvocations /\ (Orderly' => Orderly)
    BY <1>5, <1>6, <1>11 DEF RestoreDone
  <2> QED
    BY <1>2, <2>1, <2>2, <2>3, StayQuiet
<1>12. CASE RestoreGivesUp(t) \/ GetTransaction(t) \/ StillPending(t)
  <2>1. pc[t] \in {"restore_poll", "poll"} /\ \E how : Return(t, how)
    BY <1>12 DEF RestoreGivesUp, GetTransaction, StillPending
  <2>2. OthersStay(t) /\ pc'[t] = "idle"
    BY <1>3, <2>1
  <2>3. SameInvocations /\ (Orderly' => Orderly)
    BY <1>5, <1>6, <1>12 DEF RestoreGivesUp, GetTransaction, StillPending, objectVars
  <2> QED
    BY <1>2, <2>1, <2>2, <2>3, StayQuiet
<1>13. CASE RequestFails(t)
  <2>1. OthersStay(t) /\ pc'[t] = "idle"
    BY <1>3, <1>13 DEF RequestFails
  <2>2. SameInvocations
    BY <1>6, <1>13 DEF RequestFails, objectVars
  <2>3. Orderly' => Orderly /\ pc[t] \notin {"PENDING", "DUPLICATE"}
    BY <1>13 DEF RequestFails, Orderly
  <2> QED
    BY <1>2, <2>1, <2>2, <2>3, StayQuiet DEF Leaves
<1> QED
  BY <1>7, <1>8, <1>9, <1>10, <1>11, <1>12, <1>13 DEF Requests

LEMMA ImmediateKinds == Network \/ Immediate \/ UNCHANGED vars => Quiet
<1> SUFFICES ASSUME Network \/ Immediate \/ UNCHANGED vars PROVE Quiet
  OBVIOUS
<1>1. /\ UNCHANGED taskVars /\ UNCHANGED overlap /\ UNCHANGED unheard
      /\ UNCHANGED sent /\ UNCHANGED accepted
  BY DEF Network, LedgerApplies, PoolEvicts, StateArchives, Immediate, Authorize,
         AuthorizeFails, Sign, Query, vars, objectVars, historyVars
<1> QED
  BY <1>1, SameAccepted DEF Quiet, SameInvocations, Orderly, taskVars

LEMMA SendingInSend == Sending <=> \E t \in Tasks : pc[t] \in InSend
  BY DEF Sending, InSend

LEMMA QuietOnce == OnceInv /\ Quiet => OnceInv'
<1> SUFFICES ASSUME OnceInv, Quiet, Orderly' PROVE Once'
  BY DEF OnceInv
<1>1. Once /\ sent' = sent /\ Invocations' = Invocations
  BY DEF OnceInv, Quiet, SameInvocations
<1>2. \A u \in Tasks : pc[u] \in InSend \/ pc'[u] \in InSend =>
        pc'[u] = pc[u] /\ draft'[u] = draft[u]
  BY DEF Quiet
<1>3. Sending' <=> Sending
  BY <1>2 DEF Sending, InSend
<1>4. ASSUME NEW t \in Tasks, pc'[t] \in InSend
      PROVE  /\ sent' = NoSend
             /\ \A u \in Tasks : pc'[u] \in InSend => u = t
             /\ Invocations' = IF pc'[t] = "PENDING" THEN {Hash(draft'[t])} ELSE {}
  <2>1. pc[t] \in InSend /\ pc'[t] = pc[t] /\ draft'[t] = draft[t]
    BY <1>2, <1>4
  <2> QED
    BY <1>1, <1>2, <2>1 DEF Once
<1>5. Hash(draft)' = Hash(draft')
  BY DEF Hash
<1> QED
  BY <1>1, <1>3, <1>4 DEF Once

LEMMA StartsOnce == ASSUME OnceInv, NEW t \in Tasks, Starts(t) PROVE OnceInv'
<1> SUFFICES ASSUME Orderly' PROVE Once'
  BY DEF OnceInv
<1>1. /\ Once /\ ~Sending /\ sent = NoSend /\ sent' = sent /\ Invocations' = Invocations
      /\ pc'[t] = "send" /\ OthersStay(t)
  BY DEF OnceInv, Starts, SameInvocations
<1>2. Invocations' = {} /\ sent' = NoSend
  BY <1>1 DEF Once
<1>3. \A u \in Tasks : pc'[u] \in InSend => u = t
  BY <1>1, SendingInSend DEF OthersStay
<1>4. Sending'
  BY <1>1 DEF Sending
<1> QED
  BY <1>1, <1>2, <1>3, <1>4 DEF Once

LEMMA LeavesOnce == ASSUME OnceInv, NEW t \in Tasks, Leaves(t) PROVE OnceInv'
<1> SUFFICES ASSUME Orderly' PROVE Once'
  BY DEF OnceInv
<1>1. /\ Once /\ sent' = sent /\ Invocations' = Invocations
      /\ pc[t] \in InSend /\ pc[t] # "PENDING" /\ pc'[t] = "idle" /\ OthersStay(t)
  BY DEF OnceInv, Leaves, SameInvocations
<1>2. Invocations' = {} /\ sent' = NoSend /\ \A u \in Tasks : pc[u] \in InSend => u = t
  BY <1>1 DEF Once
<1>3. \A u \in Tasks : pc'[u] \notin InSend
  BY <1>1, <1>2 DEF OthersStay, InSend, Statuses
<1> QED
  BY <1>2, <1>3 DEF Once

LEMMA ServerTakesOnce == ASSUME Good, OnceInv, NEW t \in Tasks, ServerTakes(t) PROVE OnceInv'
<1> SUFFICES ASSUME Orderly' PROVE Once'
  BY DEF OnceInv
<1>1. Once /\ sent' = sent /\ pc[t] = "send" /\ TasksGood
  BY DEF Good, OnceInv, ServerTakes, objectVars, historyVars, Orderly
<1>2. PICK status \in SendStatuses(draft[t]) :
        /\ IF status = "PENDING" THEN Enqueue(draft[t]) ELSE NotEnqueued
        /\ Await(t, status, draft[t])
  BY DEF ServerTakes
<1>3. OthersStay(t) /\ pc'[t] = status /\ draft'[t] = draft[t] /\ status \in Statuses
  <2>1. status \in Statuses
    BY <1>2 DEF SendStatuses, Statuses
  <2> QED
    BY <1>1, <1>2, <2>1, AwaitMoves
<1>4. Invocations = {} /\ sent' = NoSend /\ \A u \in Tasks : pc[u] \in InSend => u = t
  BY <1>1 DEF Once, InSend
<1>5. LocalGood("send", draft[t])
  BY <1>1, Zenon DEF TasksGood
<1>6. draft[t] \in Tx /\ draft[t].owner = Self
  BY <1>5 DEF LocalGood
<1>7. Hash(draft[t]) \in Tx /\ Hash(draft[t]).owner = Self
  BY <1>6, HashFields
<1>8. Invocations' = IF pc'[t] = "PENDING" THEN {Hash(draft'[t])} ELSE {}
  <2>1. CASE status = "PENDING"
    <3>1. accepted' = accepted \cup {Hash(draft[t])}
      BY <1>2, <2>1 DEF Enqueue
    <3>2. Invocations' = Invocations \cup {Hash(draft[t])}
      BY <1>7, <3>1 DEF Invocations
    <3> QED
      BY <1>3, <1>4, <2>1, <3>2
  <2>2. CASE status # "PENDING"
    <3>1. Invocations' = Invocations
      BY <1>2, <2>2, SameAccepted DEF NotEnqueued
    <3> QED
      BY <1>3, <1>4, <2>2, <3>1
  <2> QED
    BY <2>1, <2>2
<1>9. Sending' /\ \A u \in Tasks : pc'[u] \in InSend => u = t
  BY <1>3, <1>4 DEF Sending, OthersStay
<1> QED
  BY <1>4, <1>8, <1>9 DEF Once

LEMMA SendAnsweredOnce ==
  ASSUME Good, OnceInv, NEW t \in Tasks, SendAnswered(t)
  PROVE  OnceInv'
<1> SUFFICES ASSUME Orderly' PROVE Once'
  BY DEF OnceInv
<1>1. Once /\ pc[t] \in Statuses /\ TasksGood /\ Invocations' = Invocations
  BY SameAccepted DEF Good, OnceInv, SendAnswered, historyVars, Orderly
<1>2. /\ Invocations = IF pc[t] = "PENDING" THEN {Hash(draft[t])} ELSE {}
      /\ \A u \in Tasks : pc[u] \in InSend => u = t
  BY <1>1 DEF Once, InSend
<1>3. LocalGood(pc[t], draft[t])
  BY <1>1, Zenon DEF TasksGood
<1>4. draft[t] \in Tx
  BY <1>1, <1>3 DEF LocalGood
<1>5. sent' = [hash |-> Hash(draft[t]), status |-> pc[t]] /\ Hash(draft[t]) \in Tx
  BY <1>4, HashFields DEF SendAnswered
<1>6. sent' # NoSend /\ sent'.hash = Hash(draft[t]) /\ sent'.status = pc[t]
  BY <1>1, <1>5, NoneAssumption DEF Send
<1>7. Await(t, "poll", Hash(draft[t])) \/ Return(t, "SendFailed")
  BY DEF SendAnswered
<1>8. OthersStay(t) /\ pc'[t] \in {"poll", "idle"}
  BY <1>1, <1>7, AwaitMoves, ReturnMoves
<1>9. \A u \in Tasks : pc'[u] \notin InSend
  BY <1>2, <1>8 DEF OthersStay, InSend, Statuses
<1> QED
  BY <1>1, <1>2, <1>6, <1>9 DEF Once

LEMMA NextOnce == Good /\ OnceInv /\ [Next]_vars => OnceInv'
<1> SUFFICES ASSUME Good, OnceInv, [Next]_vars PROVE OnceInv'
  OBVIOUS
<1>1. CASE Network \/ Immediate \/ UNCHANGED vars
  BY <1>1, ImmediateKinds, QuietOnce
<1>2. ASSUME NEW t \in Tasks, UserCalls(t)
      PROVE  OnceInv'
  BY <1>2, UserKinds, QuietOnce, StartsOnce
<1>3. ASSUME NEW t \in Tasks, Requests(t)
      PROVE  OnceInv'
  BY <1>3, RequestKinds, QuietOnce, StartsOnce, LeavesOnce, ServerTakesOnce, SendAnsweredOnce
<1> QED
  BY <1>1, <1>2, <1>3 DEF Next

-----------------------------------------------------------------------------
(* What submit() reports *)

Told ==
  \A t \in Tasks :
    /\ outcome[t] = "Success" => Invocations \cap succeeded # {}
    /\ outcome[t] = "Failed" => Invocations \cap failed # {}
    /\ outcome[t] = "SendFailed" /\ Orderly => sent # NoSend /\ sent.status # "PENDING"

\* Nothing that happened is undone.
LEMMA HistoryGrows ==
  ASSUME [Next]_vars
  PROVE  /\ succeeded \subseteq succeeded' /\ failed \subseteq failed'
         /\ Invocations \subseteq Invocations'
<1>1. CASE Network \/ UNCHANGED vars
  BY <1>1 DEF Network, LedgerApplies, PoolEvicts, StateArchives, Invocations, vars, networkVars
<1>2. CASE Immediate
  BY <1>2 DEF Immediate, Authorize, AuthorizeFails, Sign, Query, Invocations, networkVars
<1>3. ASSUME NEW t \in Tasks, UserCalls(t)
      PROVE  UNCHANGED <<succeeded, failed, accepted>>
  BY <1>3 DEF UserCalls, Simulate, Prepare, PrepareSignAndSubmit, SignAndSubmit, Submit,
              networkVars
<1>4. ASSUME NEW t \in Tasks, Requests(t)
      PROVE  UNCHANGED <<succeeded, failed>> /\ accepted \subseteq accepted'
  <2>1. CASE RestoreSend(t) \/ ServerTakes(t)
    BY <2>1 DEF RestoreSend, ServerTakes, Enqueue, NotEnqueued
  <2>2. CASE ~(RestoreSend(t) \/ ServerTakes(t))
    BY <1>4, <2>2
    DEF Requests, LoadAccount, AnswerSimulate, RestoreLoadAccount, RestoreSimulate, RestoreDone,
        RestoreGivesUp, SendAnswered, GetTransaction, StillPending, RequestFails, networkVars
  <2> QED
    BY <2>1, <2>2
<1> QED
  BY <1>1, <1>2, <1>3, <1>4 DEF Next, Invocations

\* Only a submit() that ends reports something.
Reports(t) == GetTransaction(t) \/ SendAnswered(t)

LEMMA OutcomeKinds ==
  ASSUME Good, [Next]_vars, NEW u \in Tasks, ~Reports(u)
  PROVE  outcome'[u] \in {outcome[u], "none"}
<1>1. TasksGood
  BY DEF Good
<1>2. CASE Network \/ Immediate \/ UNCHANGED vars
  BY <1>2 DEF Network, Immediate, Authorize, AuthorizeFails, Sign, Query, vars, taskVars
<1>3. ASSUME NEW t \in Tasks, t # u, OthersStay(t)
      PROVE  outcome'[u] = outcome[u]
  BY <1>3 DEF OthersStay
<1>4. ASSUME NEW t \in Tasks, NEW op, NEW restore, NEW force, NEW p, NEW d,
             Begin(t, op, restore, force, p, d)
      PROVE  outcome'[u] \in {outcome[u], "none"}
  BY <1>1, <1>3, <1>4, BeginMoves
<1>5. ASSUME NEW t \in Tasks, NEW p, NEW d, Await(t, p, d)
      PROVE  outcome'[u] \in {outcome[u], "none"}
  BY <1>1, <1>3, <1>5, AwaitMoves
<1>6. ASSUME NEW t \in Tasks, Return(t, "none")
      PROVE  outcome'[u] \in {outcome[u], "none"}
  BY <1>1, <1>3, <1>6, ReturnMoves
<1>7. ASSUME NEW t \in Tasks, NEW how, Return(t, how), t # u
      PROVE  outcome'[u] \in {outcome[u], "none"}
  BY <1>1, <1>3, <1>7, ReturnMoves
<1>8. ASSUME NEW t \in Tasks, UserCalls(t)
      PROVE  outcome'[u] \in {outcome[u], "none"}
  BY <1>4, <1>8
  DEF UserCalls, Simulate, Prepare, PrepareSignAndSubmit, SignAndSubmit, Submit
<1>9. ASSUME NEW t \in Tasks, Requests(t)
      PROVE  outcome'[u] \in {outcome[u], "none"}
  <2>1. CASE Reports(t)
    <3>1. t # u
      BY <2>1
    <3>2. (\E how : Return(t, how)) \/ (\E p, d : Await(t, p, d))
      BY <2>1 DEF Reports, GetTransaction, SendAnswered
    <3> QED
      BY <1>5, <1>7, <3>1, <3>2
  <2>2. CASE LoadAccount(t) \/ AnswerSimulate(t) \/ RestoreDone(t)
    <3>1. Return(t, "none") \/ (\E p, d : Await(t, p, d))
      BY <2>2 DEF LoadAccount, AnswerSimulate, SimulationFails, SimulationNeedsRestore,
                  SimulationSucceeds, RestoreDone
    <3> QED
      BY <1>5, <1>6, <3>1
  <2>3. CASE RestoreLoadAccount(t) \/ RestoreSimulate(t)
    <3>1. Return(t, "none") \/ (\E p, d : Await(t, p, d))
      BY <2>3, Zenon DEF RestoreLoadAccount, RestoreSimulate
    <3> QED
      BY <1>5, <1>6, <3>1
  <2>4. CASE RestoreSend(t) \/ ServerTakes(t)
    <3>1. Return(t, "none") \/ (\E p, d : Await(t, p, d))
      BY <2>4 DEF RestoreSend, ServerTakes
    <3> QED
      BY <1>5, <1>6, <3>1
  <2>5. CASE RestoreGivesUp(t) \/ StillPending(t) \/ RequestFails(t)
    BY <1>6, <2>5 DEF RestoreGivesUp, StillPending, RequestFails
  <2> QED
    BY <1>9, <2>1, <2>2, <2>3, <2>4, <2>5 DEF Requests, Reports
<1> QED
  BY <1>2, <1>8, <1>9 DEF Next

\* send_transaction_response is written by _submit() alone, and what happened behind
\* the object's back stays so.
LEMMA SentKinds ==
  ASSUME Good, [Next]_vars, Orderly'
  PROVE  Orderly /\ (UNCHANGED sent \/ \E t \in Tasks : SendAnswered(t))
<1>1. ASSUME NEW t \in Tasks, ServerTakes(t) \/ SendAnswered(t)
      PROVE  Orderly /\ (UNCHANGED sent \/ SendAnswered(t))
  BY <1>1 DEF ServerTakes, SendAnswered, historyVars, objectVars, Orderly
<1>2. ASSUME Quiet
      PROVE  Orderly /\ UNCHANGED sent
  BY <1>2 DEF Quiet, SameInvocations
<1>3. ASSUME NEW t \in Tasks, Starts(t) \/ Leaves(t)
      PROVE  Orderly /\ UNCHANGED sent
  BY <1>3 DEF Starts, Leaves, SameInvocations
<1>4. CASE Network \/ Immediate \/ UNCHANGED vars
  BY <1>2, <1>4, ImmediateKinds
<1>5. ASSUME NEW t \in Tasks, UserCalls(t)
      PROVE  Orderly /\ UNCHANGED sent
  BY <1>2, <1>3, <1>5, UserKinds
<1>6. ASSUME NEW t \in Tasks, Requests(t)
      PROVE  Orderly /\ (UNCHANGED sent \/ SendAnswered(t))
  BY <1>1, <1>2, <1>3, <1>6, RequestKinds
<1> QED
  BY <1>4, <1>5, <1>6 DEF Next

\* A task that reports, reports what it saw.
LEMMA ReportsTold ==
  ASSUME Good, NEW t \in Tasks, Reports(t)
  PROVE  \/ outcome'[t] = "Success" /\ Invocations \cap succeeded # {}
         \/ outcome'[t] = "Failed" /\ Invocations \cap failed # {}
         \/ outcome'[t] = "SendFailed" /\ sent' # NoSend /\ sent'.status # "PENDING"
         \/ outcome'[t] = outcome[t] /\ SendAnswered(t)
<1>1. TasksGood /\ pc[t] \in {"poll"} \cup Statuses /\ LocalGood(pc[t], draft[t])
  BY Zenon DEF Good, TasksGood, Reports, GetTransaction, SendAnswered
<1>2. draft[t] \in Tx /\ draft[t].owner = Self
  BY <1>1 DEF LocalGood
<1>3. CASE GetTransaction(t)
  <2>1. draft[t] \in succeeded \cup failed => draft[t] \in Invocations
    BY <1>2 DEF Good, AcceptedGood, Invocations
  <2>2. \/ draft[t] \in succeeded /\ outcome'[t] = "Success"
        \/ draft[t] \in failed /\ outcome'[t] = "Failed"
    BY <1>1, <1>3, ReturnMoves DEF GetTransaction
  <2> QED
    BY <2>1, <2>2
<1>4. CASE SendAnswered(t)
  <2>1. [hash |-> Hash(draft[t]), status |-> pc[t]] \in Send
    BY <1>2, <1>4, HashFields DEF Send, SendAnswered
  <2>2. sent' # NoSend /\ sent'.status = pc[t]
    BY <1>4, <2>1, NoneAssumption DEF SendAnswered
  <2>3. \/ pc[t] = "PENDING" /\ Await(t, "poll", Hash(draft[t]))
        \/ pc[t] # "PENDING" /\ Return(t, "SendFailed")
    BY <1>4 DEF SendAnswered
  <2> QED
    BY <1>1, <1>4, <2>2, <2>3, AwaitMoves, ReturnMoves
<1> QED
  BY <1>3, <1>4 DEF Reports

LEMMA NextTold == Good /\ OnceInv /\ Told /\ [Next]_vars => Told'
<1> SUFFICES ASSUME Good, OnceInv, Told, [Next]_vars, NEW u \in Tasks
             PROVE  /\ outcome'[u] = "Success" => Invocations' \cap succeeded' # {}
                    /\ outcome'[u] = "Failed" => Invocations' \cap failed' # {}
                    /\ outcome'[u] = "SendFailed" /\ Orderly' =>
                         sent' # NoSend /\ sent'.status # "PENDING"
  BY DEF Told
<1>1. /\ Invocations \cap succeeded # {} => Invocations' \cap succeeded' # {}
      /\ Invocations \cap failed # {} => Invocations' \cap failed' # {}
  BY HistoryGrows
<1>2. \/ outcome'[u] \in {outcome[u], "none"}
      \/ outcome'[u] = "Success" /\ Invocations \cap succeeded # {}
      \/ outcome'[u] = "Failed" /\ Invocations \cap failed # {}
      \/ outcome'[u] = "SendFailed" /\ sent' # NoSend /\ sent'.status # "PENDING"
  BY OutcomeKinds, ReportsTold
<1>3. ASSUME outcome[u] = "SendFailed", Orderly'
      PROVE  sent' # NoSend /\ sent'.status # "PENDING"
  <2>1. Once /\ sent # NoSend /\ sent.status # "PENDING"
    BY <1>3, SentKinds DEF OnceInv, Told
  <2>2. ASSUME NEW t \in Tasks, SendAnswered(t)
        PROVE  FALSE
    BY <2>1, <2>2 DEF Once, SendAnswered, InSend
  <2> QED
    BY <1>3, <2>1, <2>2, SentKinds
<1> QED
  BY <1>1, <1>2, <1>3 DEF Told

LEMMA InitHistory == Init => CacheInv /\ OnceInv /\ Told
<1> SUFFICES ASSUME Init PROVE CacheInv /\ OnceInv /\ Told
  OBVIOUS
<1>1. CacheInv
  BY DEF Init, CacheInv, CacheIsEarned
<1>2. \A t \in Tasks : pc[t] = "idle" /\ outcome[t] = "none"
  BY DEF Init
<1>3. Invocations = {} /\ sent = NoSend
  BY DEF Init, NetworkInit, Invocations
<1>4. OnceInv
  BY <1>2, <1>3 DEF OnceInv, Once, InSend, Statuses
<1>5. Told
  BY <1>2 DEF Told
<1> QED
  BY <1>1, <1>4, <1>5

\* What Once says of the invocations, whether a request is under way or not.
LEMMA OnceFacts ==
  ASSUME Once
  PROVE  /\ \A s, t \in Invocations : s = t
         /\ ~Sending /\ Invocations # {} => sent # NoSend /\ sent.hash \in Invocations
         /\ sent # NoSend /\ sent.status # "PENDING" => Invocations = {}
<1>1. CASE Sending
  <2>1. PICK t \in Tasks : pc[t] \in InSend
    BY <1>1, SendingInSend
  <2>2. sent = NoSend /\ Invocations = IF pc[t] = "PENDING" THEN {Hash(draft[t])} ELSE {}
    BY <2>1 DEF Once
  <2> QED
    BY <1>1, <2>2
<1>2. CASE ~Sending
  BY <1>2 DEF Once
<1> QED
  BY <1>1, <1>2

LEMMA ToldIsTrue == Good /\ OnceInv /\ Told => OutcomeIsTrue
<1> SUFFICES ASSUME Good, OnceInv, Told, NEW t \in Tasks
             PROVE  /\ outcome[t] = "Success" => Invocations \cap succeeded # {}
                    /\ outcome[t] = "Failed" /\ Orderly => Invocations \cap succeeded = {}
                    /\ outcome[t] = "SendFailed" /\ Orderly => Invocations = {}
  BY DEF OutcomeIsTrue
<1>1. succeeded \cap failed = {}
  BY DEF Good, AcceptedGood
<1>2. Orderly => \A s, u \in Invocations : s = u
  BY OnceFacts DEF OnceInv
<1>3. Orderly /\ sent # NoSend /\ sent.status # "PENDING" => Invocations = {}
  BY OnceFacts DEF OnceInv
<1>4. outcome[t] = "Failed" /\ Orderly => Invocations \cap succeeded = {}
  BY <1>1, <1>2 DEF Told
<1> QED
  BY <1>3, <1>4 DEF Told

-----------------------------------------------------------------------------
(* The promise to the tasks.  As long as nothing was sent behind the         *)
(* object's back, a step of this module is one of Invocation, or changes     *)
(* nothing that Invocation knows of.                                         *)

Promised == Good /\ OnceInv /\ Told

\* What the mapped variables are, with at most one invocation in the records.
Meaning ==
  /\ Invocations = {} => Stage = "unsent"
  /\ \A i \in Invocations :
       /\ i \in succeeded => Stage = "succeeded"
       /\ i \in failed => Stage = "failed"
       /\ i \notin succeeded \cup failed => Stage = "accepted"
  /\ \A t \in Tasks :
       /\ outcome[t] \in Outcomes
       /\ outcome[t] = "SendFailed" => Stage = "unsent"
       /\ outcome[t] = "Success" => Stage = "succeeded"
       /\ outcome[t] = "Failed" => Stage = "failed"

LEMMA PromisedMeans == Promised /\ Orderly => Meaning
<1> SUFFICES ASSUME Promised, Orderly PROVE Meaning
  OBVIOUS
<1>1. /\ \A i, j \in Invocations : i = j
      /\ succeeded \cap failed = {}
  BY OnceFacts DEF Promised, OnceInv, Good, AcceptedGood
<1>2. Invocations = {} => Stage = "unsent"
  BY DEF Stage
<1>3. ASSUME NEW i \in Invocations
      PROVE  /\ i \in succeeded => Stage = "succeeded"
             /\ i \in failed => Stage = "failed"
             /\ i \notin succeeded \cup failed => Stage = "accepted"
  <2>1. Invocations = {i} /\ ~(i \in succeeded /\ i \in failed)
    BY <1>1
  <2> QED
    BY <2>1 DEF Stage
<1>4. ASSUME NEW t \in Tasks
      PROVE  /\ outcome[t] \in Outcomes
             /\ outcome[t] = "SendFailed" => Stage = "unsent"
             /\ outcome[t] = "Success" => Stage = "succeeded"
             /\ outcome[t] = "Failed" => Stage = "failed"
  <2>1. outcome[t] \in Outcomes
    BY DEF Promised, Good, TasksGood
  <2>2. /\ outcome[t] = "SendFailed" => Invocations = {}
        /\ outcome[t] = "Success" => \E i \in Invocations : i \in succeeded
        /\ outcome[t] = "Failed" => \E i \in Invocations : i \in failed
    BY ToldIsTrue DEF Promised, Told, OutcomeIsTrue
  <2> QED
    BY <1>2, <1>3, <2>1, <2>2
<1> QED
  BY <1>2, <1>3, <1>4 DEF Meaning

\* A step of one task leaves the other ones alone.
LEMMA Alone ==
  ASSUME Good, NEW t \in Tasks, Requests(t) \/ UserCalls(t)
  PROVE  OthersStay(t)
<1>1. TasksGood
  BY DEF Good
<1>2. CASE UserCalls(t)
  <2>1. \E op, restore, force, p, d : Begin(t, op, restore, force, p, d)
    BY <1>2 DEF UserCalls, Simulate, Prepare, PrepareSignAndSubmit, SignAndSubmit, Submit
  <2> QED
    BY <1>1, <2>1, BeginMoves
<1>3. CASE Requests(t)
  <2>1. CASE LoadAccount(t) \/ AnswerSimulate(t) \/ RestoreDone(t)
    <3>1. (\E how : Return(t, how)) \/ (\E p, d : Await(t, p, d))
      BY <2>1 DEF LoadAccount, AnswerSimulate, SimulationFails, SimulationNeedsRestore,
                  SimulationSucceeds, RestoreDone
    <3> QED
      BY <1>1, <3>1, AwaitMoves, ReturnMoves
  <2>2. CASE RestoreLoadAccount(t) \/ RestoreSimulate(t)
    <3>1. (\E how : Return(t, how)) \/ (\E p, d : Await(t, p, d))
      BY <2>2, Zenon DEF RestoreLoadAccount, RestoreSimulate
    <3> QED
      BY <1>1, <3>1, AwaitMoves, ReturnMoves
  <2>3. CASE RestoreSend(t) \/ ServerTakes(t) \/ SendAnswered(t) \/ GetTransaction(t)
    <3>1. (\E how : Return(t, how)) \/ (\E p, d : Await(t, p, d))
      BY <2>3 DEF RestoreSend, ServerTakes, SendAnswered, GetTransaction
    <3> QED
      BY <1>1, <3>1, AwaitMoves, ReturnMoves
  <2>4. CASE RestoreGivesUp(t) \/ StillPending(t) \/ RequestFails(t)
    BY <1>1, <2>4, ReturnMoves DEF RestoreGivesUp, StillPending, RequestFails
  <2> QED
    BY <1>3, <2>1, <2>2, <2>3, <2>4 DEF Requests
<1> QED
  BY <1>2, <1>3

\* Tasks do not settle anything, and only the server's taking a request invokes.
LEMMA TasksOnlySend ==
  ASSUME Good, NEW t \in Tasks, Requests(t) \/ UserCalls(t)
  PROVE  UNCHANGED <<succeeded, failed>> /\ (Invocations' = Invocations \/ ServerTakes(t))
<1>1. UNCHANGED <<succeeded, failed>>
  <2>1. CASE UserCalls(t)
    BY <2>1 DEF UserCalls, Simulate, Prepare, PrepareSignAndSubmit, SignAndSubmit, Submit,
                networkVars
  <2>2. CASE Requests(t)
    BY <2>2
    DEF Requests, LoadAccount, AnswerSimulate, RestoreLoadAccount, RestoreSimulate, RestoreSend,
        RestoreDone, RestoreGivesUp, ServerTakes, SendAnswered, GetTransaction, StillPending,
        RequestFails, networkVars
  <2> QED
    BY <2>1, <2>2
<1>2. ASSUME SendAnswered(t)
      PROVE  Invocations' = Invocations
  BY <1>2, SameAccepted DEF SendAnswered
<1>3. Quiet \/ Starts(t) \/ Leaves(t) => Invocations' = Invocations
  BY DEF Quiet, Starts, Leaves, SameInvocations
<1> QED
  BY <1>1, <1>2, <1>3, UserKinds, RequestKinds

stageBar == [o \in {Self} |-> Stage]

\* The network takes the invocation before any task was told how it ended.
LEMMA TakenAccepts ==
  ASSUME Promised, Meaning, Meaning', Orderly, NEW t \in Tasks, ServerTakes(t),
         Invocations' # Invocations
  PROVE  Promise!Accept(Self)
<1>1. Once /\ pc[t] = "send" /\ TasksGood
  BY DEF Promised, Good, OnceInv, ServerTakes
<1>2. Invocations = {} /\ sent = NoSend
  BY <1>1 DEF Once, InSend
<1>3. UNCHANGED <<outcome, succeeded, failed>>
  BY DEF ServerTakes, Await
<1>4. accepted' = accepted \cup {Hash(draft[t])}
  BY SameAccepted DEF ServerTakes, Enqueue, NotEnqueued
<1>5. PICK i \in Invocations' : i \notin accepted
  BY <1>2, <1>4 DEF Invocations
<1>6. i \notin succeeded' \cup failed'
  BY <1>3, <1>5 DEF Promised, Good, AcceptedGood
<1>7. Stage = "unsent" /\ Stage' = "accepted"
  BY <1>2, <1>5, <1>6 DEF Meaning
<1>8. \A u \in Tasks : outcome[u] = "none"
  <2>1. ASSUME NEW u \in Tasks
        PROVE  outcome[u] \notin {"Success", "Failed", "SendFailed"}
    BY <1>2 DEF Promised, Told
  <2> QED
    BY <2>1 DEF Meaning, Outcomes
<1>9. stageBar[Self] = "unsent" /\ stageBar' = [stageBar EXCEPT ![Self] = "accepted"]
  BY <1>7 DEF stageBar
<1> QED
  BY <1>3, <1>8, <1>9 DEF Promise!Accept, stageBar

\* Every other step of a task tells that task something that is so, or nothing.
LEMMA OthersTell ==
  ASSUME Good, Good', Meaning', NEW t \in Tasks, Requests(t) \/ UserCalls(t),
         Invocations' = Invocations
  PROVE  Promise!Tell(t)
<1>1. Stage' = Stage /\ stageBar' = stageBar
  <2>1. Stage' = Stage
    BY TasksOnlySend DEF Stage
  <2> QED
    BY <2>1 DEF stageBar
<1>2. outcome' = [outcome EXCEPT ![t] = outcome'[t]]
  <2>1. outcome \in [Tasks -> Outcomes] /\ outcome' \in [Tasks -> Outcomes]
    BY DEF Good, TasksGood
  <2>2. \A u \in Tasks : u # t => outcome'[u] = outcome[u]
    BY Alone DEF OthersStay
  <2> QED
    BY <2>1, <2>2
<1>3. /\ outcome'[t] \in Outcomes
      /\ outcome'[t] = "SendFailed" => Stage = "unsent"
      /\ outcome'[t] = "Success" => Stage = "succeeded"
      /\ outcome'[t] = "Failed" => Stage = "failed"
  BY <1>1 DEF Meaning
<1>4. stageBar[[u \in Tasks |-> Self][t]] = Stage
  BY DEF stageBar
<1> QED
  BY <1>1, <1>2, <1>3, <1>4 DEF Promise!Tell, Promise!Reports, Outcomes, stageBar

\* The network settles the invocation, or does nothing a task can see.
LEMMA NetworkSettles ==
  ASSUME Good, Meaning, Meaning', Network
  PROVE  UNCHANGED <<Stage, outcome>> \/ Promise!Settle(Self)
<1>1. UNCHANGED outcome /\ Invocations' = Invocations
  BY SameAccepted DEF Network, LedgerApplies, PoolEvicts, StateArchives, taskVars
<1>2. CASE UNCHANGED <<succeeded, failed>>
  BY <1>1, <1>2 DEF Stage
<1>3. CASE LedgerApplies
  <2>1. pool \notin succeeded \cup failed
    <3>1. pool \in Tx /\ pool.seq = account + 1 /\ account \in Nat
      BY <1>3 DEF Good, NetworkGood, LedgerApplies, Live
    <3>2. \A i \in succeeded \cup failed : i \in Tx /\ i.seq \in Nat /\ i.seq <= account
      BY DEF Good, NetworkGood, AcceptedGood, Tx
    <3> QED
      BY <3>1, <3>2
  <2>2. \/ succeeded' = succeeded \cup {pool} /\ failed' = failed
        \/ succeeded' = succeeded /\ failed' = failed \cup {pool}
    BY <1>3 DEF LedgerApplies
  <2>3. CASE pool \in Invocations
    <3>1. Stage = "accepted" /\ Stage' \in {"succeeded", "failed"}
      BY <1>1, <2>1, <2>2, <2>3 DEF Meaning
    <3>2. stageBar[Self] = "accepted" /\ stageBar' = [stageBar EXCEPT ![Self] = Stage']
      BY <3>1 DEF stageBar
    <3> QED
      BY <1>1, <3>1, <3>2 DEF Promise!Settle, stageBar
  <2>4. CASE pool \notin Invocations
    <3>1. /\ Invocations' \cap succeeded' = Invocations \cap succeeded
          /\ Invocations' \cap (failed' \ succeeded') = Invocations \cap (failed \ succeeded)
          /\ Invocations' \cap (succeeded' \cup failed') = Invocations \cap (succeeded \cup failed)
      BY <1>1, <2>2, <2>4
    <3> QED
      BY <1>1, <3>1 DEF Stage
  <2> QED
    BY <2>3, <2>4
<1> QED
  BY <1>2, <1>3 DEF Network, PoolEvicts, StateArchives

LEMMA NextPromised == Promised /\ [Next]_vars => Promised'
  BY NextGood, NextOnce, NextTold DEF Promised

LEMMA NextPromises ==
  ASSUME Promised, Promised', Orderly => Meaning, Orderly' => Meaning', [Next]_vars, Orderly'
  PROVE  Promise!Next \/ UNCHANGED <<Stage, outcome>>
<1>1. Good /\ Orderly /\ Meaning /\ Meaning'
  BY SentKinds DEF Promised
<1>2. CASE Network
  BY <1>1, <1>2, NetworkSettles DEF Promise!Next
<1>3. CASE Immediate \/ UNCHANGED vars
  BY <1>3 DEF Immediate, Authorize, AuthorizeFails, Sign, Query, Stage, Invocations, vars, taskVars, networkVars
<1>4. ASSUME NEW t \in Tasks, Requests(t) \/ UserCalls(t)
      PROVE  Promise!Next
  <2>1. CASE Invocations' = Invocations
    BY <1>1, <1>4, <2>1, OthersTell DEF Promised, Promise!Next
  <2>2. CASE Invocations' # Invocations
    <3>1. ServerTakes(t)
      BY <1>1, <1>4, <2>2, TasksOnlySend
    <3> QED
      BY <1>1, <2>2, <3>1, TakenAccepts DEF Promise!Next
  <2> QED
    BY <2>1, <2>2
<1> QED
  BY <1>2, <1>3, <1>4 DEF Next

-----------------------------------------------------------------------------
(* The theorems *)

\* Whatever the event loop interleaves and wherever a coroutine is cancelled, each
\* coroutine's locals fit the request it awaits, and the attributes fit each other:
\* the fee of built_transaction is accounted for, its entries are all there, and
\* without _needs_preparation it is prepared for the contract signatures it
\* carries, but for those an authorize() that raised has replaced half way.
THEOREM AsyncInvariant == Spec => []IInv
<1> QED
  BY InitGood, NextIInv, PTL DEF Spec

\* The locals of every task, the attributes and the network stay well formed.
THEOREM AsyncTypeCorrect == Spec => []TypeOK
<1>1. IInv => TypeOK
  BY DEF IInv, Good, TasksGood, ObjectGood, HistoryGood, NetworkGood, TypeOK
<1> QED
  BY <1>1, AsyncInvariant, PTL

\* built_transaction is without _needs_preparation only if its resources were computed
\* with the contract signatures it carries, but for those that an authorize() that
\* raised half way has replaced (_authorize_entries marks it only at its end).
THEOREM AsyncFlagIsHonest == Spec => []FlagIsHonest
<1>1. IInv => FlagIsHonest
  BY DEF IInv, Good, ObjectGood, BuiltGood, Fit, FlagIsHonest
<1> QED
  BY <1>1, AsyncInvariant, PTL

\* No interleaving puts an invocation into the network that lacks an authorization
\* or was priced before a contract signature it carries, but for the signatures that
\* an authorize() that raised half way has replaced.
THEOREM AsyncAcceptedIsReady == Spec => []AcceptedIsReady
<1>1. IInv => AcceptedIsReady
  BY DEF IInv, Good, AcceptedGood, Ready, AcceptedIsReady
<1> QED
  BY <1>1, AsyncInvariant, PTL

\* The cached result is that of the latest simulation, unless somebody looked at it
\* while a simulate() awaited its answer: the cache is emptied before the requests.
THEOREM AsyncCacheIsEarned == Spec => []CacheIsEarned
<1>1. Init => IInv /\ CacheInv
  BY InitGood, InitHistory
<1>2. (IInv /\ CacheInv) /\ [Next]_vars => (IInv /\ CacheInv)'
  BY NextIInv, NextCacheInv
<1>3. CacheInv => CacheIsEarned
  BY DEF CacheInv
<1> QED
  BY <1>1, <1>2, <1>3, PTL DEF Spec

\* As long as no two sends overlap and every acceptance is heard of, the attribute
\* send_transaction_response and the one request that may be under way account for
\* every invocation that the network took (_submit()).
THEOREM AsyncOnce == Spec => [](Good /\ OnceInv)
<1>1. Init => Good /\ OnceInv
  BY InitGood, InitHistory DEF IInv
<1>2. (Good /\ OnceInv) /\ [Next]_vars => (Good /\ OnceInv)'
  BY NextGood, NextOnce
<1> QED
  BY <1>1, <1>2, PTL DEF Spec

\* Re-simulating, preparing, signing and cancelling next to a submit() lead to no
\* second invocation.
THEOREM AsyncAtMostOneInvocation == Spec => []AtMostOneInvocation
<1>1. Good /\ OnceInv => AtMostOneInvocation
  BY OnceFacts DEF OnceInv, AtMostOneInvocation
<1> QED
  BY <1>1, AsyncOnce, PTL

\* Once no request is under way, the next submit() polls for the invocation that the
\* network took.
THEOREM AsyncFindable == Spec => []Findable
<1>1. Good /\ OnceInv => Findable
  BY OnceFacts DEF OnceInv, Findable
<1> QED
  BY <1>1, AsyncOnce, PTL

\* What a submit() reports is what happened to the object's invocation, whatever the
\* other tasks did to built_transaction while it waited.
THEOREM AsyncOutcomeIsTrue == Spec => []OutcomeIsTrue
<1>1. Init => Told
  BY InitHistory
<1>2. (Good /\ OnceInv) /\ Told /\ [Next]_vars => Told'
  BY NextTold
<1>3. (Good /\ OnceInv) /\ Told => OutcomeIsTrue
  BY ToldIsTrue
<1> QED
  BY <1>1, <1>2, <1>3, AsyncOnce, PTL DEF Spec

\* Until two sends overlap or an acceptance goes unheard, the tasks that share the
\* object are promised what Invocation promises, for any number of tasks: accepted at
\* most once, never after a task was told of an end, and every report true and final
\* (_submit() in assembled_transaction_async.py).
THEOREM AsyncPromiseKept == Spec => OrderlyKeepsPromise
<1>1. Init => Promise!Init
  BY DEF Init, NetworkInit, Promise!Init, Stage, Invocations
<1>2. Init => Promised
  BY InitGood, InitHistory DEF IInv, Promised
<1>3. Promised /\ [Next]_vars => Promised'
  BY NextPromised
<1>4. Promised => (Orderly => Meaning)
  BY PromisedMeans
<1>5. Promised /\ Promised' /\ (Orderly => Meaning) /\ (Orderly => Meaning)' /\ [Next]_vars
        => [Orderly' => Promise!Next]_<<Stage, outcome>>
  BY NextPromises
<1> QED
  BY <1>1, <1>2, <1>3, <1>4, <1>5, PTL DEF Spec, OrderlyKeepsPromise

=============================================================================
