--------------------- MODULE AssembledTransactionProofs ---------------------
(***************************************************************************)
(* Proofs about AssembledTransaction, for every value of its constants:    *)
(* its types, the safety properties that stand on them, and that it        *)
(* implements Invocation if no reply of sendTransaction is lost: every     *)
(* step maps to one step of Invocation, by one object, or to none.         *)
(***************************************************************************)
EXTENDS AssembledTransaction, StellarNetworkProofs, FiniteSetTheorems

-----------------------------------------------------------------------------
(* Types.  A request of a call finds the locals of that call: the type of   *)
(* the attributes alone is not inductive.                                   *)

Restoring == {"restore_simulate", "restore_send", "restore_poll"}

Locals ==
  \A c \in Clients :
    /\ pc[c] \in {"simulate"} \cup Restoring => draft[c] \in Tx
    /\ pc[c] = "simulate" => draft[c].owner = c
    /\ pc[c] \in Restoring => draft[c].owner = RestoreOp
    /\ pc[c] # "idle" /\ call[c].op \in {"prepare", "sign_and_submit"} => built[c] # NoTx
    /\ pc[c] = "send" => built[c] # NoTx /\ sent[c] = NoSend
    /\ pc[c] = "poll" => sent[c] # NoSend
    /\ built[c] # NoTx => built[c].owner = c
    /\ sent[c] # NoSend => sent[c].hash.owner = c

TypeInv == TypeOK /\ Locals

LEMMA InitTypeInv == Init => TypeInv
  BY DEF Init, NetworkInit, TypeInv, TypeOK, Locals, Restoring, Requested, Outcomes, Calls, NoCall

LEMMA NextTypeInv == TypeInv /\ [Next]_vars => TypeInv'
<1> SUFFICES ASSUME TypeInv, [Next]_vars PROVE TypeInv'
  OBVIOUS
<1> USE DEF TypeInv, TypeOK, Locals, Restoring, Requested, Outcomes
<1>1. CASE Network
  <2>1. UNCHANGED <<clientVars, historyVars>>
    BY <1>1 DEF Network, Apply, LedgerApplies, Evict, PoolEvicts, OtherWalletSpends, WalletSpends, Archive, StateArchives, historyVars
  <2>2. /\ UNCHANGED <<pc, call, draft, outcome, built, simulation, cache, needsPrep, sent>>
        /\ UNCHANGED <<accepted, lost, restored>>
    BY <2>1 DEF clientVars, historyVars
  <2>3. account' \in Nat
    BY <1>1 DEF Network, Apply, LedgerApplies, Evict, PoolEvicts, OtherWalletSpends, WalletSpends, Archive, StateArchives
  <2>4. pool' \in Tx \cup {NoTx}
    BY <1>1 DEF Network, Apply, LedgerApplies, Evict, PoolEvicts, OtherWalletSpends, WalletSpends, Archive, StateArchives
  <2>5. archived' \in BOOLEAN
    BY <1>1 DEF Network, Apply, LedgerApplies, Evict, PoolEvicts, OtherWalletSpends, WalletSpends, Archive, StateArchives
  <2>6. succeeded' \subseteq Tx /\ failed' \subseteq Tx
    BY <1>1 DEF Network, Apply, LedgerApplies, Evict, PoolEvicts, OtherWalletSpends, WalletSpends, Archive, StateArchives
  <2> QED
    BY <2>2, <2>3, <2>4, <2>5, <2>6
<1>2. CASE UNCHANGED vars
  BY <1>2 DEF vars, clientVars, networkVars, historyVars
<1>3. ASSUME NEW c \in Clients, UserCalls(c)
      PROVE  TypeInv'
  <2>1. ASSUME NEW restore \in BOOLEAN, Simulate(c, restore)
        PROVE  TypeInv'
    BY <2>1 DEF Simulate, Begin, Calls, networkVars
  <2>2. ASSUME NEW restore \in BOOLEAN, Prepare(c, restore)
        PROVE  TypeInv'
    BY <2>2, ForSimulationFields DEF Prepare, Preparable, Begin, Calls, networkVars
  <2>3. ASSUME NEW force \in BOOLEAN, PrepareSignAndSubmit(c, force)
        PROVE  TypeInv'
    BY <2>3, ForSimulationFields DEF PrepareSignAndSubmit, Preparable, Begin, Calls, networkVars
  <2>4. ASSUME NEW force \in BOOLEAN, Sign(c, force)
        PROVE  TypeInv'
    <3> DEFINE t == [built[c] EXCEPT !.signed = TRUE]
    <3>0. built[c] \in Tx /\ built[c] # NoTx /\ built[c].owner = c
      BY <2>4 DEF Sign, Signable
    <3>1. t \in Tx /\ t.owner = c /\ built' = [built EXCEPT ![c] = t]
      BY <2>4, <3>0, SignedFields DEF Sign
    <3>2. cache' \in [Clients -> Simulation \cup {NoSim}]
      BY <2>4 DEF Sign, CacheAfterSign, Cached
    <3>3. outcome' = [outcome EXCEPT ![c] = "none"]
      BY <2>4 DEF Sign
    <3>4. UNCHANGED <<pc, call, draft, simulation, needsPrep, sent, networkVars, historyVars>>
      BY <2>4 DEF Sign
    <3> HIDE DEF t
    <3> QED
      BY <3>0, <3>1, <3>2, <3>3, <3>4, NoneAssumption, NoTxAssumption DEF networkVars, historyVars
  <2>5. ASSUME NEW force \in BOOLEAN, SignAndSubmit(c, force)
        PROVE  TypeInv'
    <3> DEFINE t == [built[c] EXCEPT !.signed = TRUE]
    <3>0. built[c] \in Tx /\ built[c] # NoTx /\ built[c].owner = c
      BY <2>5 DEF SignAndSubmit, Signable
    <3>1. t \in Tx /\ t.owner = c /\ built' = [built EXCEPT ![c] = t]
      BY <2>5, <3>0, SignedFields DEF SignAndSubmit
    <3>2. cache' \in [Clients -> Simulation \cup {NoSim}]
      BY <2>5 DEF SignAndSubmit, CacheAfterSign, Cached
    <3>3. Begin(c, "sign_and_submit", TRUE, force, SubmitRequest(c), NoTx)
      BY <2>5 DEF SignAndSubmit
    <3>4. UNCHANGED <<simulation, needsPrep, sent, networkVars, accepted, lost>>
      BY <2>5 DEF SignAndSubmit
    <3> HIDE DEF t
    <3> QED
      BY <3>0, <3>1, <3>2, <3>3, <3>4, NoneAssumption, NoTxAssumption DEF Begin, SubmitRequest, Calls, networkVars
  <2>6. ASSUME NEW a \in Addrs, Authorize(c, a) \/ AuthorizeFails(c, a)
        PROVE  TypeInv'
    <3>1. /\ built[c] \in Tx /\ built[c] # NoTx
          /\ a \in built[c].unsigned \cup built[c].authorized
      BY <2>6 DEF Authorize, AuthorizeFails, Authorizable
    <3>2. PICK t \in Tx : t.owner = built[c].owner /\ built' = [built EXCEPT ![c] = t]
      <4> HIDE DEF TypeInv, TypeOK, Locals, Restoring, Requested, Outcomes
      <4>1. CASE Authorize(c, a)
        BY <3>1, <4>1, SignEntriesFields DEF Authorize
      <4>2. CASE AuthorizeFails(c, a)
        BY <3>1, <4>2, SignSomeEntriesFields DEF AuthorizeFails
      <4> QED
        BY <2>6, <4>1, <4>2
    <3>3. needsPrep' \in [Clients -> BOOLEAN]
      <4>1. (needsPrep[c] \/ a \in ContractAddrs) \in BOOLEAN
        OBVIOUS
      <4>2. CASE Authorize(c, a)
        BY <4>1, <4>2 DEF Authorize
      <4>3. CASE AuthorizeFails(c, a)
        BY <4>3 DEF AuthorizeFails
      <4> QED
        BY <2>6, <4>2, <4>3
    <3>4. outcome' = [outcome EXCEPT ![c] = "none"]
      BY <2>6 DEF Authorize, AuthorizeFails
    <3>5. UNCHANGED <<pc, call, draft, simulation, cache, sent, networkVars, historyVars>>
      BY <2>6 DEF Authorize, AuthorizeFails
    <3> QED
      BY <3>1, <3>2, <3>3, <3>4, <3>5, NoneAssumption, NoTxAssumption DEF networkVars, historyVars
  <2>7. CASE RestoreFootprint(c)
    BY <2>7 DEF RestoreFootprint, Begin, Calls, networkVars
  <2>8. CASE Submit(c)
    BY <2>8 DEF Submit, SubmitRequest, Begin, Calls, networkVars
  <2>9. CASE Query(c)
    BY <2>9 DEF Query, Cached, networkVars, historyVars
  <2> QED
    BY <1>3, <2>1, <2>2, <2>3, <2>4, <2>5, <2>6, <2>7, <2>8, <2>9 DEF UserCalls
<1>4. ASSUME NEW c \in Clients, Requests(c)
      PROVE  TypeInv'
  <2>0. NoCall \in Calls
    BY DEF NoCall, Calls
  <2>1. CASE LoadAccount(c)
    <3>1. account + 1 \in Nat /\ 0 \in Nat
      OBVIOUS
    <3> QED
      BY <2>1, <3>1, BuildFields DEF LoadAccount, Await, networkVars, historyVars
  <2>2. CASE AnswerSimulate(c)
    <3>1. PICK sim \in SimulationAnswers :
            /\ simulation' = [simulation EXCEPT ![c] = sim]
            /\ \/ SimulationFails(c, sim)
               \/ SimulationNeedsRestore(c, sim)
               \/ \E f \in ResourceFees : SimulationSucceeds(c, sim, f)
      BY <2>2, AskedType DEF AnswerSimulate
    <3>2. sim \in Simulation
      BY <3>1 DEF SimulationAnswers, Simulation
    <3>3. UNCHANGED <<sent, networkVars, historyVars>>
      BY <2>2 DEF AnswerSimulate
    <3>4. simulation' \in [Clients -> Simulation \cup {NoSim}]
      BY <3>1, <3>2
    <3>5. cache' \in [Clients -> Simulation \cup {NoSim}]
      <4>1. /\ CacheAtAnswer(c) \in Simulation \cup {NoSim}
            /\ Cached(sim, CacheAtAnswer(c)) \in Simulation \cup {NoSim}
        BY <3>2 DEF CacheAtAnswer, Cached
      <4>2. \/ cache' = [cache EXCEPT ![c] = CacheAtAnswer(c)]
            \/ cache' = [cache EXCEPT ![c] = Cached(sim, CacheAtAnswer(c))]
        BY <3>1 DEF SimulationFails, SimulationNeedsRestore, SimulationSucceeds
      <4> QED
        BY <4>1, <4>2
    <3>6. CASE SimulationFails(c, sim)
      BY <2>0, <3>3, <3>4, <3>5, <3>6 DEF SimulationFails, Return, networkVars, historyVars
    <3>7. CASE SimulationNeedsRestore(c, sim)
      BY <2>0, <2>2, <3>3, <3>4, <3>5, <3>7
      DEF AnswerSimulate, SimulationNeedsRestore, Await, Return, networkVars, historyVars
    <3>8. ASSUME NEW f \in ResourceFees, SimulationSucceeds(c, sim, f)
          PROVE  TypeInv'
      <4> DEFINE a == Assemble(draft[c], f)
                 signs == /\ call[c].op = "sign_and_submit"
                          /\ Signable(a, sim, NoSim, FALSE, call[c].force)
                 t == [a EXCEPT !.signed = signs]
      <4>1. draft[c] \in Tx /\ draft[c].owner = c
        BY <2>2 DEF AnswerSimulate
      <4>2. a \in Tx /\ a.owner = c
        <5> HIDE DEF TypeInv, TypeOK, Locals, Restoring, Requested, Outcomes
        <5> QED
          BY <4>1, AssembleFields
      <4>3. signs \in BOOLEAN
        OBVIOUS
      <4>4. /\ built' = [built EXCEPT ![c] = t]
            /\ \/ signs /\ Await(c, SubmitRequest(c), NoTx)
               \/ \E how \in Outcomes : Return(c, how)
            /\ needsPrep' = [needsPrep EXCEPT ![c] = FALSE]
        BY <3>8 DEF SimulationSucceeds
      <4> HIDE DEF a, signs
      <4>5. t \in Tx /\ t.owner = c
        BY <4>2, <4>3, SignedFields
      <4> HIDE DEF t
      <4>6. CASE Await(c, SubmitRequest(c), NoTx)
        BY <3>3, <3>4, <3>5, <4>4, <4>5, <4>6, NoneAssumption, NoTxAssumption
        DEF Await, SubmitRequest, networkVars, historyVars
      <4>7. ASSUME NEW how \in Outcomes, Return(c, how)
            PROVE  TypeInv'
        BY <2>0, <3>3, <3>4, <3>5, <4>4, <4>5, <4>7, NoneAssumption, NoTxAssumption
        DEF Return, networkVars, historyVars
      <4> QED
        BY <4>4, <4>6, <4>7
    <3> QED
      BY <3>1, <3>6, <3>7, <3>8
  <2>3. CASE RestoreLoadAccount(c)
    <3>1. PICK f \in ResourceFees : Await(c, "restore_simulate", Build(RestoreOp, account + 1, f.stored))
      BY <2>3 DEF RestoreLoadAccount
    <3>2. account + 1 \in Nat /\ f.stored \in Nat
      BY AskedType
    <3>3. /\ Build(RestoreOp, account + 1, f.stored) \in Tx
          /\ Build(RestoreOp, account + 1, f.stored).owner = RestoreOp
      <4>1. RestoreOp \in Clients \cup {RestoreOp}
        OBVIOUS
      <4> HIDE DEF TypeInv, TypeOK, Locals, Restoring, Requested, Outcomes
      <4> QED
        BY <3>2, <4>1, BuildFields
    <3> DEFINE b == Build(RestoreOp, account + 1, f.stored)
    <3>4. b \in Tx /\ b.owner = RestoreOp
      BY <3>3
    <3>5. /\ pc' = [pc EXCEPT ![c] = "restore_simulate"] /\ draft' = [draft EXCEPT ![c] = b]
          /\ UNCHANGED <<call, outcome, built, simulation, cache, needsPrep, sent, account,
                         pool, archived, succeeded, failed, accepted, lost, restored>>
      BY <2>3, <3>1 DEF RestoreLoadAccount, Await, networkVars, historyVars
    <3> HIDE DEF b
    <3>6. TypeOK'
      BY <3>4, <3>5
    <3>7. Locals'
      BY <2>3, <3>4, <3>5 DEF RestoreLoadAccount
    <3> QED
      BY <3>6, <3>7
  <2>4. CASE RestoreSimulate(c)
    <3>0. UNCHANGED <<built, simulation, cache, needsPrep, sent, networkVars, historyVars>>
      BY <2>4 DEF RestoreSimulate
    <3>1. CASE Return(c, "RestorationFailed")
      BY <2>0, <3>0, <3>1 DEF Return, networkVars, historyVars
    <3>2. ASSUME NEW f \in ResourceFees,
                 Await(c, "restore_send", [Assemble(draft[c], f) EXCEPT !.signed = TRUE])
          PROVE  TypeInv'
      <4>1. draft[c] \in Tx /\ draft[c].owner = RestoreOp
        BY <2>4 DEF RestoreSimulate
      <4> DEFINE a == Assemble(draft[c], f)
                 t == [a EXCEPT !.signed = TRUE]
      <4>2. a \in Tx /\ a.owner = RestoreOp
        <5> HIDE DEF TypeInv, TypeOK, Locals, Restoring, Requested, Outcomes
        <5> QED
          BY <4>1, AssembleFields
      <4>4. Await(c, "restore_send", t)
        BY <3>2
      <4> HIDE DEF a
      <4>3. t \in Tx /\ t.owner = RestoreOp
        BY <4>2, SignedFields
      <4> HIDE DEF t
      <4> QED
        BY <2>4, <3>0, <4>3, <4>4 DEF RestoreSimulate, Await, networkVars, historyVars
    <3> QED
      BY <2>4, <3>1, <3>2, AskedType DEF RestoreSimulate
  <2>5. CASE RestoreSend(c)
    <3>0. UNCHANGED <<built, simulation, cache, needsPrep, sent,
                      account, archived, succeeded, failed, lost, restored>>
      BY <2>5 DEF RestoreSend
    <3>1. CASE Enqueue(draft[c]) /\ Await(c, "restore_poll", draft[c])
      <4>1. draft[c] \in Tx /\ draft[c].owner = RestoreOp /\ Hash(draft[c]) \in Tx
        BY <2>5, HashFields DEF RestoreSend
      <4> QED
        BY <2>5, <3>0, <3>1, <4>1 DEF RestoreSend, Enqueue, Await
    <3>2. CASE NotEnqueued /\ Return(c, "RestorationFailed")
      BY <2>0, <3>0, <3>2 DEF NotEnqueued, Return
    <3> QED
      BY <2>5, <3>1, <3>2 DEF RestoreSend
  <2>6. CASE RestoreDone(c)
    <3>0. /\ UNCHANGED <<built, simulation, needsPrep, sent, networkVars, accepted, lost>>
          /\ restored' = [restored EXCEPT ![c] = draft[c].seq]
          /\ draft[c] \in Tx
      BY <2>6 DEF RestoreDone
    <3>1. draft[c].seq \in Nat
      BY <3>0 DEF Tx
    <3>2. CASE call[c].op = "simulate"
      BY <2>6, <3>0, <3>1, <3>2 DEF RestoreDone, Await, networkVars
    <3>3. CASE call[c].op \in {"prepare", "sign_and_submit"}
      <4>1. built[c] \in Tx /\ built[c].owner = c
        BY <2>6, <3>3 DEF RestoreDone
      <4>2. ForSimulation(built[c]) \in Tx /\ ForSimulation(built[c]).owner = c
        BY <4>1, ForSimulationFields
      <4>3. Await(c, "simulate", ForSimulation(built[c])) /\ UNCHANGED cache
        BY <2>6, <3>3 DEF RestoreDone
      <4>4. built[c] # NoTx
        BY <2>6, <3>3 DEF RestoreDone
      <4> QED
        BY <3>0, <3>1, <4>1, <4>2, <4>3, <4>4 DEF Await, networkVars
    <3>4. CASE call[c].op \notin {"simulate", "prepare", "sign_and_submit"}
      <4>1. Return(c, "Restored") /\ UNCHANGED cache
        BY <2>6, <3>4 DEF RestoreDone
      <4> QED
        BY <2>0, <3>0, <3>1, <4>1 DEF Return, networkVars
    <3> QED
      BY <3>2, <3>3, <3>4
  <2>7. CASE RestoreGivesUp(c)
    BY <2>7 DEF RestoreGivesUp, Return, NoCall, Calls, networkVars, historyVars
  <2>8. CASE SendTransaction(c)
    <3>1. PICK status \in SendStatuses(built[c]) :
            /\ sent' = [sent EXCEPT ![c] = [hash |-> Hash(built[c]), status |-> status]]
            /\ IF status = "PENDING"
               THEN Enqueue(built[c]) /\ Await(c, "poll", NoTx)
               ELSE NotEnqueued /\ Return(c, "SendFailed")
      BY <2>8 DEF SendTransaction
    <3>2. /\ built[c] \in Tx /\ built[c] # NoTx
          /\ Hash(built[c]) \in Tx /\ Hash(built[c]).owner = c
      BY <2>8, HashFields DEF SendTransaction
    <3>3. [hash |-> Hash(built[c]), status |-> status] \in Send
      BY <3>2 DEF Send, SendStatuses, Statuses
    <3>4. UNCHANGED <<built, simulation, cache, needsPrep,
                      account, archived, succeeded, failed, lost, restored>>
      BY <2>8 DEF SendTransaction
    <3> DEFINE s == [hash |-> Hash(built[c]), status |-> status]
    <3>5. s \in Send /\ s.hash.owner = c /\ s # NoSend /\ sent' = [sent EXCEPT ![c] = s]
      BY <3>1, <3>2, <3>3, NoneAssumption, NoTxAssumption
    <3> HIDE DEF s
    <3>6. CASE status = "PENDING"
      BY <3>1, <3>2, <3>4, <3>5, <3>6 DEF Enqueue, Await
    <3>7. CASE status # "PENDING"
      BY <2>0, <3>1, <3>2, <3>4, <3>5, <3>7 DEF NotEnqueued, Return
    <3> QED
      BY <3>6, <3>7
  <2>9. CASE GetTransaction(c) \/ StillPending(c) \/ RequestFails(c)
    <3>1. /\ pc' = [pc EXCEPT ![c] = "idle"]
          /\ call' = [call EXCEPT ![c] = NoCall]
          /\ draft' = [draft EXCEPT ![c] = NoTx]
          /\ \E how \in Outcomes : outcome' = [outcome EXCEPT ![c] = how]
          /\ UNCHANGED <<built, simulation, cache, needsPrep, sent, networkVars, historyVars>>
      BY <2>9 DEF GetTransaction, StillPending, RequestFails, Return
    <3>2. NoCall \in Calls
      BY DEF NoCall, Calls
    <3> QED
      BY <3>1, <3>2 DEF networkVars, historyVars
  <2>10. CASE SendReplyLost(c)
    <3> DEFINE t == IF pc[c] = "send" THEN built[c] ELSE draft[c]
    <3>1. /\ UNCHANGED <<built, simulation, cache, needsPrep, sent,
                         account, archived, succeeded, failed, restored>>
          /\ lost' = lost + 1
          /\ Enqueue(t)
      BY <2>10 DEF SendReplyLost
    <3>2. Hash(t) \in Tx
      BY <2>10, HashFields DEF SendReplyLost
    <3>3. pool' \in Tx \cup {NoTx} /\ accepted' \subseteq Tx
      BY <3>1, <3>2 DEF Enqueue
    <3> HIDE DEF t
    <3>4. CASE UNCHANGED <<pc, call, draft, outcome>>
      BY <3>1, <3>3, <3>4
    <3>5. CASE Return(c, "RequestError")
      BY <2>0, <3>1, <3>3, <3>5 DEF Return
    <3> QED
      BY <2>10, <3>4, <3>5 DEF SendReplyLost
  <2> QED
    BY <1>4, <2>1, <2>2, <2>3, <2>4, <2>5, <2>6, <2>7, <2>8, <2>9, <2>10 DEF Requests
<1> QED
  BY <1>1, <1>2, <1>3, <1>4 DEF Next

\* The attributes, the ledger and the mempool keep their types in every
\* behaviour, with any number of objects, addresses and fees.
THEOREM TypeCorrect == Spec => []TypeOK
<1>1. TypeInv => TypeOK
  BY DEF TypeInv
<1>2. QED
  BY InitTypeInv, NextTypeInv, <1>1, PTL DEF Spec

-----------------------------------------------------------------------------
(* Fees and authorization *)

EnvelopesGood ==
  \A c \in Clients :
    /\ pc[c] \in {"simulate"} \cup Restoring => Paid(draft[c])
    /\ pc[c] = "simulate" => Whole(draft[c])
    /\ built[c] # NoTx => Paid(built[c]) /\ Fit(built[c], needsPrep[c])

AcceptedGood == \A t \in accepted : Paid(t) /\ Ready(t)

LEMMA InitEnvelopes == Init => EnvelopesGood /\ AcceptedGood
  BY DEF Init, NetworkInit, EnvelopesGood, AcceptedGood, Restoring

LEMMA NextEnvelopes ==
  ASSUME TypeInv, EnvelopesGood, AcceptedGood, [Next]_vars
  PROVE  EnvelopesGood' /\ AcceptedGood'
<1> USE DEF TypeInv, TypeOK, Locals, Restoring, EnvelopesGood, AcceptedGood
<1>1. CASE Network \/ UNCHANGED vars
  <2>1. UNCHANGED <<pc, draft, built, needsPrep, accepted>>
    BY <1>1 DEF Network, Apply, LedgerApplies, Evict, PoolEvicts, OtherWalletSpends, WalletSpends, Archive, StateArchives,
                vars, clientVars, historyVars
  <2> QED
    BY <2>1
<1>2. ASSUME NEW c \in Clients, UserCalls(c)
      PROVE  EnvelopesGood' /\ AcceptedGood'
  <2>0. UNCHANGED accepted
    BY <1>2 DEF UserCalls, Simulate, Prepare, PrepareSignAndSubmit, Sign, SignAndSubmit,
                Authorize, AuthorizeFails, RestoreFootprint, Submit, Query, Begin, historyVars
  <2>1. CASE \E restore \in BOOLEAN : Simulate(c, restore)
    BY <2>0, <2>1 DEF Simulate, Begin
  <2>2. CASE \/ \E restore \in BOOLEAN : Prepare(c, restore)
             \/ \E force \in BOOLEAN : PrepareSignAndSubmit(c, force)
    <3>1. /\ built[c] \in Tx /\ built[c] # NoTx
          /\ draft' = [draft EXCEPT ![c] = ForSimulation(built[c])]
          /\ pc' = [pc EXCEPT ![c] = "simulate"]
          /\ UNCHANGED <<built, needsPrep>>
      BY <2>2 DEF Prepare, PrepareSignAndSubmit, Preparable, Begin
    <3>2. Paid(ForSimulation(built[c])) /\ Whole(ForSimulation(built[c]))
      BY <3>1, ForSimulationGood
    <3> QED
      BY <2>0, <3>1, <3>2
  <2>3. CASE \E force \in BOOLEAN : Sign(c, force) \/ SignAndSubmit(c, force)
    <3> DEFINE t == [built[c] EXCEPT !.signed = TRUE]
    <3>1. /\ built[c] \in Tx /\ built[c] # NoTx
          /\ ~needsPrep[c] /\ built[c].unsigned = {}
          /\ built' = [built EXCEPT ![c] = t]
          /\ UNCHANGED needsPrep
          /\ \/ UNCHANGED <<pc, draft>>
             \/ /\ pc' = [pc EXCEPT ![c] = SubmitRequest(c)]
                /\ draft' = [draft EXCEPT ![c] = NoTx]
      BY <2>3 DEF Sign, SignAndSubmit, Signable, Begin
    <3>2. Paid(built[c]) /\ Fit(built[c], needsPrep[c]) /\ needsPrep[c] \in BOOLEAN
      BY <3>1
    <3>3. Fit(built[c], FALSE) /\ needsPrep[c] = FALSE
      <4> HIDE DEF TypeInv, EnvelopesGood, AcceptedGood
      <4>1. needsPrep[c] = FALSE
        BY <3>1, <3>2, Zenon
      <4> QED
        BY <3>2, <4>1, Zenon
    <3>4. Paid(t) /\ Fit(t, FALSE)
      BY <3>1, <3>2, <3>3, SignedGood
    <3>5. Fit(t, needsPrep[c])
      BY <3>3, <3>4, Zenon
    <3> HIDE DEF t
    <3> QED
      BY <2>0, <3>1, <3>4, <3>5 DEF SubmitRequest
  <2>4. ASSUME NEW a \in Addrs, Authorize(c, a) \/ AuthorizeFails(c, a)
        PROVE  EnvelopesGood' /\ AcceptedGood'
    <3>1. /\ built[c] \in Tx /\ built[c] # NoTx /\ ~built[c].signed
          /\ a \in built[c].unsigned \cup built[c].authorized
          /\ UNCHANGED <<pc, draft>>
      BY <2>4 DEF Authorize, AuthorizeFails, Authorizable
    <3>2. Paid(built[c]) /\ Fit(built[c], needsPrep[c]) /\ needsPrep[c] \in BOOLEAN
      BY <3>1
    <3>3. CASE Authorize(c, a)
      <4> DEFINE t == SignEntries(built[c], a)
                 np == needsPrep[c] \/ a \in ContractAddrs
      <4>1. built' = [built EXCEPT ![c] = t] /\ needsPrep' = [needsPrep EXCEPT ![c] = np]
        BY <3>3 DEF Authorize
      <4>2. Paid(t) /\ Fit(t, np)
        <5> HIDE DEF TypeInv, EnvelopesGood, AcceptedGood
        <5> QED
          BY <3>1, <3>2, AuthorizedGood
      <4> HIDE DEF t, np
      <4> QED
        BY <2>0, <3>1, <4>1, <4>2
    <3>4. CASE AuthorizeFails(c, a)
      <4> DEFINE t == SignSomeEntries(built[c], a)
      <4>1. built' = [built EXCEPT ![c] = t] /\ UNCHANGED needsPrep
        BY <3>4 DEF AuthorizeFails
      <4>2. Paid(t) /\ Fit(t, needsPrep[c])
        <5> HIDE DEF TypeInv, EnvelopesGood, AcceptedGood
        <5> QED
          BY <3>1, <3>2, HalfAuthorizedGood
      <4> HIDE DEF t
      <4> QED
        BY <2>0, <3>1, <4>1, <4>2
    <3> QED
      BY <2>4, <3>3, <3>4
  <2>5. CASE RestoreFootprint(c) \/ Submit(c)
    BY <2>0, <2>5 DEF RestoreFootprint, Submit, SubmitRequest, Begin
  <2>6. CASE Query(c)
    BY <2>0, <2>6 DEF Query
  <2> QED
    BY <1>2, <2>1, <2>2, <2>3, <2>4, <2>5, <2>6 DEF UserCalls
<1>3. ASSUME NEW c \in Clients, Requests(c)
      PROVE  EnvelopesGood' /\ AcceptedGood'
  <2>1. CASE LoadAccount(c)
    <3>1. Paid(Build(c, account + 1, 0)) /\ Whole(Build(c, account + 1, 0))
      <4>1. account + 1 \in Nat /\ 0 \in Nat
        OBVIOUS
      <4> QED
        BY <4>1, BuildGood
    <3> QED
      BY <2>1, <3>1 DEF LoadAccount, Await, historyVars
  <2>2. CASE AnswerSimulate(c)
    <3>1. /\ draft[c] \in Tx /\ draft[c].owner # RestoreOp
          /\ Paid(draft[c]) /\ Whole(draft[c])
          /\ UNCHANGED accepted
      BY <2>2, ClientsAssumption, OwnersAssumption DEF AnswerSimulate, historyVars
    <3>2. PICK sim \in SimulationAnswers :
            \/ SimulationFails(c, sim)
            \/ SimulationNeedsRestore(c, sim)
            \/ \E f \in ResourceFees : SimulationSucceeds(c, sim, f)
      BY <2>2, AskedType DEF AnswerSimulate
    <3>3. CASE SimulationFails(c, sim) \/ SimulationNeedsRestore(c, sim)
      BY <3>1, <3>3 DEF SimulationFails, SimulationNeedsRestore, Await, Return
    <3>4. ASSUME NEW f \in ResourceFees, SimulationSucceeds(c, sim, f)
          PROVE  EnvelopesGood' /\ AcceptedGood'
      <4> DEFINE a == Assemble(draft[c], f)
                 signs == /\ call[c].op = "sign_and_submit"
                          /\ Signable(a, sim, NoSim, FALSE, call[c].force)
                 t == [a EXCEPT !.signed = signs]
      <4>2. a \in Tx /\ Paid(a) /\ Fit(a, FALSE)
        <5> HIDE DEF TypeInv, EnvelopesGood, AcceptedGood
        <5> QED
          BY <3>1, AssembleGood, AssembleFields
      <4>3. signs \in BOOLEAN /\ (signs => a.unsigned = {})
        BY DEF Signable
      <4>4. /\ built' = [built EXCEPT ![c] = t]
            /\ \/ Await(c, SubmitRequest(c), NoTx)
               \/ \E how \in Outcomes : Return(c, how)
            /\ needsPrep' = [needsPrep EXCEPT ![c] = FALSE]
        BY <3>4 DEF SimulationSucceeds, Outcomes
      <4> HIDE DEF a, signs
      <4>5. Paid(t) /\ Fit(t, FALSE)
        <5> HIDE DEF TypeInv, EnvelopesGood, AcceptedGood
        <5> QED
          BY <4>2, <4>3, SignedGood
      <4> HIDE DEF t
      <4>6. built'[c] = t /\ needsPrep'[c] = FALSE
        BY <4>4
      <4>7. Paid(built'[c]) /\ Fit(built'[c], needsPrep'[c])
        <5> HIDE DEF TypeInv, EnvelopesGood, AcceptedGood
        <5> QED
          BY <4>5, <4>6, Zenon
      <4>8. ASSUME NEW d \in Clients, d # c
            PROVE  /\ built'[d] = built[d] /\ needsPrep'[d] = needsPrep[d]
                   /\ pc'[d] = pc[d] /\ draft'[d] = draft[d]
        BY <4>4, <4>8 DEF Await, Return
      <4>9. pc'[c] \in {"send", "poll", "idle"}
        BY <4>4 DEF Await, Return, SubmitRequest
      <4>10. ASSUME NEW d \in Clients
             PROVE  /\ pc'[d] \in {"simulate"} \cup Restoring => Paid(draft'[d])
                    /\ pc'[d] = "simulate" => Whole(draft'[d])
                    /\ built'[d] # NoTx => Paid(built'[d]) /\ Fit(built'[d], needsPrep'[d])
        <5>1. CASE d = c
          BY <4>7, <4>9, <5>1
        <5>2. CASE d # c
          BY <4>8, <5>2, Zenon
        <5> QED
          BY <5>1, <5>2
      <4> QED
        BY <3>1, <4>10, Zenon
    <3> QED
      BY <3>2, <3>3, <3>4
  <2>3. CASE RestoreLoadAccount(c)
    <3>1. PICK f \in ResourceFees : Await(c, "restore_simulate", Build(RestoreOp, account + 1, f.stored))
      BY <2>3 DEF RestoreLoadAccount
    <3>2. Paid(Build(RestoreOp, account + 1, f.stored))
      <4>1. account + 1 \in Nat /\ f.stored \in Nat /\ RestoreOp \in Clients \cup {RestoreOp}
        BY AskedType
      <4> QED
        BY <4>1, BuildGood
    <3> QED
      BY <2>3, <3>1, <3>2 DEF RestoreLoadAccount, Await, historyVars
  <2>4. CASE RestoreSimulate(c)
    <3>0. UNCHANGED <<built, needsPrep, accepted>>
      BY <2>4 DEF RestoreSimulate, historyVars
    <3>1. CASE Return(c, "RestorationFailed")
      BY <3>0, <3>1 DEF Return
    <3>2. ASSUME NEW f \in ResourceFees,
                 Await(c, "restore_send", [Assemble(draft[c], f) EXCEPT !.signed = TRUE])
          PROVE  EnvelopesGood' /\ AcceptedGood'
      <4> DEFINE a == Assemble(draft[c], f)
                 t == [a EXCEPT !.signed = TRUE]
      <4>1. draft[c] \in Tx /\ Paid(draft[c])
        BY <2>4 DEF RestoreSimulate
      <4>2. a \in Tx /\ Paid(a)
        <5> HIDE DEF TypeInv, EnvelopesGood, AcceptedGood
        <5> QED
          BY <4>1, AssembleGood, AssembleFields
      <4>3. Await(c, "restore_send", t)
        BY <3>2
      <4> HIDE DEF a
      <4>4. Paid(t)
        BY <4>2, SignedFields DEF Paid
      <4> HIDE DEF t
      <4> QED
        BY <3>0, <4>3, <4>4 DEF Await
    <3> QED
      BY <2>4, <3>1, <3>2, AskedType DEF RestoreSimulate
  <2>5. CASE RestoreSend(c)
    <3>0. UNCHANGED <<built, needsPrep>>
      BY <2>5 DEF RestoreSend
    <3>1. CASE Enqueue(draft[c]) /\ Await(c, "restore_poll", draft[c])
      <4>1. draft[c] \in Tx /\ Paid(draft[c]) /\ draft[c].owner = RestoreOp
        BY <2>5 DEF RestoreSend
      <4>2. Paid(Hash(draft[c])) /\ Ready(Hash(draft[c]))
        BY <4>1, HashGood, HashFields DEF Ready
      <4> QED
        BY <3>0, <3>1, <4>1, <4>2 DEF Enqueue, Await
    <3>2. CASE NotEnqueued /\ Return(c, "RestorationFailed")
      BY <3>0, <3>2 DEF NotEnqueued, Return
    <3> QED
      BY <2>5, <3>1, <3>2 DEF RestoreSend
  <2>6. CASE RestoreDone(c)
    <3>0. UNCHANGED <<built, needsPrep, accepted>>
      BY <2>6 DEF RestoreDone
    <3>1. CASE call[c].op = "simulate"
      BY <2>6, <3>0, <3>1 DEF RestoreDone, Await
    <3>2. CASE call[c].op \in {"prepare", "sign_and_submit"}
      <4>1. built[c] \in Tx /\ Paid(built[c]) /\ Fit(built[c], needsPrep[c])
        BY <2>6, <3>2 DEF RestoreDone
      <4>2. Paid(ForSimulation(built[c])) /\ Whole(ForSimulation(built[c]))
        BY <4>1, ForSimulationGood
      <4> QED
        BY <2>6, <3>0, <3>2, <4>2 DEF RestoreDone, Await
    <3>3. CASE call[c].op \notin {"simulate", "prepare", "sign_and_submit"}
      BY <2>6, <3>0, <3>3 DEF RestoreDone, Return
    <3> QED
      BY <3>1, <3>2, <3>3
  <2>7. CASE SendTransaction(c)
    <3>0. UNCHANGED <<built, needsPrep>>
      BY <2>7 DEF SendTransaction
    <3>1. CASE Enqueue(built[c]) /\ Await(c, "poll", NoTx) /\ built[c].signed
      <4>1. built[c] \in Tx /\ Paid(built[c]) /\ Fit(built[c], needsPrep[c])
        BY <2>7 DEF SendTransaction
      <4>2. Paid(Hash(built[c])) /\ Ready(Hash(built[c]))
        BY <3>1, <4>1, HashGood
      <4> QED
        BY <3>0, <3>1, <4>2 DEF Enqueue, Await
    <3>2. CASE NotEnqueued /\ Return(c, "SendFailed")
      BY <3>0, <3>2 DEF NotEnqueued, Return
    <3> QED
      BY <2>7, <3>1, <3>2 DEF SendTransaction, SendStatuses
  <2>8. CASE RestoreGivesUp(c) \/ GetTransaction(c) \/ StillPending(c) \/ RequestFails(c)
    BY <2>8 DEF RestoreGivesUp, GetTransaction, StillPending, RequestFails, Return, historyVars
  <2>9. CASE SendReplyLost(c)
    <3> DEFINE t == IF pc[c] = "send" THEN built[c] ELSE draft[c]
    <3>1. /\ UNCHANGED <<built, needsPrep>>
          /\ Enqueue(t) /\ t.signed
          /\ pc[c] \in {"send", "restore_send"}
          /\ UNCHANGED <<pc, draft>> \/ Return(c, "RequestError")
      BY <2>9 DEF SendReplyLost, SendStatuses
    <3>2. Paid(Hash(t)) /\ Ready(Hash(t))
      <4>1. CASE pc[c] = "send"
        <5>1. /\ t = built[c] /\ t \in Tx /\ Paid(t) /\ Fit(t, needsPrep[c])
          BY <4>1
        <5> QED
          BY <3>1, <5>1, HashGood
      <4>2. CASE pc[c] = "restore_send"
        <5>1. t = draft[c] /\ t \in Tx /\ Paid(t) /\ t.owner = RestoreOp
          BY <4>2
        <5> QED
          BY <5>1, HashGood, HashFields DEF Ready
      <4> QED
        BY <3>1, <4>1, <4>2
    <3> HIDE DEF t
    <3>3. AcceptedGood'
      BY <3>1, <3>2 DEF Enqueue
    <3> QED
      BY <3>1, <3>3 DEF Return
  <2> QED
    BY <1>3, <2>1, <2>2, <2>3, <2>4, <2>5, <2>6, <2>7, <2>8, <2>9 DEF Requests
<1> QED
  BY <1>1, <1>2, <1>3 DEF Next

\* The fee is the base fee, the stored resource fee and what the simulations
\* asked for beyond those they stored, however often a transaction is simulated,
\* prepared and restored and whatever pairs of fees the simulations answer.
THEOREM FeesExact == Spec => []FeeExact
<1>1. EnvelopesGood /\ AcceptedGood => FeeExact
  BY DEF EnvelopesGood, AcceptedGood, FeeExact, Paid
<1>2. QED
  BY InitTypeInv, NextTypeInv, InitEnvelopes, NextEnvelopes, <1>1, PTL DEF Spec

\* No invocation reaches the network with an unsigned entry, or prepared against
\* other signatures than it carries, however many contract accounts sign it, but
\* for those whose signed entries an authorize() that raised had half replaced.
THEOREM OnlyReadyAccepted == Spec => []AcceptedIsReady
<1>1. AcceptedGood => AcceptedIsReady
  BY DEF AcceptedGood, AcceptedIsReady, Ready
<1>2. QED
  BY InitTypeInv, NextTypeInv, InitEnvelopes, NextEnvelopes, <1>1, PTL DEF Spec

-----------------------------------------------------------------------------
(* The network's records *)

NetworkGood ==
  /\ pool # NoTx => pool \in accepted
  /\ succeeded \cup failed \subseteq accepted
  /\ \A t \in succeeded \cup failed : t.seq <= account
  /\ succeeded \cap failed = {}

\* What a client's step does to the network: it may add a transaction.
LEMMA ClientsOnlyEnqueue ==
  ASSUME NEW c \in Clients, Requests(c) \/ UserCalls(c)
  PROVE  /\ UNCHANGED <<account, succeeded, failed>>
         /\ UNCHANGED <<pool, accepted>> \/ \E t : Enqueue(t)
<1> USE DEF networkVars, historyVars, NotEnqueued
<1>1. CASE UserCalls(c)
  BY <1>1 DEF UserCalls, Simulate, Prepare, PrepareSignAndSubmit, Sign, SignAndSubmit,
              Authorize, AuthorizeFails, RestoreFootprint, Submit, Query
<1>2. CASE RestoreSend(c) \/ SendTransaction(c) \/ SendReplyLost(c)
  BY <1>2 DEF RestoreSend, SendTransaction, SendReplyLost
<1>3. CASE \/ LoadAccount(c) \/ AnswerSimulate(c) \/ RestoreLoadAccount(c)
           \/ RestoreSimulate(c) \/ RestoreDone(c) \/ RestoreGivesUp(c)
           \/ GetTransaction(c) \/ StillPending(c) \/ RequestFails(c)
  BY <1>3 DEF LoadAccount, AnswerSimulate, RestoreLoadAccount, RestoreSimulate, RestoreDone,
              RestoreGivesUp, GetTransaction, StillPending, RequestFails
<1> QED
  BY <1>1, <1>2, <1>3 DEF Requests

LEMMA InitNetwork == Init => NetworkGood
  BY DEF Init, NetworkInit, NetworkGood

LEMMA NextNetwork ==
  ASSUME TypeInv, NetworkGood, [Next]_vars
  PROVE  NetworkGood'
<1> USE DEF NetworkGood
<1>1. CASE Apply
  <2>1. /\ pool \in Tx /\ pool \in accepted /\ pool.seq = account + 1
        /\ account \in Nat /\ account' = account + 1
        /\ pool' = NoTx /\ accepted' = accepted
    BY <1>1 DEF Apply, LedgerApplies, Live, TypeInv, TypeOK, historyVars
  <2>2. \A t \in succeeded \cup failed : t.seq \in Nat
    BY DEF TypeInv, TypeOK, Tx
  <2>3. pool \notin succeeded \cup failed
    BY <2>1, <2>2
  <2>4. /\ succeeded' \cup failed' = succeeded \cup failed \cup {pool}
        /\ \/ succeeded' = succeeded \cup {pool} /\ failed' = failed
           \/ succeeded' = succeeded /\ failed' = failed \cup {pool}
    BY <1>1 DEF Apply, LedgerApplies
  <2>5. \A t \in succeeded' \cup failed' : t.seq <= account'
    BY <2>1, <2>2, <2>4
  <2> QED
    BY <2>1, <2>3, <2>4, <2>5
<1>2. CASE Evict \/ OtherWalletSpends \/ Archive
  <2>1. /\ UNCHANGED <<accepted, succeeded, failed>>
        /\ pool' \in {pool, NoTx}
        /\ account' \in {account, account + 1}
    BY <1>2 DEF Evict, PoolEvicts, OtherWalletSpends, WalletSpends, Archive, StateArchives, historyVars
  <2>2. account \in Nat /\ \A t \in succeeded \cup failed : t.seq \in Nat
    BY DEF TypeInv, TypeOK, Tx
  <2>3. \A t \in succeeded \cup failed : t.seq <= account'
    BY <2>1, <2>2
  <2> QED
    BY <2>1, <2>3
<1>3. CASE UNCHANGED vars
  BY <1>3 DEF vars, networkVars, historyVars
<1>4. ASSUME NEW c \in Clients, Requests(c) \/ UserCalls(c)
      PROVE  NetworkGood'
  BY <1>4, ClientsOnlyEnqueue DEF Enqueue
<1> QED
  BY <1>1, <1>2, <1>3, <1>4 DEF Next, Network

-----------------------------------------------------------------------------
(* Submission: as long as no reply is lost, send_transaction_response tells *)
(* which invocation the network got, and outcome what became of it.         *)

SentIsAll ==
  lost = 0 => \A c \in Clients : \A t \in Invocations(c) : sent[c] # NoSend /\ t = sent[c].hash

Told ==
  \A c \in Clients :
    /\ outcome[c] = "Success" => Invocations(c) \cap succeeded # {}
    /\ outcome[c] = "Failed" => sent[c] # NoSend /\ sent[c].hash \in failed
    /\ outcome[c] = "SendFailed" => sent[c] # NoSend /\ (lost = 0 => Invocations(c) = {})

\* What a client's step does to the transactions sent.
Keeps(c) == UNCHANGED <<accepted, lost, sent>>

SendsRestore(c) ==
  /\ accepted' = accepted \cup {Hash(draft[c])} /\ draft[c] \in Tx
  /\ Hash(draft[c]).owner = RestoreOp
  /\ UNCHANGED <<lost, sent>>

SendsOwn(c) ==
  /\ pc[c] = "send" /\ built[c] \in Tx
  /\ Hash(built[c]).owner = c
  /\ accepted' \in {accepted, accepted \cup {Hash(built[c])}}
  /\ \E status \in Statuses :
       /\ sent' = [sent EXCEPT ![c] = [hash |-> Hash(built[c]), status |-> status]]
       /\ status = "PENDING" => Hash(built[c]) \in accepted'
  /\ UNCHANGED lost

LosesReply(c) ==
  /\ lost' = lost + 1
  /\ \E t : accepted' = accepted \cup {t}
  /\ UNCHANGED sent

LEMMA Sending ==
  ASSUME NEW c \in Clients, TypeInv, Requests(c) \/ UserCalls(c)
  PROVE  Keeps(c) \/ SendsRestore(c) \/ SendsOwn(c) \/ LosesReply(c)
<1> USE DEF historyVars
<1>1. CASE UserCalls(c)
  BY <1>1 DEF Keeps, UserCalls, Simulate, Prepare, PrepareSignAndSubmit, Sign, SignAndSubmit,
              Authorize, AuthorizeFails, RestoreFootprint, Submit, Query, Begin
<1>2. CASE \/ LoadAccount(c) \/ AnswerSimulate(c) \/ RestoreLoadAccount(c)
           \/ RestoreSimulate(c) \/ RestoreDone(c) \/ RestoreGivesUp(c)
           \/ GetTransaction(c) \/ StillPending(c) \/ RequestFails(c)
  BY <1>2 DEF Keeps, LoadAccount, AnswerSimulate, RestoreLoadAccount, RestoreSimulate, RestoreDone,
              RestoreGivesUp, GetTransaction, StillPending, RequestFails
<1>3. CASE RestoreSend(c)
  <2>1. draft[c] \in Tx /\ draft[c].owner = RestoreOp
    BY <1>3 DEF RestoreSend, TypeInv, Locals, Restoring
  <2>2. Hash(draft[c]).owner = RestoreOp
    BY <2>1, HashFields
  <2> QED
    BY <1>3, <2>1, <2>2 DEF RestoreSend, Enqueue, NotEnqueued, Keeps, SendsRestore
<1>4. CASE SendTransaction(c)
  <2>1. built[c] \in Tx /\ built[c].owner = c
    BY <1>4 DEF SendTransaction, TypeInv, TypeOK, Locals
  <2>2. Hash(built[c]).owner = c
    BY <2>1, HashFields
  <2>3. PICK status \in SendStatuses(built[c]) :
          /\ sent' = [sent EXCEPT ![c] = [hash |-> Hash(built[c]), status |-> status]]
          /\ IF status = "PENDING"
             THEN Enqueue(built[c]) /\ Await(c, "poll", NoTx)
             ELSE NotEnqueued /\ Return(c, "SendFailed")
    BY <1>4 DEF SendTransaction
  <2>4. status \in Statuses
    BY DEF SendStatuses, Statuses
  <2>5. /\ accepted' \in {accepted, accepted \cup {Hash(built[c])}}
        /\ status = "PENDING" => Hash(built[c]) \in accepted'
    BY <2>3 DEF Enqueue, NotEnqueued
  <2> QED
    BY <1>4, <2>1, <2>2, <2>3, <2>4, <2>5 DEF SendTransaction, SendsOwn
<1>5. CASE SendReplyLost(c)
  BY <1>5 DEF SendReplyLost, Enqueue, LosesReply
<1> QED
  BY <1>1, <1>2, <1>3, <1>4, <1>5 DEF Requests

LEMMA NetworkKeeps ==
  ASSUME Network \/ UNCHANGED vars
  PROVE  /\ UNCHANGED <<pc, call, draft, outcome, built, simulation, cache, needsPrep, sent>>
         /\ UNCHANGED <<accepted, lost, restored>>
         /\ succeeded \subseteq succeeded' /\ failed \subseteq failed'
  BY DEF Network, Apply, LedgerApplies, Evict, PoolEvicts, OtherWalletSpends, WalletSpends, Archive, StateArchives, vars, clientVars, networkVars, historyVars

LEMMA InitSent == Init => SentIsAll
  BY DEF Init, NetworkInit, SentIsAll, Invocations

LEMMA NextSent ==
  ASSUME TypeInv, SentIsAll, [Next]_vars
  PROVE  SentIsAll'
<1>1. CASE Network \/ UNCHANGED vars
  BY <1>1, NetworkKeeps DEF SentIsAll, Invocations
<1>2. ASSUME NEW c \in Clients, Requests(c) \/ UserCalls(c)
      PROVE  SentIsAll'
  <2>1. CASE Keeps(c)
    BY <2>1 DEF Keeps, SentIsAll, Invocations
  <2>2. CASE SendsRestore(c)
    BY <2>2, ClientsAssumption, OwnersAssumption DEF SendsRestore, SentIsAll, Invocations
  <2>3. CASE SendsOwn(c)
    <3>1. PICK status \in Statuses :
            sent' = [sent EXCEPT ![c] = [hash |-> Hash(built[c]), status |-> status]]
      BY <2>3 DEF SendsOwn
    <3>2. sent[c] = NoSend /\ Hash(built[c]) \in Tx
      BY <2>3, HashFields DEF SendsOwn, TypeInv, Locals
    <3> DEFINE s == [hash |-> Hash(built[c]), status |-> status]
    <3>3. s # NoSend /\ s.hash = Hash(built[c]) /\ sent' = [sent EXCEPT ![c] = s]
      BY <3>1, <3>2, NoneAssumption, NoTxAssumption DEF Send
    <3> HIDE DEF s
    <3>4. lost = 0 => Invocations(c) = {}
      BY <3>2 DEF SentIsAll
    <3>5. sent \in [Clients -> Send \cup {NoSend}]
      BY DEF TypeInv, TypeOK
    <3> QED
      BY <2>3, <3>3, <3>4, <3>5 DEF SendsOwn, SentIsAll, Invocations
  <2>4. CASE LosesReply(c)
    <3>1. lost' # 0
      BY <2>4 DEF LosesReply, TypeInv, TypeOK
    <3> QED
      BY <3>1 DEF SentIsAll
  <2> QED
    BY <1>2, <2>1, <2>2, <2>3, <2>4, Sending
<1> QED
  BY <1>1, <1>2 DEF Next

\* An invocation of an object that has send_transaction_response is the one that
\* tells of, or one whose reply was lost; without it, only replies were lost.
Counted ==
  \A c \in Clients :
    /\ IsFiniteSet(Invocations(c))
    /\ Cardinality(Invocations(c)) <= 1 + lost
    /\ sent[c] = NoSend => Cardinality(Invocations(c)) <= lost

LEMMA InitCounted == Init => Counted
<1> SUFFICES ASSUME Init, NEW c \in Clients
             PROVE  /\ IsFiniteSet(Invocations(c))
                    /\ Cardinality(Invocations(c)) <= 1 + lost
                    /\ Cardinality(Invocations(c)) <= lost
  BY DEF Counted
<1>1. Invocations(c) = {} /\ lost = 0
  BY DEF Init, NetworkInit, Invocations
<1> QED
  BY <1>1, FS_EmptySet

\* One transaction more is one invocation more, at most, of one object.
LEMMA OneMore ==
  ASSUME NEW d \in Clients, IsFiniteSet(Invocations(d)), NEW t, accepted' = accepted \cup {t}
  PROVE  /\ IsFiniteSet(Invocations(d)')
         /\ Cardinality(Invocations(d)) \in Nat /\ Cardinality(Invocations(d)') \in Nat
         /\ Cardinality(Invocations(d)') <= Cardinality(Invocations(d)) + 1
         /\ t.owner # d => Invocations(d)' = Invocations(d)
<1>1. Invocations(d)' = IF t.owner = d THEN Invocations(d) \cup {t} ELSE Invocations(d)
  BY DEF Invocations
<1> DEFINE S == Invocations(d)
<1> HIDE DEF S
<1>2. /\ IsFiniteSet(S \cup {t})
      /\ Cardinality(S \cup {t}) = IF t \in S THEN Cardinality(S) ELSE Cardinality(S) + 1
  BY FS_AddElement DEF S
<1>3. Cardinality(S) \in Nat /\ Cardinality(S \cup {t}) \in Nat
  BY <1>2, FS_CardinalityType DEF S
<1>4. Cardinality(S) <= Cardinality(S) + 1 /\ Cardinality(S \cup {t}) <= Cardinality(S) + 1
  BY <1>2, <1>3
<1> QED
  BY <1>1, <1>2, <1>3, <1>4 DEF S

LEMMA NextCounted ==
  ASSUME TypeInv, Counted, [Next]_vars
  PROVE  Counted'
<1>l. lost \in Nat /\ sent \in [Clients -> Send \cup {NoSend}]
  BY DEF TypeInv, TypeOK
<1>1. CASE Network \/ UNCHANGED vars
  BY <1>1, NetworkKeeps DEF Counted, Invocations
<1>2. ASSUME NEW c \in Clients, Requests(c) \/ UserCalls(c), NEW d \in Clients
      PROVE  /\ IsFiniteSet(Invocations(d)')
             /\ Cardinality(Invocations(d)') <= 1 + lost'
             /\ sent'[d] = NoSend => Cardinality(Invocations(d)') <= lost'
  <2>d. /\ IsFiniteSet(Invocations(d)) /\ Cardinality(Invocations(d)) <= 1 + lost
        /\ sent[d] = NoSend => Cardinality(Invocations(d)) <= lost
    BY DEF Counted
  <2>1. CASE Keeps(c)
    BY <2>1, <2>d DEF Keeps, Invocations
  <2>2. CASE SendsRestore(c)
    <3>1. Invocations(d)' = Invocations(d)
      BY <2>2, OwnersAssumption DEF SendsRestore, Invocations
    <3> QED
      BY <2>2, <2>d, <3>1 DEF SendsRestore
  <2>3. CASE SendsOwn(c)
    <3>1. CASE d # c
      <4>1. Invocations(d)' = Invocations(d) /\ sent'[d] = sent[d] /\ lost' = lost
        BY <2>3, <3>1, <1>l DEF SendsOwn, Invocations
      <4> QED
        BY <4>1, <2>d
    <3>2. CASE d = c
      <4>1. sent[c] = NoSend /\ Hash(built[c]) \in Tx
        BY <2>3, HashFields DEF SendsOwn, TypeInv, Locals
      <4>2. sent'[c] # NoSend
        <5>1. PICK status \in Statuses :
                sent' = [sent EXCEPT ![c] = [hash |-> Hash(built[c]), status |-> status]]
          BY <2>3 DEF SendsOwn
        <5>2. [hash |-> Hash(built[c]), status |-> status] \in Send
          BY <4>1 DEF Send
        <5> QED
          BY <5>1, <5>2, <1>l, NoneAssumption
      <4>3. CASE accepted' = accepted
        BY <2>3, <2>d, <3>2, <4>2, <4>3 DEF SendsOwn, Invocations
      <4>4. CASE accepted' = accepted \cup {Hash(built[c])}
        <5>1. /\ IsFiniteSet(Invocations(d)')
              /\ Cardinality(Invocations(d)) \in Nat /\ Cardinality(Invocations(d)') \in Nat
              /\ Cardinality(Invocations(d)') <= Cardinality(Invocations(d)) + 1
          BY <2>d, <4>4, OneMore
        <5>2. lost' = lost /\ Cardinality(Invocations(d)) <= lost
          BY <2>3, <2>d, <3>2, <4>1 DEF SendsOwn
        <5> QED
          BY <5>1, <5>2, <4>2, <3>2, <1>l
      <4> QED
        BY <2>3, <4>3, <4>4 DEF SendsOwn
    <3> QED
      BY <3>1, <3>2
  <2>4. CASE LosesReply(c)
    <3>1. PICK t : accepted' = accepted \cup {t}
      BY <2>4 DEF LosesReply
    <3>2. /\ IsFiniteSet(Invocations(d)')
          /\ Cardinality(Invocations(d)) \in Nat /\ Cardinality(Invocations(d)') \in Nat
          /\ Cardinality(Invocations(d)') <= Cardinality(Invocations(d)) + 1
      BY <2>d, <3>1, OneMore
    <3>3. lost' = lost + 1 /\ sent' = sent
      BY <2>4 DEF LosesReply
    <3> QED
      BY <3>2, <3>3, <2>d, <1>l
  <2> QED
    BY <1>2, <2>1, <2>2, <2>3, <2>4, Sending
<1> QED
  BY <1>1, <1>2 DEF Next, Counted

\* An object has at most one invocation in the network's records, and at most one
\* more for each reply of sendTransaction that was lost, however often it is
\* simulated, signed and submitted again.
THEOREM OneInvocation == Spec => []AtMostOneInvocation
<1>1. Counted => AtMostOneInvocation
  BY DEF Counted, AtMostOneInvocation
<1>2. QED
  BY InitTypeInv, NextTypeInv, InitCounted, NextCounted, <1>1, PTL DEF Spec

-----------------------------------------------------------------------------
\* What a client's step does to its outcome: only submit() tells one of these.
Tells(c, how) ==
  CASE how = "Success" -> /\ pc[c] = "poll" /\ sent[c].hash \in succeeded
                          /\ UNCHANGED <<accepted, sent, succeeded>>
    [] how = "Failed"  -> /\ pc[c] = "poll" /\ sent[c].hash \in failed
                          /\ UNCHANGED <<sent, failed>>
    [] how = "SendFailed" -> /\ pc[c] = "send" /\ UNCHANGED <<accepted, lost>>
                             /\ sent'[c] # NoSend
    [] how = "StillPending" -> pc[c] = "poll"
    [] OTHER -> TRUE

LEMMA Telling ==
  ASSUME NEW c \in Clients, TypeInv, Requests(c) \/ UserCalls(c)
  PROVE  \/ outcome' = outcome
         \/ \E how \in Outcomes : outcome' = [outcome EXCEPT ![c] = how] /\ Tells(c, how)
<1> USE DEF networkVars, historyVars, Outcomes
<1>1. CASE \/ LoadAccount(c) \/ RestoreLoadAccount(c) \/ Query(c)
  BY <1>1 DEF LoadAccount, RestoreLoadAccount, Query, Await
<1>2. CASE UserCalls(c) /\ ~Query(c)
  <2>1. outcome' = [outcome EXCEPT ![c] = "none"]
    BY <1>2 DEF UserCalls, Simulate, Prepare, PrepareSignAndSubmit, Sign, SignAndSubmit,
                Authorize, AuthorizeFails, RestoreFootprint, Submit, Begin
  <2> QED
    BY <2>1 DEF Tells
<1>3. CASE AnswerSimulate(c)
  <2>1. \/ outcome' = outcome
        \/ \E how \in {"SimulationFailed", "ValueError", "Simulated", "Prepared", "Refused"} :
             outcome' = [outcome EXCEPT ![c] = how]
    BY <1>3 DEF AnswerSimulate, SimulationFails, SimulationNeedsRestore, SimulationSucceeds,
                Await, Return
  <2> QED
    BY <2>1 DEF Tells
<1>4. CASE RestoreSimulate(c) \/ RestoreSend(c) \/ RestoreDone(c) \/ RestoreGivesUp(c)
  <2>1. \/ outcome' = outcome
        \/ \E how \in {"RestorationFailed", "Restored"} : outcome' = [outcome EXCEPT ![c] = how]
    BY <1>4 DEF RestoreSimulate, RestoreSend, RestoreDone, RestoreGivesUp, Await, Return
  <2> QED
    BY <2>1 DEF Tells
<1>5. CASE SendTransaction(c)
  <2>1. PICK status \in SendStatuses(built[c]) :
          /\ sent' = [sent EXCEPT ![c] = [hash |-> Hash(built[c]), status |-> status]]
          /\ IF status = "PENDING"
             THEN Enqueue(built[c]) /\ Await(c, "poll", NoTx)
             ELSE NotEnqueued /\ Return(c, "SendFailed")
    BY <1>5 DEF SendTransaction
  <2>2. CASE status = "PENDING"
    BY <2>1, <2>2 DEF Await
  <2>3. CASE status # "PENDING"
    <3>1. Hash(built[c]) \in Tx
      BY <1>5, HashFields DEF SendTransaction, TypeInv, TypeOK, Locals
    <3>2. [hash |-> Hash(built[c]), status |-> status] \in Send
      BY <3>1 DEF Send, SendStatuses, Statuses
    <3>3. sent'[c] # NoSend
      BY <2>1, <3>2, NoneAssumption, NoTxAssumption DEF TypeInv, TypeOK
    <3>4. /\ outcome' = [outcome EXCEPT ![c] = "SendFailed"]
          /\ pc[c] = "send" /\ UNCHANGED <<accepted, lost>>
      BY <1>5, <2>1, <2>3 DEF SendTransaction, NotEnqueued, Return
    <3> QED
      BY <3>3, <3>4 DEF Tells
  <2> QED
    BY <2>2, <2>3
<1>6. CASE GetTransaction(c)
  <2>1. CASE sent[c].hash \in succeeded /\ Return(c, "Success")
    BY <1>6, <2>1 DEF GetTransaction, Return, Tells
  <2>2. CASE sent[c].hash \in failed /\ Return(c, "Failed")
    BY <1>6, <2>2 DEF GetTransaction, Return, Tells
  <2> QED
    BY <1>6, <2>1, <2>2 DEF GetTransaction
<1>7. CASE StillPending(c) \/ RequestFails(c) \/ SendReplyLost(c)
  <2>1. \/ outcome' = outcome
        \/ outcome' = [outcome EXCEPT ![c] = "RequestError"]
        \/ outcome' = [outcome EXCEPT ![c] = "StillPending"] /\ pc[c] = "poll"
    BY <1>7 DEF StillPending, RequestFails, SendReplyLost, Return
  <2> QED
    BY <2>1 DEF Tells
<1> QED
  BY <1>1, <1>2, <1>3, <1>4, <1>5, <1>6, <1>7 DEF Requests

LEMMA InitTold == Init => Told
  BY DEF Init, NetworkInit, Told

LEMMA NextTold ==
  ASSUME TypeInv, NetworkGood, SentIsAll, Told, [Next]_vars
  PROVE  Told'
<1>1. CASE Network \/ UNCHANGED vars
  BY <1>1, NetworkKeeps DEF Told, Invocations
<1>2. ASSUME NEW c \in Clients, Requests(c) \/ UserCalls(c)
      PROVE  Told'
  <2>1. UNCHANGED <<succeeded, failed>>
    BY <1>2, ClientsOnlyEnqueue
  <2>2. \/ outcome' = outcome
        \/ \E how \in Outcomes : outcome' = [outcome EXCEPT ![c] = how] /\ Tells(c, how)
    BY <1>2, Telling
  <2>3. Keeps(c) \/ SendsRestore(c) \/ SendsOwn(c) \/ LosesReply(c)
    BY <1>2, Sending
  <2>4. accepted \subseteq accepted' /\ lost \in Nat
    BY <2>3 DEF Keeps, SendsRestore, SendsOwn, LosesReply, TypeInv, TypeOK
  <2>5. ASSUME NEW d \in Clients, sent[d] # NoSend
        PROVE  sent'[d] = sent[d]
    BY <2>3, <2>5 DEF Keeps, SendsRestore, SendsOwn, LosesReply, TypeInv, TypeOK, Locals
  <2>6. ASSUME NEW d \in Clients, sent[d] # NoSend, lost' = 0, lost = 0 => Invocations(d) = {}
        PROVE  Invocations(d)' = {}
    <3>1. lost = 0 /\ ~LosesReply(c)
      BY <2>3, <2>4, <2>6 DEF Keeps, SendsRestore, SendsOwn, LosesReply
    <3>2. CASE Keeps(c)
      BY <2>6, <3>1, <3>2 DEF Keeps, Invocations
    <3>3. CASE SendsRestore(c)
      BY <2>6, <3>1, <3>3, ClientsAssumption, OwnersAssumption DEF SendsRestore, Invocations
    <3>4. CASE SendsOwn(c)
      BY <2>6, <3>1, <3>4 DEF SendsOwn, Invocations, TypeInv, Locals
    <3> QED
      BY <2>3, <3>1, <3>2, <3>3, <3>4
  <2>7. ASSUME NEW d \in Clients, outcome'[d] = outcome[d]
        PROVE  /\ outcome'[d] = "Success" => Invocations(d)' \cap succeeded' # {}
               /\ outcome'[d] = "Failed" => sent'[d] # NoSend /\ sent'[d].hash \in failed'
               /\ outcome'[d] = "SendFailed" =>
                    sent'[d] # NoSend /\ (lost' = 0 => Invocations(d)' = {})
    <3>1. CASE outcome[d] = "Success"
      BY <2>1, <2>4, <2>7, <3>1 DEF Told, Invocations
    <3>2. CASE outcome[d] = "Failed"
      BY <2>1, <2>5, <2>7, <3>2 DEF Told
    <3>3. CASE outcome[d] = "SendFailed"
      <4>1. sent[d] # NoSend /\ (lost = 0 => Invocations(d) = {})
        BY <3>3 DEF Told
      <4> QED
        BY <2>5, <2>6, <2>7, <3>3, <4>1
    <3> QED
      BY <2>7, <3>1, <3>2, <3>3
  <2>8. ASSUME NEW how \in Outcomes, outcome' = [outcome EXCEPT ![c] = how], Tells(c, how)
        PROVE  /\ outcome'[c] = "Success" => Invocations(c)' \cap succeeded' # {}
               /\ outcome'[c] = "Failed" => sent'[c] # NoSend /\ sent'[c].hash \in failed'
               /\ outcome'[c] = "SendFailed" =>
                    sent'[c] # NoSend /\ (lost' = 0 => Invocations(c)' = {})
    <3>1. outcome'[c] = how
      BY <2>8 DEF TypeInv, TypeOK
    <3>2. CASE how = "Success"
      <4>1. /\ sent[c] # NoSend /\ sent[c].hash.owner = c
            /\ sent[c].hash \in succeeded /\ sent[c].hash \in accepted
        BY <2>8, <3>2 DEF Tells, TypeInv, Locals, NetworkGood
      <4>2. sent[c].hash \in Invocations(c)' /\ sent[c].hash \in succeeded'
        BY <2>1, <2>4, <4>1 DEF Invocations
      <4> QED
        BY <3>1, <3>2, <4>2
    <3>3. CASE how = "Failed"
      BY <2>1, <2>8, <3>1, <3>3 DEF Tells, TypeInv, Locals
    <3>4. CASE how = "SendFailed"
      <4>1. pc[c] = "send" /\ sent[c] = NoSend /\ UNCHANGED <<accepted, lost>> /\ sent'[c] # NoSend
        BY <2>8, <3>4 DEF Tells, TypeInv, Locals
      <4>2. lost = 0 => Invocations(c) = {}
        BY <4>1 DEF SentIsAll
      <4>3. lost' = 0 => Invocations(c)' = {}
        BY <4>1, <4>2 DEF Invocations
      <4> QED
        BY <3>1, <3>4, <4>1, <4>3
    <3> QED
      BY <3>1, <3>2, <3>3, <3>4
  <2>9. ASSUME NEW how \in Outcomes, outcome' = [outcome EXCEPT ![c] = how],
               NEW d \in Clients, d # c
        PROVE  outcome'[d] = outcome[d]
    BY <2>9 DEF TypeInv, TypeOK
  <2> QED
    BY <2>2, <2>7, <2>8, <2>9 DEF Told
<1> QED
  BY <1>1, <1>2 DEF Next

-----------------------------------------------------------------------------
\* send_transaction_response says PENDING only of what the network got, and
\* nothing is called pending without it.
PendingGood ==
  \A c \in Clients :
    /\ sent[c] # NoSend /\ sent[c].status = "PENDING" => sent[c].hash \in accepted
    /\ outcome[c] = "StillPending" => sent[c] # NoSend

LEMMA InitPending == Init => PendingGood
  BY DEF Init, NetworkInit, PendingGood

LEMMA NextPending ==
  ASSUME TypeInv, PendingGood, [Next]_vars
  PROVE  PendingGood'
<1>1. CASE Network \/ UNCHANGED vars
  BY <1>1, NetworkKeeps DEF PendingGood
<1>2. ASSUME NEW c \in Clients, Requests(c) \/ UserCalls(c), NEW d \in Clients
      PROVE  /\ sent'[d] # NoSend /\ sent'[d].status = "PENDING" => sent'[d].hash \in accepted'
             /\ outcome'[d] = "StillPending" => sent'[d] # NoSend
  <2>d. /\ sent[d] # NoSend /\ sent[d].status = "PENDING" => sent[d].hash \in accepted
        /\ outcome[d] = "StillPending" => sent[d] # NoSend
    BY DEF PendingGood
  <2>1. /\ accepted \subseteq accepted'
        /\ sent'[d] = sent[d] \/ (d = c /\ SendsOwn(c))
    <3>1. CASE Keeps(c) \/ SendsRestore(c) \/ LosesReply(c)
      BY <3>1 DEF Keeps, SendsRestore, LosesReply
    <3>2. CASE SendsOwn(c)
      BY <3>2 DEF SendsOwn, TypeInv, TypeOK
    <3> QED
      BY <1>2, <3>1, <3>2, Sending
  <2>2. outcome'[d] = "StillPending" =>
          outcome[d] = "StillPending" \/ (d = c /\ pc[c] = "poll")
    <3>1. CASE outcome' = outcome
      BY <3>1
    <3>2. ASSUME NEW how \in Outcomes, outcome' = [outcome EXCEPT ![c] = how], Tells(c, how)
          PROVE  outcome'[d] = "StillPending" =>
                   outcome[d] = "StillPending" \/ (d = c /\ pc[c] = "poll")
      BY <3>2 DEF Tells, TypeInv, TypeOK
    <3> QED
      BY <1>2, <3>1, <3>2, Telling
  <2>3. CASE sent'[d] = sent[d]
    <3>1. pc[d] = "poll" => sent[d] # NoSend
      BY DEF TypeInv, Locals
    <3> QED
      BY <2>d, <2>1, <2>2, <2>3, <3>1
  <2>4. CASE d = c /\ SendsOwn(c)
    <3>1. PICK status \in Statuses :
            /\ sent' = [sent EXCEPT ![c] = [hash |-> Hash(built[c]), status |-> status]]
            /\ status = "PENDING" => Hash(built[c]) \in accepted'
      BY <2>4 DEF SendsOwn
    <3>2. Hash(built[c]) \in Tx
      BY <2>4, HashFields DEF SendsOwn
    <3> DEFINE s == [hash |-> Hash(built[c]), status |-> status]
    <3>3. s # NoSend /\ s.hash = Hash(built[c]) /\ s.status = status
      BY <3>2, NoneAssumption DEF Send
    <3>4. sent'[c] = s
      BY <3>1 DEF TypeInv, TypeOK
    <3> HIDE DEF s
    <3> QED
      BY <2>4, <3>1, <3>3, <3>4
  <2> QED
    BY <2>1, <2>3, <2>4
<1> QED
  BY <1>1, <1>2 DEF Next, PendingGood

\* submit() tells the truth: Success only of an invocation that was applied,
\* TransactionFailedError and SendTransactionFailedError, unless a reply was
\* lost, only of one that was not, and TransactionStillPendingError only of one
\* the network got, unless an earlier submit() had it refused.
THEOREM SubmitIsTruthful == Spec => []OutcomeIsTrue
<1>1. NetworkGood /\ SentIsAll /\ Told =>
        \A c \in Clients : outcome[c] = "Failed" /\ lost = 0 => Invocations(c) \cap succeeded = {}
  <2> SUFFICES ASSUME NetworkGood, SentIsAll, Told, NEW c \in Clients,
                      outcome[c] = "Failed", lost = 0
               PROVE  Invocations(c) \cap succeeded = {}
    OBVIOUS
  <2>1. Invocations(c) \subseteq {sent[c].hash} /\ sent[c].hash \in failed
    BY DEF SentIsAll, Told
  <2> QED
    BY <2>1 DEF NetworkGood
<1>2. TypeInv /\ PendingGood =>
        \A c \in Clients :
          outcome[c] = "StillPending" => Invocations(c) # {} \/ sent[c].status # "PENDING"
  BY DEF TypeInv, Locals, PendingGood, Invocations
<1>3. TypeInv /\ NetworkGood /\ SentIsAll /\ Told /\ PendingGood => OutcomeIsTrue
  BY <1>1, <1>2 DEF OutcomeIsTrue, Told
<1>4. QED
  BY InitTypeInv, NextTypeInv, InitNetwork, NextNetwork, InitSent, NextSent,
     InitTold, NextTold, InitPending, NextPending, <1>3, PTL DEF Spec

-----------------------------------------------------------------------------
(* The cache and the restores *)

CacheGood ==
  /\ CacheMatchesSimulation
  /\ \A c \in Clients :
       pc[c] = "load" \/ (pc[c] = "simulate" /\ call[c].op = "simulate") => cache[c] = NoSim

RestoresGood ==
  \A c \in Clients :
    /\ restored[c] <= account
    /\ pc[c] = "simulate" /\ call[c].op = "simulate" => draft[c].seq > restored[c]
    /\ pc[c] # "idle" => outcome[c] = "none"
    /\ outcome[c] = "Simulated" => built[c] # NoTx /\ built[c].seq > restored[c]

LEMMA InitCache == Init => CacheGood
  BY DEF Init, NetworkInit, CacheGood, CacheMatchesSimulation

LEMMA NextCache ==
  ASSUME TypeInv, CacheGood, [Next]_vars
  PROVE  CacheGood'
<1> USE DEF CacheGood, CacheMatchesSimulation, TypeInv, TypeOK
<1>1. CASE Network \/ UNCHANGED vars
  BY <1>1, NetworkKeeps
<1>2. ASSUME NEW c \in Clients, Requests(c) \/ UserCalls(c)
      PROVE  CacheGood'
  <2>1. CASE \E restore \in BOOLEAN : Simulate(c, restore)
    BY <2>1 DEF Simulate, Begin
  <2>2. CASE \/ \E restore \in BOOLEAN : Prepare(c, restore)
             \/ \E force \in BOOLEAN : PrepareSignAndSubmit(c, force)
    BY <2>2 DEF Prepare, PrepareSignAndSubmit, Begin
  <2>3. CASE \E force \in BOOLEAN : Sign(c, force) \/ SignAndSubmit(c, force)
    <3>1. /\ UNCHANGED simulation /\ pc[c] = "idle"
          /\ cache' \in {cache, [cache EXCEPT ![c] = Cached(simulation[c], cache[c])]}
          /\ \/ UNCHANGED <<pc, call>>
             \/ pc' = [pc EXCEPT ![c] = SubmitRequest(c)] /\ \A d \in Clients \ {c} : call'[d] = call[d]
      BY <2>3 DEF Sign, SignAndSubmit, Begin, CacheAfterSign
    <3> QED
      BY <3>1 DEF Cached, SubmitRequest
  <2>4. CASE \/ RestoreFootprint(c) \/ Submit(c)
             \/ \E a \in Addrs : Authorize(c, a) \/ AuthorizeFails(c, a)
    BY <2>4 DEF RestoreFootprint, Submit, Authorize, AuthorizeFails, SubmitRequest, Begin
  <2>5. CASE Query(c)
    BY <2>5 DEF Query, Cached
  <2>6. CASE LoadAccount(c) \/ RestoreLoadAccount(c)
    BY <2>6 DEF LoadAccount, RestoreLoadAccount, Await
  <2>7. CASE AnswerSimulate(c)
    <3>1. PICK sim \in SimulationAnswers :
            /\ simulation' = [simulation EXCEPT ![c] = sim]
            /\ \/ SimulationFails(c, sim)
               \/ SimulationNeedsRestore(c, sim)
               \/ \E f \in ResourceFees : SimulationSucceeds(c, sim, f)
      BY <2>7, AskedType DEF AnswerSimulate
    <3>2. CacheAtAnswer(c) = NoSim /\ Cached(sim, CacheAtAnswer(c)) = sim
      BY <2>7 DEF AnswerSimulate, CacheAtAnswer, Cached
    <3>3. \/ cache' = [cache EXCEPT ![c] = NoSim]
          \/ cache' = [cache EXCEPT ![c] = sim]
      BY <3>1, <3>2 DEF SimulationFails, SimulationNeedsRestore, SimulationSucceeds
    <3>4. /\ pc'[c] \notin {"load", "simulate"}
          /\ \A d \in Clients \ {c} : pc'[d] = pc[d] /\ call'[d] = call[d]
      <4>1. \/ \E request \in {"send", "poll", "restore_load"} : Await(c, request, NoTx)
            \/ \E how \in Outcomes : Return(c, how)
        BY <3>1 DEF SimulationFails, SimulationNeedsRestore, SimulationSucceeds, SubmitRequest, Outcomes
      <4> QED
        BY <4>1 DEF Await, Return
    <3> QED
      BY <3>1, <3>3, <3>4
  <2>8. CASE RestoreSimulate(c) \/ RestoreSend(c) \/ RestoreGivesUp(c)
    BY <2>8 DEF RestoreSimulate, RestoreSend, RestoreGivesUp, Await, Return
  <2>9. CASE RestoreDone(c)
    <3>1. CASE call[c].op = "simulate"
      BY <2>9, <3>1 DEF RestoreDone, Await
    <3>2. CASE call[c].op # "simulate"
      BY <2>9, <3>2 DEF RestoreDone, Await, Return
    <3> QED
      BY <3>1, <3>2
  <2>10. CASE SendTransaction(c) \/ SendReplyLost(c)
    BY <2>10 DEF SendTransaction, SendReplyLost, Await, Return
  <2>11. CASE GetTransaction(c) \/ StillPending(c) \/ RequestFails(c)
    BY <2>11 DEF GetTransaction, StillPending, RequestFails, Return
  <2> QED
    BY <1>2, <2>1, <2>2, <2>3, <2>4, <2>5, <2>6, <2>7, <2>8, <2>9, <2>10, <2>11
    DEF Requests, UserCalls
<1> QED
  BY <1>1, <1>2 DEF Next

\* result(), is_read_call() and sign() of a synchronous object decide from its
\* latest simulation.
THEOREM LatestSimulation == Spec => []CacheMatchesSimulation
<1>1. CacheGood => CacheMatchesSimulation
  BY DEF CacheGood
<1>2. TypeInv /\ CacheGood /\ [Next]_vars => CacheGood'
  BY NextCache
<1>3. QED
  BY InitTypeInv, NextTypeInv, InitCache, <1>2, <1>1, PTL DEF Spec

-----------------------------------------------------------------------------
LEMMA InitRestores == Init => RestoresGood
<1> SUFFICES ASSUME Init PROVE RestoresGood
  OBVIOUS
<1>1. ASSUME NEW c \in Clients
      PROVE  pc[c] = "idle" /\ outcome[c] = "none" /\ restored[c] = account
  BY DEF Init, NetworkInit
<1>2. account <= account
  BY DEF Init, NetworkInit
<1> QED
  BY <1>1, <1>2 DEF RestoresGood

LEMMA NextRestores ==
  ASSUME TypeInv, NetworkGood, RestoresGood, [Next]_vars
  PROVE  RestoresGood'
<1> USE DEF RestoresGood
<1>1. CASE Network \/ UNCHANGED vars
  <2>1. UNCHANGED <<pc, call, draft, outcome, built, restored>>
    BY <1>1, NetworkKeeps
  <2>2. account \in Nat /\ account' \in {account, account + 1}
    BY <1>1 DEF Network, Apply, LedgerApplies, Evict, PoolEvicts, OtherWalletSpends, WalletSpends, Archive, StateArchives, vars, networkVars,
                TypeInv, TypeOK
  <2>3. \A d \in Clients : restored[d] \in Nat
    BY DEF TypeInv, TypeOK
  <2>4. \A d \in Clients : restored[d] <= account'
    BY <2>2, <2>3
  <2> QED
    BY <2>1, <2>4
<1>2. ASSUME NEW c \in Clients, Requests(c) \/ UserCalls(c)
      PROVE  RestoresGood'
  <2> USE DEF TypeInv, TypeOK
  <2>0. UNCHANGED account /\ account \in Nat
    BY <1>2, ClientsOnlyEnqueue
  <2>1. CASE \/ \E restore \in BOOLEAN : Simulate(c, restore) \/ Prepare(c, restore)
             \/ \E force \in BOOLEAN : PrepareSignAndSubmit(c, force) \/ SignAndSubmit(c, force)
             \/ RestoreFootprint(c) \/ Submit(c)
    <3>1. /\ outcome' = [outcome EXCEPT ![c] = "none"]
          /\ restored' = [restored EXCEPT ![c] = 0]
          /\ pc'[c] = "simulate" => call'[c].op # "simulate"
          /\ \A d \in Clients \ {c} : /\ pc'[d] = pc[d] /\ call'[d] = call[d]
                                     /\ draft'[d] = draft[d] /\ built'[d] = built[d]
      BY <2>1 DEF Simulate, Prepare, PrepareSignAndSubmit, SignAndSubmit, RestoreFootprint, Submit,
                  Begin, SubmitRequest
    <3>2. restored'[c] <= account
      BY <2>0, <3>1
    <3> QED
      BY <2>0, <3>1, <3>2
  <2>2. CASE \/ \E force \in BOOLEAN : Sign(c, force)
             \/ \E a \in Addrs : Authorize(c, a) \/ AuthorizeFails(c, a)
    <3>1. /\ outcome' = [outcome EXCEPT ![c] = "none"]
          /\ UNCHANGED <<pc, call, draft, restored>>
          /\ \A d \in Clients \ {c} : built'[d] = built[d]
      BY <2>2 DEF Sign, Authorize, AuthorizeFails, historyVars
    <3> QED
      BY <2>0, <3>1
  <2>3. CASE Query(c)
    BY <2>0, <2>3 DEF Query, historyVars
  <2>4. CASE LoadAccount(c)
    <3>1. /\ draft' = [draft EXCEPT ![c] = Build(c, account + 1, 0)]
          /\ pc' = [pc EXCEPT ![c] = "simulate"]
          /\ pc[c] = "load"
          /\ UNCHANGED <<call, outcome, built, restored>>
      BY <2>4 DEF LoadAccount, Await, historyVars
    <3>2. account + 1 \in Nat /\ 0 \in Nat /\ account + 1 > restored[c]
      BY <2>0
    <3>3. Build(c, account + 1, 0).seq = account + 1
      BY <3>2, BuildFields
    <3>4. draft'[c].seq > restored[c]
      BY <3>1, <3>2, <3>3
    <3> QED
      BY <2>0, <3>1, <3>4
  <2>5. CASE AnswerSimulate(c)
    <3>1. PICK sim \in SimulationAnswers :
            \/ SimulationFails(c, sim)
            \/ SimulationNeedsRestore(c, sim)
            \/ \E f \in ResourceFees : SimulationSucceeds(c, sim, f)
      BY <2>5, AskedType DEF AnswerSimulate
    <3>2. /\ UNCHANGED restored /\ pc[c] = "simulate"
          /\ \A d \in Clients \ {c} : built'[d] = built[d]
      BY <2>5, <3>1 DEF AnswerSimulate, historyVars, SimulationFails, SimulationNeedsRestore,
                        SimulationSucceeds
    <3>3. \/ \E request \in {"send", "poll", "restore_load"} : Await(c, request, NoTx)
          \/ \E how \in Outcomes \ {"Simulated"} : Return(c, how)
          \/ Return(c, "Simulated") /\ call[c].op = "simulate" /\ ~sim.error /\ ~Restores(c, sim)
      BY <3>1 DEF SimulationFails, SimulationNeedsRestore, SimulationSucceeds, SubmitRequest, Outcomes
    <3>4. ASSUME Return(c, "Simulated"), call[c].op = "simulate", ~sim.error, ~Restores(c, sim)
          PROVE  built'[c] # NoTx /\ built'[c].seq > restored[c]
      <4>1. PICK f \in ResourceFees : SimulationSucceeds(c, sim, f)
        BY <3>1, <3>4 DEF SimulationFails, SimulationNeedsRestore
      <4> DEFINE a == Assemble(draft[c], f)
                 signs == /\ call[c].op = "sign_and_submit"
                          /\ Signable(a, sim, NoSim, FALSE, call[c].force)
                 t == [a EXCEPT !.signed = signs]
      <4>2. built' = [built EXCEPT ![c] = t] /\ signs \in BOOLEAN
        BY <4>1 DEF SimulationSucceeds
      <4> HIDE DEF signs, a
      <4>3. a \in Tx /\ a.seq = draft[c].seq
        <5>1. draft[c] \in Tx
          BY <3>2 DEF Locals, Restoring
        <5> HIDE DEF TypeInv, TypeOK
        <5> QED
          BY <5>1, AssembleFields DEF a
      <4>4. t \in Tx /\ t.seq = draft[c].seq
        BY <4>2, <4>3, SignedFields
      <4> HIDE DEF t
      <4>5. draft[c].seq > restored[c]
        BY <3>2, <3>4
      <4> QED
        BY <4>2, <4>4, <4>5, NoneAssumption, NoTxAssumption
    <3>5. \A d \in Clients \ {c} : /\ pc'[d] = pc[d] /\ call'[d] = call[d]
                                  /\ draft'[d] = draft[d] /\ outcome'[d] = outcome[d]
      BY <3>3 DEF Await, Return
    <3>6. \/ pc'[c] \in {"send", "poll", "restore_load"} /\ outcome'[c] = outcome[c]
          \/ pc'[c] = "idle" /\ outcome'[c] # "Simulated"
          \/ pc'[c] = "idle" /\ built'[c] # NoTx /\ built'[c].seq > restored[c]
      BY <3>3, <3>4 DEF Await, Return
    <3>7. outcome[c] = "none"
      BY <3>2
    <3> QED
      BY <2>0, <3>2, <3>5, <3>6, <3>7
  <2>6. CASE \/ RestoreLoadAccount(c) \/ RestoreSimulate(c) \/ RestoreSend(c)
             \/ RestoreGivesUp(c) \/ SendTransaction(c) \/ GetTransaction(c)
             \/ StillPending(c) \/ RequestFails(c) \/ SendReplyLost(c)
    <3>1. UNCHANGED <<built, restored>> /\ pc[c] # "idle"
      BY <2>6 DEF RestoreLoadAccount, RestoreSimulate, RestoreSend, RestoreGivesUp,
                  SendTransaction, GetTransaction, StillPending, RequestFails, SendReplyLost,
                  historyVars
    <3>2. \/ \E request \in {"restore_simulate", "restore_send", "restore_poll", "poll"} :
               \E t : Await(c, request, t)
          \/ \E how \in Outcomes \ {"Simulated"} : Return(c, how)
          \/ UNCHANGED <<pc, call, draft, outcome>>
      BY <2>6 DEF RestoreLoadAccount, RestoreSimulate, RestoreSend, RestoreGivesUp,
                  SendTransaction, GetTransaction, StillPending, RequestFails, SendReplyLost, Outcomes
    <3> QED
      BY <2>0, <3>1, <3>2 DEF Await, Return
  <2>7. CASE RestoreDone(c)
    <3>1. /\ UNCHANGED built
          /\ restored' = [restored EXCEPT ![c] = draft[c].seq]
          /\ pc[c] = "restore_poll" /\ outcome[c] = "none"
      BY <2>7 DEF RestoreDone
    <3>2. draft[c].seq <= account
      <4>1. draft[c] \in Tx /\ Hash(draft[c]) \in succeeded
        BY <2>7 DEF RestoreDone, Locals, Restoring
      <4>2. Hash(draft[c]).seq = draft[c].seq
        BY <4>1, HashFields
      <4> QED
        BY <4>1, <4>2 DEF NetworkGood
    <3>3. \/ \E t : Await(c, "load", t)
          \/ \E t : Await(c, "simulate", t) /\ call[c].op # "simulate"
          \/ Return(c, "Restored")
      BY <2>7 DEF RestoreDone
    <3>4. restored'[c] <= account /\ \A d \in Clients \ {c} : restored'[d] = restored[d]
      BY <3>1, <3>2
    <3> QED
      BY <2>0, <3>1, <3>3, <3>4 DEF Await, Return
  <2> QED
    BY <1>2, <2>1, <2>2, <2>3, <2>4, <2>5, <2>6, <2>7 DEF Requests, UserCalls
<1> QED
  BY <1>1, <1>2 DEF Next

\* simulate() leaves a transaction that comes after the restore it waited for in
\* the account's sequence, whoever else spends that sequence meanwhile.
THEOREM SimulateComesAfterRestore == Spec => []SimulateOutlivesRestore
<1>1. RestoresGood => SimulateOutlivesRestore
  BY DEF RestoresGood, SimulateOutlivesRestore, OutlivesRestore
<1>2. QED
  BY InitTypeInv, NextTypeInv, InitNetwork, NextNetwork, InitRestores, NextRestores,
     <1>1, PTL DEF Spec

-----------------------------------------------------------------------------
(* prepare() and sign_and_submit() restore too, but simulate the transaction *)
(* they already have: its place in the sequence is spent by then.            *)

Preparing == {"prepare", "sign_and_submit"}

Older(c) ==
  /\ built[c] # NoTx => built[c].seq <= account + 1
  /\ pc[c] = "load" => call[c].op \notin Preparing
  /\ pc[c] = "simulate" /\ call[c].op \in Preparing => draft[c].seq = built[c].seq
  /\ pc[c] = "simulate" => draft[c].seq <= account + 1
  /\ pc[c] \in Restoring => draft[c].seq > restored[c]
  /\ pc[c] \in Restoring /\ call[c].op \in Preparing => built[c].seq <= draft[c].seq
  /\ pc[c] # "idle" /\ call[c].op \in Preparing /\ restored[c] # 0 => built[c].seq <= restored[c]
  /\ outcome[c] = "Prepared" /\ restored[c] # 0 => built[c].seq <= restored[c]
  /\ outcome[c] = "Prepared" => built[c] # NoTx
  /\ pc[c] = "send" /\ restored[c] # 0 => call[c].op \in Preparing

OlderAll == \A c \in Clients : Older(c)

\* A client's step changes no other object.
Alone(c) ==
  \A d \in Clients \ {c} :
    /\ pc'[d] = pc[d] /\ call'[d] = call[d] /\ outcome'[d] = outcome[d]
    /\ draft'[d] = draft[d] /\ built'[d] = built[d] /\ restored'[d] = restored[d]

LEMMA Locality ==
  ASSUME NEW c \in Clients, TypeOK, Requests(c) \/ UserCalls(c)
  PROVE  Alone(c)
<1> USE DEF Alone, TypeOK, historyVars
<1>1. CASE UserCalls(c)
  <2>1. CASE \/ \E restore \in BOOLEAN : Simulate(c, restore) \/ Prepare(c, restore)
             \/ \E force \in BOOLEAN : PrepareSignAndSubmit(c, force)
             \/ RestoreFootprint(c) \/ Submit(c)
    BY <2>1 DEF Simulate, Prepare, PrepareSignAndSubmit, RestoreFootprint, Submit, Begin
  <2>2. CASE \E force \in BOOLEAN : SignAndSubmit(c, force)
    BY <2>2 DEF SignAndSubmit, Begin
  <2>3. CASE \/ \E force \in BOOLEAN : Sign(c, force)
             \/ \E a \in Addrs : Authorize(c, a) \/ AuthorizeFails(c, a)
             \/ Query(c)
    BY <2>3 DEF Sign, Authorize, AuthorizeFails, Query
  <2> QED
    BY <1>1, <2>1, <2>2, <2>3 DEF UserCalls
<1>2. CASE LoadAccount(c) \/ RestoreLoadAccount(c) \/ RestoreSimulate(c)
  BY <1>2 DEF LoadAccount, RestoreLoadAccount, RestoreSimulate, Await, Return
<1>3. CASE AnswerSimulate(c)
  <2>1. PICK sim \in SimulationAnswers :
          \/ SimulationFails(c, sim)
          \/ SimulationNeedsRestore(c, sim)
          \/ \E f \in ResourceFees : SimulationSucceeds(c, sim, f)
    BY <1>3, AskedType DEF AnswerSimulate
  <2>2. UNCHANGED restored /\ \A d \in Clients \ {c} : built'[d] = built[d]
    BY <1>3, <2>1 DEF AnswerSimulate, SimulationFails, SimulationNeedsRestore, SimulationSucceeds
  <2>3. (\E request : Await(c, request, NoTx)) \/ \E how : Return(c, how)
    BY <2>1 DEF SimulationFails, SimulationNeedsRestore, SimulationSucceeds
  <2> QED
    BY <2>2, <2>3 DEF Await, Return
<1>4. CASE RestoreDone(c)
  BY <1>4 DEF RestoreDone, Await, Return
<1>5. CASE \/ RestoreSend(c) \/ RestoreGivesUp(c) \/ SendTransaction(c) \/ GetTransaction(c)
           \/ StillPending(c) \/ RequestFails(c) \/ SendReplyLost(c)
  BY <1>5 DEF RestoreSend, RestoreGivesUp, SendTransaction, GetTransaction, StillPending,
              RequestFails, SendReplyLost, Await, Return
<1> QED
  BY <1>1, <1>2, <1>3, <1>4, <1>5 DEF Requests

LEMMA InitOlder == Init => OlderAll
  BY DEF Init, NoCall, OlderAll, Older, Preparing, Restoring

\* A call that begins has restored nothing yet, and simulates what it has.
LEMMA BeginsOlder ==
  ASSUME NEW c \in Clients, TypeInv, Older(c), UserCalls(c), account' = account
  PROVE  Older(c)'
<1> USE DEF TypeInv, TypeOK, Preparing, Restoring
<1>0. account \in Nat
  OBVIOUS
<1>1. CASE \/ \E restore \in BOOLEAN : Simulate(c, restore)
           \/ RestoreFootprint(c) \/ Submit(c)
  <2>1. /\ pc'[c] \notin {"simulate"} \cup Restoring /\ outcome'[c] = "none"
        /\ restored'[c] = 0 /\ built'[c] = built[c] /\ call'[c].op \notin Preparing
    BY <1>1 DEF Simulate, RestoreFootprint, Submit, SubmitRequest, Begin
  <2> QED
    BY <1>0, <2>1 DEF Older
<1>2. CASE \/ \E restore \in BOOLEAN : Prepare(c, restore)
           \/ \E force \in BOOLEAN : PrepareSignAndSubmit(c, force)
  <2>1. /\ pc'[c] = "simulate" /\ outcome'[c] = "none" /\ restored'[c] = 0
        /\ built'[c] = built[c] /\ draft'[c] = ForSimulation(built[c]) /\ built[c] # NoTx
    BY <1>2 DEF Prepare, PrepareSignAndSubmit, Preparable, Begin
  <2>2. built[c] \in Tx
    BY <2>1
  <2>3. ForSimulation(built[c]).seq = built[c].seq
    BY <2>2, ForSimulationFields
  <2>4. draft'[c].seq = built'[c].seq /\ built'[c].seq <= account + 1
    BY <2>1, <2>3 DEF Older
  <2> QED
    BY <1>0, <2>1, <2>4 DEF Older
<1>3. CASE \E force \in BOOLEAN : SignAndSubmit(c, force)
  <2>1. /\ pc'[c] \in {"send", "poll"} /\ outcome'[c] = "none" /\ restored'[c] = 0
        /\ built' = [built EXCEPT ![c].signed = TRUE] /\ built[c] \in Tx /\ built[c] # NoTx
    BY <1>3 DEF SignAndSubmit, Signable, SubmitRequest, Begin
  <2>2. built'[c].seq = built[c].seq
    BY <2>1, SignedFields
  <2>3. built'[c].seq <= account + 1
    BY <2>1, <2>2 DEF Older
  <2> QED
    BY <1>0, <2>1, <2>3 DEF Older
<1>4. CASE \/ \E force \in BOOLEAN : Sign(c, force)
           \/ \E a \in Addrs : Authorize(c, a) \/ AuthorizeFails(c, a)
  <2>1. /\ pc[c] = "idle" /\ pc' = pc /\ outcome'[c] = "none"
        /\ built[c] \in Tx /\ built[c] # NoTx
    BY <1>4 DEF Sign, Signable, Authorize, AuthorizeFails, Authorizable
  <2>2. built'[c].seq = built[c].seq
    <3>1. CASE built' = [built EXCEPT ![c].signed = TRUE]
      BY <2>1, <3>1, SignedFields
    <3>2. ASSUME NEW a \in Addrs, Authorize(c, a) \/ AuthorizeFails(c, a)
          PROVE  built'[c].seq = built[c].seq
      <4>1. a \in built[c].unsigned \cup built[c].authorized
        BY <3>2 DEF Authorize, AuthorizeFails, Authorizable
      <4>2. \/ built' = [built EXCEPT ![c] = SignEntries(built[c], a)]
            \/ built' = [built EXCEPT ![c] = SignSomeEntries(built[c], a)]
        BY <3>2 DEF Authorize, AuthorizeFails
      <4>3. /\ SignEntries(built[c], a).seq = built[c].seq
            /\ SignSomeEntries(built[c], a).seq = built[c].seq
        <5> HIDE DEF TypeInv, TypeOK
        <5> QED
          BY <2>1, <4>1, SignEntriesFields, SignSomeEntriesFields
      <4> QED
        BY <4>2, <4>3
    <3> QED
      BY <1>4, <3>1, <3>2 DEF Sign
  <2>3. built'[c].seq <= account + 1
    BY <2>1, <2>2 DEF Older
  <2> QED
    BY <1>0, <2>1, <2>3 DEF Older
<1>5. CASE Query(c)
  BY <1>0, <1>5 DEF Query, historyVars, Older
<1> QED
  BY <1>1, <1>2, <1>3, <1>4, <1>5 DEF UserCalls

\* The answer of a simulation keeps the transaction's place in the sequence.
LEMMA AnswerOlder ==
  ASSUME NEW c \in Clients, TypeInv, Older(c), outcome[c] = "none",
         AnswerSimulate(c), account' = account
  PROVE  Older(c)'
<1> USE DEF Preparing, Restoring
<1>0. /\ account \in Nat /\ pc[c] = "simulate" /\ draft[c] \in Tx /\ restored' = restored
      /\ pc \in [Clients -> Requested] /\ call \in [Clients -> Calls]
      /\ outcome \in [Clients -> Outcomes] /\ built \in [Clients -> Tx \cup {NoTx}]
      /\ draft \in [Clients -> Tx \cup {NoTx}]
  BY DEF AnswerSimulate, TypeInv, TypeOK, Locals, historyVars
<1>1. call[c].op \in Preparing => built[c] # NoTx
  BY <1>0 DEF TypeInv, Locals
<1>2. PICK sim \in SimulationAnswers :
        \/ SimulationFails(c, sim)
        \/ SimulationNeedsRestore(c, sim)
        \/ \E f \in ResourceFees : SimulationSucceeds(c, sim, f)
  BY AskedType DEF AnswerSimulate
<1>3. CASE SimulationFails(c, sim) \/ SimulationNeedsRestore(c, sim)
  <2>1. /\ built'[c] = built[c]
        /\ \/ pc'[c] = "restore_load" /\ call'[c] = call[c] /\ outcome'[c] = "none"
           \/ pc'[c] = "idle" /\ outcome'[c] \in {"SimulationFailed", "ValueError"}
    BY <1>0, <1>3 DEF SimulationFails, SimulationNeedsRestore, Await, Return
  <2> QED
    BY <1>0, <2>1 DEF Older
<1>4. ASSUME NEW f \in ResourceFees, SimulationSucceeds(c, sim, f)
      PROVE  Older(c)'
  <2> DEFINE a == Assemble(draft[c], f)
             signs == /\ call[c].op = "sign_and_submit"
                      /\ Signable(a, sim, NoSim, FALSE, call[c].force)
             t == [a EXCEPT !.signed = signs]
  <2>1. /\ built' = [built EXCEPT ![c] = t] /\ signs \in BOOLEAN
        /\ signs => call[c].op = "sign_and_submit"
        /\ IF signs THEN Await(c, SubmitRequest(c), NoTx)
           ELSE Return(c, CASE call[c].op = "simulate" -> "Simulated"
                            [] call[c].op = "prepare" -> "Prepared"
                            [] OTHER -> "Refused")
    BY <1>4 DEF SimulationSucceeds
  <2> HIDE DEF signs, a
  <2>2. a \in Tx /\ a.seq = draft[c].seq
    BY <1>0, AssembleFields DEF a
  <2>3. t \in Tx /\ t.seq = draft[c].seq
    BY <2>1, <2>2, SignedFields
  <2> HIDE DEF t
  <2>4. built'[c] = t /\ built'[c] # NoTx /\ built'[c].seq = draft[c].seq
    BY <1>0, <2>1, <2>3, NoTxAssumption
  <2>5. /\ built'[c].seq <= account + 1
        /\ call[c].op \in Preparing => built'[c].seq = built[c].seq
    BY <1>0, <2>4 DEF Older
  <2>6. call[c].op \in Preparing /\ restored[c] # 0 => built'[c].seq <= restored[c]
    BY <1>0, <2>5 DEF Older
  <2>7. \/ /\ pc'[c] \in {"send", "poll"} /\ call'[c] = call[c] /\ outcome'[c] = "none"
           /\ call[c].op = "sign_and_submit"
        \/ /\ pc'[c] = "idle"
           /\ outcome'[c] = "Prepared" => call[c].op = "prepare"
    BY <1>0, <2>1 DEF Await, Return, SubmitRequest
  <2> QED
    BY <1>0, <2>4, <2>5, <2>6, <2>7 DEF Older
<1> QED
  BY <1>2, <1>3, <1>4

LEMMA RequestsOlder ==
  ASSUME NEW c \in Clients, TypeInv, RestoresGood, Older(c), Requests(c), account' = account
  PROVE  Older(c)'
<1> USE DEF Preparing, Restoring
<1>0. /\ account \in Nat
      /\ pc \in [Clients -> Requested] /\ call \in [Clients -> Calls]
      /\ outcome \in [Clients -> Outcomes] /\ built \in [Clients -> Tx \cup {NoTx}]
      /\ draft \in [Clients -> Tx \cup {NoTx}] /\ restored \in [Clients -> Nat]
      /\ pc[c] # "idle" => outcome[c] = "none"
      /\ pc[c] \in {"simulate"} \cup Restoring => draft[c] \in Tx
      /\ pc[c] # "idle" /\ call[c].op \in Preparing => built[c] \in Tx /\ built[c] # NoTx
  BY DEF TypeInv, TypeOK, Locals, RestoresGood
<1>1. CASE LoadAccount(c)
  <2>1. /\ draft'[c] = Build(c, account + 1, 0) /\ pc'[c] = "simulate" /\ pc[c] = "load"
        /\ call' = call /\ built' = built /\ restored' = restored /\ outcome' = outcome
    BY <1>0, <1>1 DEF LoadAccount, Await, historyVars
  <2>2. account + 1 \in Nat /\ 0 \in Nat
    BY <1>0
  <2>3. draft'[c].seq = account + 1
    <3>1. Build(c, account + 1, 0).seq = account + 1
      BY <2>2, BuildFields
    <3> QED
      BY <2>1, <3>1
  <2>4. call[c].op \notin Preparing
    BY <1>0, <2>1 DEF Older
  <2> QED
    BY <1>0, <2>1, <2>3, <2>4 DEF Older
<1>2. CASE AnswerSimulate(c)
  <2>1. outcome[c] = "none"
    BY <1>0, <1>2 DEF AnswerSimulate
  <2> QED
    BY <1>2, <2>1, AnswerOlder
<1>3. CASE RestoreLoadAccount(c)
  <2>1. PICK f \in ResourceFees : Await(c, "restore_simulate", Build(RestoreOp, account + 1, f.stored))
    BY <1>3 DEF RestoreLoadAccount
  <2>2. /\ draft'[c] = Build(RestoreOp, account + 1, f.stored) /\ pc'[c] = "restore_simulate"
        /\ pc[c] = "restore_load" /\ call' = call /\ outcome' = outcome
        /\ built' = built /\ restored' = restored
    BY <1>0, <1>3, <2>1 DEF RestoreLoadAccount, Await, historyVars
  <2>3. account + 1 \in Nat /\ f.stored \in Nat
    BY <1>0, AskedType
  <2>4. draft'[c].seq = account + 1
    <3>1. Build(RestoreOp, account + 1, f.stored).seq = account + 1
      BY <2>3, BuildFields
    <3> QED
      BY <2>2, <3>1
  <2>5. account + 1 > restored[c] /\ restored' = restored
    BY <1>0, <2>2 DEF RestoresGood
  <2> QED
    BY <1>0, <2>2, <2>4, <2>5 DEF Older
<1>4. CASE RestoreSimulate(c)
  <2>1. pc[c] = "restore_simulate" /\ built' = built /\ restored' = restored
    BY <1>4 DEF RestoreSimulate, historyVars
  <2>2. CASE Return(c, "RestorationFailed")
    BY <1>0, <2>1, <2>2 DEF Return, Older
  <2>3. ASSUME NEW f \in ResourceFees,
               Await(c, "restore_send", [Assemble(draft[c], f) EXCEPT !.signed = TRUE])
        PROVE  Older(c)'
    <3>1. draft[c] \in Tx
      BY <1>0, <2>1
    <3> DEFINE a == Assemble(draft[c], f)
    <3>2. a \in Tx /\ a.seq = draft[c].seq
      BY <3>1, AssembleFields
    <3>3. draft'[c] = [a EXCEPT !.signed = TRUE] /\ pc'[c] = "restore_send"
          /\ call' = call /\ outcome' = outcome
      BY <1>0, <2>3 DEF Await
    <3> HIDE DEF a
    <3>4. draft'[c].seq = draft[c].seq
      BY <3>2, <3>3, SignedFields
    <3> QED
      BY <1>0, <2>1, <3>3, <3>4 DEF Older
  <2> QED
    BY <1>4, <2>2, <2>3, AskedType DEF RestoreSimulate
<1>5. CASE RestoreSend(c)
  <2>1. pc[c] = "restore_send" /\ built' = built /\ restored' = restored
    BY <1>5 DEF RestoreSend
  <2>2. \/ pc'[c] = "restore_poll" /\ draft'[c] = draft[c] /\ call' = call /\ outcome' = outcome
        \/ pc'[c] = "idle" /\ outcome'[c] = "RestorationFailed"
    BY <1>0, <1>5 DEF RestoreSend, Await, Return
  <2> QED
    BY <1>0, <2>1, <2>2 DEF Older
<1>6. CASE RestoreDone(c)
  <2>1. /\ pc[c] = "restore_poll" /\ built' = built /\ restored'[c] = draft[c].seq
        /\ draft[c].seq \in Nat
    BY <1>0, <1>6 DEF RestoreDone, Tx
  <2>2. CASE call[c].op \in Preparing
    <3>1. /\ pc'[c] = "simulate" /\ draft'[c] = ForSimulation(built[c])
          /\ call' = call /\ outcome' = outcome
      BY <1>0, <1>6, <2>2 DEF RestoreDone, Await
    <3>2. built[c] \in Tx /\ built[c] # NoTx
      BY <1>0, <2>1, <2>2
    <3>3. draft'[c].seq = built[c].seq
      BY <3>1, <3>2, ForSimulationFields
    <3> QED
      BY <1>0, <2>1, <2>2, <3>1, <3>2, <3>3 DEF Older
  <2>3. CASE call[c].op \notin Preparing
    <3>1. \/ pc'[c] = "load" /\ call' = call /\ outcome' = outcome
          \/ pc'[c] = "idle" /\ outcome'[c] = "Restored"
      BY <1>0, <1>6, <2>3 DEF RestoreDone, Await, Return
    <3> QED
      BY <1>0, <2>1, <2>3, <3>1 DEF Older
  <2> QED
    BY <2>2, <2>3
<1>7. CASE \/ RestoreGivesUp(c) \/ SendTransaction(c) \/ GetTransaction(c)
           \/ StillPending(c) \/ RequestFails(c) \/ SendReplyLost(c)
  <2>1. built' = built /\ restored' = restored
    BY <1>7 DEF RestoreGivesUp, SendTransaction, GetTransaction, StillPending, RequestFails,
                SendReplyLost, historyVars
  <2>2. \/ UNCHANGED <<pc, call, draft, outcome>>
        \/ /\ pc'[c] = "poll" /\ pc[c] = "send" /\ call' = call /\ outcome' = outcome
        \/ pc'[c] = "idle" /\ outcome'[c] # "Prepared"
    BY <1>0, <1>7 DEF RestoreGivesUp, SendTransaction, GetTransaction, StillPending, RequestFails,
                SendReplyLost, Await, Return
  <2> QED
    BY <1>0, <2>1, <2>2 DEF Older
<1> QED
  BY <1>1, <1>2, <1>3, <1>4, <1>5, <1>6, <1>7 DEF Requests

LEMMA NextOlder ==
  ASSUME TypeInv, RestoresGood, OlderAll, [Next]_vars
  PROVE  OlderAll'
<1>1. CASE Network \/ UNCHANGED vars
  <2>1. /\ pc' = pc /\ call' = call /\ draft' = draft /\ outcome' = outcome
        /\ built' = built /\ restored' = restored
    BY <1>1, NetworkKeeps
  <2>2. account \in Nat /\ account' \in {account, account + 1}
    BY <1>1 DEF Network, Apply, LedgerApplies, Evict, PoolEvicts, OtherWalletSpends, WalletSpends, Archive, StateArchives, vars, networkVars,
                TypeInv, TypeOK
  <2>3. ASSUME NEW c \in Clients
        PROVE  Older(c)'
    <3>1. /\ built[c] # NoTx => built[c].seq \in Nat
          /\ pc[c] = "simulate" => draft[c].seq \in Nat
      BY DEF TypeInv, TypeOK, Locals, Tx
    <3>2. \A n \in Nat : n <= account + 1 => n <= account' + 1
      <4>1. \A a, b, n \in Nat : b \in {a, a + 1} /\ n <= a + 1 => n <= b + 1
        OBVIOUS
      <4>2. account' \in Nat
        BY <2>2
      <4> QED
        BY <2>2, <4>1, <4>2
    <3>3. Older(c)
      BY DEF OlderAll
    <3> QED
      BY <2>1, <3>1, <3>2, <3>3 DEF Older
  <2> QED
    BY <2>3 DEF OlderAll
<1>2. ASSUME NEW c \in Clients, Requests(c) \/ UserCalls(c)
      PROVE  OlderAll'
  <2>1. account' = account
    BY <1>2, ClientsOnlyEnqueue
  <2>2. Older(c)'
    <3>1. Older(c)
      BY DEF OlderAll
    <3> QED
      BY <1>2, <2>1, <3>1, BeginsOlder, RequestsOlder
  <2>3. ASSUME NEW d \in Clients \ {c}
        PROVE  Older(d)'
    <3>1. Alone(c) /\ Older(d)
      BY <1>2, Locality DEF TypeInv, OlderAll
    <3> QED
      BY <2>1, <3>1 DEF Alone, Older
  <2> QED
    BY <2>2, <2>3 DEF OlderAll
<1> QED
  BY <1>1, <1>2 DEF Next

\* After a restore, what prepare() leaves and what sign_and_submit() sends is a
\* transaction that does not come after the restore, so that no ledger takes it.
RestoredIsSpent ==
  \A c \in Clients :
    restored[c] # 0 /\ (outcome[c] = "Prepared" \/ pc[c] = "send") =>
      built[c].seq <= restored[c] /\ "PENDING" \notin SendStatuses(built[c])

\* The restore inside prepare() and sign_and_submit() never leads to an accepted
\* invocation: the run prepare_restores shows one such behaviour, this that
\* there is no other.
THEOREM RestoreSpends == Spec => []RestoredIsSpent
<1>1. TypeInv /\ RestoresGood /\ OlderAll => RestoredIsSpent
  <2> SUFFICES ASSUME TypeInv, RestoresGood, OlderAll, NEW c \in Clients,
                      restored[c] # 0, outcome[c] = "Prepared" \/ pc[c] = "send"
               PROVE  built[c].seq <= restored[c] /\ "PENDING" \notin SendStatuses(built[c])
    BY DEF RestoredIsSpent
  <2>1. built[c] \in Tx /\ built[c].seq <= restored[c]
    BY DEF OlderAll, Older, TypeInv, TypeOK, Locals
  <2>2. restored[c] <= account /\ restored[c] \in Nat /\ account \in Nat /\ built[c].seq \in Nat
    BY <2>1 DEF RestoresGood, TypeInv, TypeOK, Tx
  <2>3. built[c].seq # account + 1
    BY <2>1, <2>2
  <2> QED
    BY <2>1, <2>3 DEF SendStatuses, Live
<1>2. QED
  BY InitTypeInv, NextTypeInv, InitNetwork, NextNetwork, InitRestores, NextRestores,
     InitOlder, NextOlder, <1>1, PTL DEF Spec

\* A call that is not over restores again.
RestoresAgain(c) == pc[c] # "idle" /\ restored'[c] # restored[c]

\* simulate() and prepare() start over after every restore, without a bound, but
\* never for nothing: each round has spent another number of the account's
\* sequence, which the network took and applied, past that of the round before.
RoundsSpend ==
  \A c \in Clients : RestoresAgain(c) =>
    /\ restored'[c] > restored[c] /\ restored'[c] <= account
    /\ \E t \in succeeded : t.owner = RestoreOp /\ t.seq = restored'[c]

THEOREM EveryRoundSpends == Spec => [][RoundsSpend]_vars
<1>1. TypeInv /\ NetworkGood /\ OlderAll /\ [Next]_vars => [RoundsSpend]_vars
  <2> SUFFICES ASSUME TypeInv, NetworkGood, OlderAll, Next,
                      NEW c \in Clients, RestoresAgain(c)
               PROVE  /\ restored'[c] > restored[c] /\ restored'[c] <= account
                      /\ \E t \in succeeded : t.owner = RestoreOp /\ t.seq = restored'[c]
    BY DEF RoundsSpend
  <2>1. pc[c] # "idle" /\ restored'[c] # restored[c]
    BY DEF RestoresAgain
  <2>2. RestoreDone(c)
    <3>1. ~Network
      BY <2>1, NetworkKeeps
    <3>2. PICK d \in Clients : Requests(d) \/ UserCalls(d)
      BY <3>1 DEF Next
    <3>3. d = c
      BY <2>1, <3>2, Locality DEF Alone, TypeInv
    <3>4. ~UserCalls(c)
      BY <2>1 DEF UserCalls, Simulate, Prepare, PrepareSignAndSubmit, Sign, SignAndSubmit,
                  Authorize, AuthorizeFails, RestoreFootprint, Submit, Query, Begin, historyVars
    <3> QED
      BY <2>1, <3>2, <3>3, <3>4
      DEF Requests, LoadAccount, AnswerSimulate, RestoreLoadAccount, RestoreSimulate, RestoreSend,
          RestoreGivesUp, SendTransaction, GetTransaction, StillPending, RequestFails,
          SendReplyLost, historyVars
  <2>3. /\ pc[c] = "restore_poll" /\ Hash(draft[c]) \in succeeded
        /\ restored'[c] = draft[c].seq
        /\ draft[c] \in Tx /\ draft[c].owner = RestoreOp
    BY <2>2 DEF RestoreDone, TypeInv, TypeOK, Locals, Restoring
  <2>4. Hash(draft[c]).owner = RestoreOp /\ Hash(draft[c]).seq = draft[c].seq
    BY <2>3, HashFields
  <2>5. draft[c].seq > restored[c]
    BY <2>3 DEF OlderAll, Older, Restoring
  <2>6. draft[c].seq <= account
    BY <2>3, <2>4 DEF NetworkGood
  <2> QED
    BY <2>3, <2>4, <2>5, <2>6
<1>2. QED
  BY InitTypeInv, NextTypeInv, InitNetwork, NextNetwork, InitRestores, NextRestores,
     InitOlder, NextOlder, <1>1, PTL DEF Spec

-----------------------------------------------------------------------------
(* The refinement of Invocation *)

Mapped == TypeInv /\ NetworkGood /\ SentIsAll /\ Told /\ lost = 0

-----------------------------------------------------------------------------
(* What the mapped variables are, in a state of Mapped *)

\* With at most one invocation, its place in the network's records is the stage.
LEMMA Stages ==
  ASSUME NetworkGood, SentIsAll, lost = 0, NEW c \in Clients
  PROVE  /\ Invocations(c) = {} => StageOf(c) = "unsent"
         /\ \A t \in Invocations(c) :
              /\ t \in succeeded => StageOf(c) = "succeeded"
              /\ t \in failed => StageOf(c) = "failed"
              /\ t \notin succeeded \cup failed => StageOf(c) = "accepted"
<1>1. CASE Invocations(c) = {}
  BY <1>1 DEF StageOf
<1>2. ASSUME NEW t \in Invocations(c)
      PROVE  /\ t \in succeeded => StageOf(c) = "succeeded"
             /\ t \in failed => StageOf(c) = "failed"
             /\ t \notin succeeded \cup failed => StageOf(c) = "accepted"
  <2>1. Invocations(c) = {t} /\ ~(t \in succeeded /\ t \in failed)
    BY <1>2 DEF SentIsAll, NetworkGood
  <2> QED
    BY <2>1 DEF StageOf
<1> QED
  BY <1>1, <1>2

\* What an object reports, its invocation's stage agrees with.
LEMMA Reported ==
  ASSUME Mapped, NEW c \in Clients
  PROVE  /\ ReportOf(c) \in {"none", "SendFailed", "Success", "Failed"}
         /\ ReportOf(c) = "SendFailed" => StageOf(c) = "unsent"
         /\ ReportOf(c) = "Success" => StageOf(c) = "succeeded"
         /\ ReportOf(c) = "Failed" => StageOf(c) = "failed"
<1>1. CASE outcome[c] = "SendFailed"
  BY <1>1, Stages DEF Mapped, Told, ReportOf
<1>2. CASE outcome[c] = "Success"
  <2>1. PICK t \in Invocations(c) : t \in succeeded
    BY <1>2 DEF Mapped, Told
  <2> QED
    BY <1>2, <2>1, Stages DEF Mapped, ReportOf
<1>3. CASE outcome[c] = "Failed"
  <2>1. sent[c].hash \in failed /\ sent[c].hash \in Invocations(c)
    BY <1>3 DEF Mapped, Told, NetworkGood, TypeInv, Locals, Invocations
  <2> QED
    BY <1>3, <2>1, Stages DEF Mapped, ReportOf
<1>4. CASE outcome[c] \notin {"SendFailed", "Success", "Failed"}
  BY <1>4 DEF ReportOf
<1> QED
  BY <1>1, <1>2, <1>3, <1>4

\* Both facts, as a state predicate, so that they can be used after a step too.
Meaning ==
  \A c \in Clients :
    /\ Invocations(c) = {} => StageOf(c) = "unsent"
    /\ \A t \in Invocations(c) :
         /\ t \in succeeded => StageOf(c) = "succeeded"
         /\ t \in failed => StageOf(c) = "failed"
         /\ t \notin succeeded \cup failed => StageOf(c) = "accepted"
    /\ ReportOf(c) \in {"none", "SendFailed", "Success", "Failed"}
    /\ ReportOf(c) = "SendFailed" => StageOf(c) = "unsent"
    /\ ReportOf(c) = "Success" => StageOf(c) = "succeeded"
    /\ ReportOf(c) = "Failed" => StageOf(c) = "failed"

LEMMA MappedMeans == Mapped => Meaning
<1> SUFFICES ASSUME Mapped, NEW c \in Clients
             PROVE  /\ Invocations(c) = {} => StageOf(c) = "unsent"
                    /\ \A t \in Invocations(c) :
                         /\ t \in succeeded => StageOf(c) = "succeeded"
                         /\ t \in failed => StageOf(c) = "failed"
                         /\ t \notin succeeded \cup failed => StageOf(c) = "accepted"
                    /\ ReportOf(c) \in {"none", "SendFailed", "Success", "Failed"}
                    /\ ReportOf(c) = "SendFailed" => StageOf(c) = "unsent"
                    /\ ReportOf(c) = "Success" => StageOf(c) = "succeeded"
                    /\ ReportOf(c) = "Failed" => StageOf(c) = "failed"
  BY DEF Meaning
<1>1. NetworkGood /\ SentIsAll /\ lost = 0
  BY DEF Mapped
<1> QED
  BY <1>1, Stages, Reported

-----------------------------------------------------------------------------
(* The invariant *)

LEMMA InitMapped == Init => Mapped
  BY InitTypeInv, InitNetwork, InitSent, InitTold DEF Mapped, Init, NetworkInit

LEMMA NextMapped ==
  ASSUME MaxLost = 0, Mapped, [Next]_vars
  PROVE  Mapped'
<1>1. TypeInv' /\ NetworkGood' /\ SentIsAll' /\ Told'
  BY NextTypeInv, NextNetwork, NextSent, NextTold DEF Mapped
<1>2. lost' = 0
  <2>1. CASE Network \/ UNCHANGED vars
    BY <2>1, NetworkKeeps DEF Mapped
  <2>2. ASSUME NEW c \in Clients, Requests(c) \/ UserCalls(c)
        PROVE  lost' = 0
    <3>1. ~SendReplyLost(c)
      BY DEF SendReplyLost, Mapped
    <3> QED
      BY <2>2, <3>1
      DEF Mapped, Requests, UserCalls, LoadAccount, AnswerSimulate, RestoreLoadAccount,
          RestoreSimulate, RestoreSend, RestoreDone, RestoreGivesUp, SendTransaction,
          GetTransaction, StillPending, RequestFails, Simulate, Prepare, PrepareSignAndSubmit,
          Sign, SignAndSubmit, Authorize, AuthorizeFails, RestoreFootprint, Submit, Query, Begin, historyVars
  <2> QED
    BY <2>1, <2>2 DEF Next
<1> QED
  BY <1>1, <1>2 DEF Mapped

-----------------------------------------------------------------------------
(* The refinement *)

stageBar  == [c \in Clients |-> StageOf(c)]
reportBar == [c \in Clients |-> ReportOf(c)]

\* A step that changes the stage or the report of at most one object.
LEMMA OthersKeep ==
  ASSUME NEW c \in Clients, Mapped, Mapped', Requests(c) \/ UserCalls(c)
  PROVE  \A d \in Clients \ {c} : StageOf(d)' = StageOf(d) /\ ReportOf(d)' = ReportOf(d)
<1>1. UNCHANGED <<succeeded, failed>>
  BY ClientsOnlyEnqueue
<1>2. ASSUME NEW d \in Clients \ {c}
      PROVE  Invocations(d)' = Invocations(d)
  <2>1. Keeps(c) \/ SendsRestore(c) \/ SendsOwn(c) \/ LosesReply(c)
    BY Sending DEF Mapped
  <2>2. ~LosesReply(c)
    BY DEF LosesReply, Mapped
  <2> QED
    BY <2>1, <2>2, ClientsAssumption, OwnersAssumption DEF Keeps, SendsRestore, SendsOwn, Invocations
<1>3. ASSUME NEW d \in Clients \ {c}
      PROVE  outcome'[d] = outcome[d]
  BY Telling DEF Mapped, TypeInv, TypeOK
<1> QED
  BY <1>1, <1>2, <1>3 DEF StageOf, ReportOf

\* A client's step reports something, or has the network accept its invocation.
LEMMA ClientStep ==
  ASSUME NEW c \in Clients, Mapped, Mapped', Meaning, Meaning', Requests(c) \/ UserCalls(c)
  PROVE  Promise!Tell(c) \/ Promise!Accept(c)
<1>1. UNCHANGED <<succeeded, failed>>
  BY ClientsOnlyEnqueue
<1>2. Keeps(c) \/ SendsRestore(c) \/ SendsOwn(c)
  <2>1. ~LosesReply(c)
    BY DEF LosesReply, Mapped
  <2> QED
    BY <2>1, Sending DEF Mapped
<1>3. /\ stageBar' = [stageBar EXCEPT ![c] = StageOf(c)']
      /\ reportBar' = [reportBar EXCEPT ![c] = ReportOf(c)']
      /\ stageBar[c] = StageOf(c) /\ reportBar[c] = ReportOf(c)
      /\ \A d \in Clients : [x \in Clients |-> x][d] = d
  BY OthersKeep DEF stageBar, reportBar
<1>4. ASSUME Invocations(c)' = Invocations(c)
      PROVE  Promise!Tell(c)
  <2>1. StageOf(c)' = StageOf(c)
    BY <1>1, <1>4 DEF StageOf
  <2>2. UNCHANGED stageBar
    BY <1>3, <2>1 DEF stageBar
  <2>3. /\ ReportOf(c)' \in {"none", "SendFailed", "Success", "Failed"}
        /\ ReportOf(c)' = "SendFailed" => StageOf(c) = "unsent"
        /\ ReportOf(c)' = "Success" => StageOf(c) = "succeeded"
        /\ ReportOf(c)' = "Failed" => StageOf(c) = "failed"
    BY <2>1 DEF Meaning
  <2> QED
    BY <1>3, <2>2, <2>3 DEF Promise!Tell, Promise!Reports, stageBar, reportBar
<1>5. ASSUME Invocations(c)' # Invocations(c)
      PROVE  Promise!Accept(c)
  <2>1. SendsOwn(c) /\ accepted' = accepted \cup {Hash(built[c])}
    BY <1>2, <1>5, ClientsAssumption, OwnersAssumption DEF Keeps, SendsRestore, SendsOwn, Invocations
  <2>2. sent[c] = NoSend /\ Hash(built[c]).owner = c
    BY <2>1 DEF SendsOwn, Mapped, TypeInv, Locals
  <2>3. Invocations(c) = {} /\ Hash(built[c]) \notin accepted
    BY <2>2 DEF Mapped, SentIsAll, Invocations
  <2>4. outcome[c] \notin {"SendFailed", "Success", "Failed"}
    BY <2>2, <2>3 DEF Mapped, Told
  <2>5. outcome'[c] \notin {"SendFailed", "Success", "Failed"}
    <3>1. ASSUME NEW how \in Outcomes, outcome' = [outcome EXCEPT ![c] = how], Tells(c, how)
          PROVE  how \notin {"SendFailed", "Success", "Failed"}
      BY <2>1, <2>3, <3>1 DEF Tells, SendsOwn
    <3>2. outcome' = outcome \/ \E how \in Outcomes :
             outcome' = [outcome EXCEPT ![c] = how] /\ Tells(c, how)
      BY Telling DEF Mapped
    <3> QED
      BY <2>4, <3>1, <3>2 DEF Mapped, TypeInv, TypeOK
  <2>6. ReportOf(c) = "none" /\ ReportOf(c)' = "none"
    BY <2>4, <2>5 DEF ReportOf
  <2>7. StageOf(c) = "unsent" /\ StageOf(c)' = "accepted"
    <3>1. /\ Hash(built[c]) \in Invocations(c)'
          /\ Hash(built[c]) \notin succeeded' \cup failed'
      BY <1>1, <2>1, <2>2, <2>3 DEF Invocations, Mapped, NetworkGood
    <3> QED
      BY <2>3, <3>1 DEF Meaning
  <2>8. stageBar[c] = "unsent" /\ stageBar' = [stageBar EXCEPT ![c] = "accepted"]
    BY <1>3, <2>7
  <2>9. reportBar[c] = "none" /\ UNCHANGED reportBar
    BY <1>3, <2>6 DEF reportBar
  <2>10. \A d \in Clients : [x \in Clients |-> x][d] = c => reportBar[d] = "none"
    BY <1>3, <2>9
  <2> QED
    BY <2>8, <2>9, <2>10 DEF Promise!Accept, stageBar, reportBar
<1> QED
  BY <1>4, <1>5

\* The network settles an invocation, or does nothing a caller can see.
LEMMA NetworkStep ==
  ASSUME Mapped, Mapped', Meaning, Meaning', Network \/ UNCHANGED vars
  PROVE  UNCHANGED <<stageBar, reportBar>> \/ \E c \in Clients : Promise!Settle(c)
<1>1. UNCHANGED <<outcome, accepted>>
  BY NetworkKeeps
<1>2. UNCHANGED reportBar
  BY <1>1 DEF reportBar, ReportOf
<1>3. CASE UNCHANGED <<succeeded, failed>>
  BY <1>1, <1>2, <1>3 DEF stageBar, StageOf, Invocations
<1>4. CASE Apply
  <2>1. /\ pool \in accepted /\ pool \notin succeeded \cup failed
        /\ \/ succeeded' = succeeded \cup {pool} /\ failed' = failed
           \/ succeeded' = succeeded /\ failed' = failed \cup {pool}
    <3>1. pool \in accepted /\ pool.seq = account + 1
      BY <1>4 DEF Apply, LedgerApplies, Live, Mapped, NetworkGood
    <3>2. pool \notin succeeded \cup failed
      BY <3>1 DEF Mapped, NetworkGood, TypeInv, TypeOK
    <3> QED
      BY <1>4, <3>1, <3>2 DEF Apply, LedgerApplies
  <2>2. ASSUME NEW d \in Clients, d # pool.owner
        PROVE  StageOf(d)' = StageOf(d)
    <3>1. pool \notin Invocations(d) /\ Invocations(d)' = Invocations(d)
      BY <1>1, <2>2 DEF Invocations
    <3>2. /\ Invocations(d)' \cap succeeded' = Invocations(d) \cap succeeded
          /\ Invocations(d)' \cap (failed' \ succeeded') = Invocations(d) \cap (failed \ succeeded)
          /\ Invocations(d)' \cap (succeeded' \cup failed') = Invocations(d) \cap (succeeded \cup failed)
      BY <2>1, <3>1
    <3> QED
      BY <3>1, <3>2 DEF StageOf
  <2>3. CASE pool.owner \in Clients
    <3>0. PICK c \in Clients : c = pool.owner
      BY <2>3
    <3>1. pool \in Invocations(c) /\ pool \in Invocations(c)'
      BY <1>1, <2>1, <3>0 DEF Invocations
    <3>2. StageOf(c) = "accepted" /\ StageOf(c)' \in {"succeeded", "failed"}
      BY <2>1, <3>1 DEF Meaning
    <3>3. /\ stageBar' = [stageBar EXCEPT ![c] = StageOf(c)']
          /\ stageBar[c] = "accepted"
      BY <2>2, <3>0, <3>2 DEF stageBar
    <3>4. Promise!Settle(c)
      BY <1>2, <3>2, <3>3 DEF Promise!Settle, stageBar, reportBar
    <3> QED
      BY <3>4
  <2>4. CASE pool.owner \notin Clients
    BY <1>2, <2>2, <2>4 DEF stageBar
  <2> QED
    BY <2>3, <2>4
<1> QED
  BY <1>3, <1>4
  DEF Network, Evict, PoolEvicts, OtherWalletSpends, WalletSpends, Archive, StateArchives, vars, networkVars

\* As long as no reply of sendTransaction is lost, every object keeps the promise
\* of Invocation: accepted at most once, settled at most once, and submit()
\* reporting nothing that its invocation's stage contradicts.
THEOREM PromiseKept ==
  ASSUME MaxLost = 0
  PROVE  Spec => KeepsPromise
<1>1. Init => Promise!Init
  BY DEF Init, NetworkInit, Promise!Init, StageOf, ReportOf, Invocations
<1>2. Mapped /\ [Next]_vars => Mapped'
  BY NextMapped
<1>3. Mapped /\ Mapped' /\ Meaning /\ Meaning' /\ [Next]_vars
        => [Promise!Next]_<<stageBar, reportBar>>
  <2> SUFFICES ASSUME Mapped, Mapped', Meaning, Meaning', [Next]_vars
               PROVE  Promise!Next \/ UNCHANGED <<stageBar, reportBar>>
    OBVIOUS
  <2>1. CASE Network \/ UNCHANGED vars
    BY <2>1, NetworkStep DEF Promise!Next
  <2>2. ASSUME NEW c \in Clients, Requests(c) \/ UserCalls(c)
        PROVE  Promise!Next
    BY <2>2, ClientStep DEF Promise!Next
  <2> QED
    BY <2>1, <2>2 DEF Next
<1>4. QED
  BY InitMapped, MappedMeans, <1>1, <1>2, <1>3, PTL
  DEF Spec, KeepsPromise, Promise!Spec, stageBar, reportBar

=============================================================================
