----------------------------- MODULE SorobanAuth -----------------------------
(***************************************************************************)
(* auth.py and its use by assembled_transaction.py: the authorization      *)
(* entries of one simulated envelope.  Their owners sign them through      *)
(* authorize(), whose signer may raise at any entry, or by hand with       *)
(* authorize_entry(), one delegate at a time and each until a ledger of    *)
(* its choice; entries are wrapped with delegates and built anew; and the  *)
(* envelope is prepared, signed, or simulated again in between.            *)
(***************************************************************************)
EXTENDS Integers, Sequences, FiniteSets, Functions

CONSTANTS
  Contracts,  \* the contract accounts: addresses are numbers in the order of their bytes
  Simulated,  \* the entries simulations may return: sequences of [type, address]
  Trees,      \* the lists of DelegateSignature that callers pass
  Validity,   \* the values of valid_for_ledger_count
  Agreed,     \* the values of valid_until_ledger_sequence
  MaxLedger, MaxNonce  \* bounds

Address == Nat \ {0}

\* The descriptors of a list and of those nested in it, in the order they are
\* written: under is the number of the one it is nested in, 0 if it is in none,
\* and at the place in the list of that one.
Descriptor == [address : Address, signs : BOOLEAN, under : Nat, at : Nat]

\* What the recording of a simulation returns; the source account has no address.
Recorded ==
  [type : {"ADDRESS", "ADDRESS_V2"}, address : Address]
    \cup [type : {"SOURCE_ACCOUNT"}, address : {0}]

ASSUME SorobanAuthAssumption ==
  /\ Contracts \subseteq Address
  /\ Simulated \subseteq Seq(Recorded) /\ Trees \subseteq Seq(Descriptor)
  /\ Validity \subseteq Nat /\ Agreed \subseteq Nat
  /\ MaxLedger \in Nat /\ MaxNonce \in Nat

VARIABLES
  auth,       \* op.auth of built_transaction
  latest,     \* simulation.latest_ledger
  needsPrep,  \* _needs_preparation
  signed,     \* does built_transaction have signatures?
  nonces,     \* history: number of nonces drawn
  unseen,     \* history: entries changed since the last simulation
  loose,      \* history: entries that their owner has to prepare by himself
  last        \* history: for each entry, the addresses that signed it last

vars == <<auth, latest, needsPrep, signed, nonces, unseen, loose, last>>

-----------------------------------------------------------------------------
(* Entries.  The delegates of one are [address, signature, under, at], with *)
(* under and at as in Descriptor.                                           *)

NoPreimage == [bound |-> 0, nonce |-> 0, until |-> 0, call |-> 0]

\* The scvVoid of a node that has not signed.  Address 0 is nobody's.
Void == [by |-> 0, over |-> NoPreimage]

\* _get_address_credentials returns None for source-account credentials.
HasCredentials(e) == e.type # "SOURCE_ACCOUNT"

\* build_authorization_preimage: only CAP-71 credentials bind the address.
Preimage(e, until) ==
  [bound |-> IF e.type = "ADDRESS" THEN 0 ELSE e.address,
   nonce |-> e.nonce, until |-> until, call |-> e.call]

Signature(a, preimage) == [by |-> a, over |-> preimage]

\* _collect_signature_nodes
SignatureNodes(e) ==
  IF HasCredentials(e)
  THEN {[address |-> e.address, signature |-> e.signature]}
         \cup {[address |-> n.address, signature |-> n.signature] : n \in Range(e.delegates)}
  ELSE {}

SignDelegates(nodes, a, signature) ==
  [i \in DOMAIN nodes |->
     [nodes[i] EXCEPT !.signature = IF nodes[i].address = a THEN signature ELSE @]]

\* Mutant of AuthorizeEntry: the expiration is signed but not stored.
AuthorizeEntryKeepsUntil(e, a, until) ==
  [e EXCEPT !.signature = Signature(a, Preimage(e, until))]

\* authorize_entry() by a, without for_address
AuthorizeEntry(e, a, until) ==
  [e EXCEPT !.until = until, !.signature = Signature(a, Preimage(e, until))]

\* authorize_entry() by a, for_address = a
AuthorizeNodes(e, a, until) ==
  LET signature == Signature(a, Preimage(e, until))
  IN [e EXCEPT !.until = until,
               !.signature = IF e.address = a THEN signature ELSE @,
               !.delegates = SignDelegates(@, a, signature)]

\* The other members of the list that i is in.
Siblings(nodes, i) == {j \in DOMAIN nodes \ {i} : nodes[j].under = nodes[i].under}

\* Its place in that list once sorted by address; equal ones are refused below.
Place(nodes, i) == 1 + Cardinality({j \in Siblings(nodes, i) : nodes[j].address < nodes[i].address})

Node(d, preimage, place) ==
  [address |-> d.address, under |-> d.under, at |-> place,
   signature |-> IF d.signs THEN Signature(d.address, preimage) ELSE Void]

\* Mutant of BuildDelegateNodes: a list stays in the caller's order.
BuildDelegateNodesUnsorted(tree, preimage) ==
  [i \in DOMAIN tree |-> Node(tree[i], preimage, tree[i].at)]

\* _build_delegate_nodes, each list sorted by address
BuildDelegateNodes(tree, preimage) ==
  [i \in DOMAIN tree |-> Node(tree[i], preimage, Place(tree, i))]

\* Its ValueError: equal addresses in a list
Duplicates(nodes) ==
  \E i \in DOMAIN nodes : \E j \in Siblings(nodes, i) : nodes[i].address = nodes[j].address

\* build_with_delegates_entry.  The signatures a caller brings along are over
\* the preimage of the entry that will result, as the docstring asks.
WithDelegates(e, until, tree, signs) ==
  LET wrapped == [e EXCEPT !.type = "WITH_DELEGATES", !.until = until]
      preimage == Preimage(wrapped, until)
  IN [wrapped EXCEPT !.signature = IF signs THEN Signature(e.address, preimage) ELSE Void,
                     !.delegates = BuildDelegateNodes(tree, preimage)]

\* Whose signatures that caller brings.
Bringing(e, tree, signs) ==
  {tree[k].address : k \in {j \in DOMAIN tree : tree[j].signs}}
    \cup (IF signs THEN {e.address} ELSE {})

NewEntry(type, address, nonce, call) ==
  [type |-> type, address |-> address, nonce |-> nonce, until |-> 0,
   signature |-> Void, delegates |-> <<>>, call |-> call]

\* authorize_invocation, with the keypair or the signer of the address
AuthorizeInvocation(type, address, nonce, call, until) ==
  AuthorizeEntry(NewEntry(type, address, nonce, call), address, until)

-----------------------------------------------------------------------------
(* The envelope *)

\* _resolve_valid_until_ledger_sequence
Untils == Agreed \cup {latest + n : n \in Validity}

\* The entries of _authorize_entries for the address a.
Matching(a) == {i \in DOMAIN auth : HasCredentials(auth[i]) /\ auth[i].address = a}

Owners == {auth[i].address : i \in {j \in DOMAIN auth : HasCredentials(auth[j])}}

\* needs_non_invoker_signing_by, by entry
Unsigned == {i \in DOMAIN auth : HasCredentials(auth[i]) /\ auth[i].signature = Void}

FromSimulation(entries, first) ==
  [i \in DOMAIN entries |-> NewEntry(entries[i].type, entries[i].address, first + i, i)]

Init ==
  /\ \E entries \in Simulated : auth = FromSimulation(entries, 0)
  /\ latest = 1 /\ needsPrep = FALSE /\ signed = FALSE
  /\ nonces = Len(auth) /\ unseen = {} /\ loose = {}
  /\ last = [i \in DOMAIN auth |-> {}]

\* The loop of _authorize_entries, up to the entry end.
SignUpTo(a, end) ==
  LET now == {i \in Matching(a) : i <= end}
  IN /\ \E until \in Untils :
          auth' = [i \in DOMAIN auth |-> IF i \in now THEN AuthorizeEntry(auth[i], a, until)
                                         ELSE auth[i]]
     /\ unseen' = unseen \cup now
     /\ last' = [i \in DOMAIN auth |-> IF i \in now THEN {a} ELSE last[i]]

\* Mutant of Authorize: signed_any is set to whether the last entry matched.
AuthorizeLastCounts(a) ==
  /\ ~signed
  /\ SignUpTo(a, Len(auth))
  /\ needsPrep' = (needsPrep \/ (Len(auth) \in Matching(a) /\ a \in Contracts))
  /\ UNCHANGED <<latest, signed, nonces, loose>>

\* authorize(), sign_auth_entries()
Authorize(a) ==
  /\ ~signed
  /\ SignUpTo(a, Len(auth))
  /\ needsPrep' = (needsPrep \/ (Matching(a) # {} /\ a \in Contracts))
  /\ UNCHANGED <<latest, signed, nonces, loose>>

\* authorize() whose signer raises, or returns no SCVal, at a later entry.
AuthorizeFails(a) ==
  /\ ~signed
  /\ \E end \in Matching(a) :
       /\ \E i \in Matching(a) : i > end
       /\ SignUpTo(a, end)
       /\ loose' = loose \cup {i \in Matching(a) : i <= end /\ auth[i].signature # Void}
  /\ UNCHANGED <<latest, needsPrep, signed, nonces>>

\* A caller puts an entry of his own making, signed by some, into op.auth.
ByHand(i, e, by) ==
  /\ ~signed
  /\ auth' = [auth EXCEPT ![i] = e]
  /\ last' = [last EXCEPT ![i] = by]
  /\ unseen' = unseen \cup {i}
  /\ loose' = loose \cup Matching(auth[i].address)
  /\ UNCHANGED <<latest, needsPrep, signed>>

AuthorizeByHand(i, a) ==
  /\ \E node \in SignatureNodes(auth[i]) : node.address = a
  /\ \E until \in Untils : ByHand(i, AuthorizeNodes(auth[i], a, until), {a})
  /\ UNCHANGED nonces

AddDelegates(i) ==
  /\ auth[i].type \in {"ADDRESS", "ADDRESS_V2"}
  /\ \E until \in Untils, tree \in Trees, signs \in BOOLEAN :
       LET e == WithDelegates(auth[i], until, tree, signs)
       IN ~Duplicates(e.delegates) /\ ByHand(i, e, Bringing(auth[i], tree, signs))
  /\ UNCHANGED nonces

AuthorizeAnew(i) ==
  /\ HasCredentials(auth[i]) /\ nonces < MaxNonce
  /\ nonces' = nonces + 1
  /\ \E type \in {"ADDRESS", "ADDRESS_V2"}, until \in Untils :
       ByHand(i, AuthorizeInvocation(type, auth[i].address, nonces', auth[i].call, until),
              {auth[i].address})

\* The ledger of a simulation's answer, successful or not.
LaterLedger == latest' \in latest..MaxLedger

Simulate ==
  /\ \E entries \in Simulated :
       /\ nonces + Len(entries) <= MaxNonce
       /\ auth' = FromSimulation(entries, nonces)
       /\ nonces' = nonces + Len(entries)
  /\ LaterLedger
  /\ unseen' = {} /\ loose' = {} /\ last' = [i \in DOMAIN auth' |-> {}]
  /\ needsPrep' = FALSE /\ signed' = FALSE

Prepare ==
  /\ ~signed /\ Unsigned = {}
  /\ LaterLedger
  /\ \/ /\ needsPrep' = FALSE
        /\ unseen' = {} /\ loose' = {}
     \/ UNCHANGED <<needsPrep, unseen, loose>>
  /\ UNCHANGED <<auth, signed, nonces, last>>

Sign ==
  /\ ~signed /\ ~needsPrep /\ Unsigned = {}
  /\ signed' = TRUE
  /\ UNCHANGED <<auth, latest, needsPrep, nonces, unseen, loose, last>>

Next ==
  \/ \E a \in Owners : Authorize(a)
  \/ \E a \in Owners : AuthorizeFails(a)
  \/ \E i \in DOMAIN auth :
       \/ \E node \in SignatureNodes(auth[i]) : AuthorizeByHand(i, node.address)
       \/ AddDelegates(i)
       \/ AuthorizeAnew(i)
  \/ Simulate
  \/ Prepare
  \/ Sign

Spec == Init /\ [][Next]_vars

-----------------------------------------------------------------------------
(* What holds *)

Signatures(e) == {node.signature : node \in SignatureNodes(e)} \ {Void}

Verifies(signature, e) == signature.over = Preimage(e, e.until)

\* CAP-71, as the host checks it: all delegates in ascending order, and each
\* node's signature its own and over the one preimage.  An account may leave
\* the signing to its delegates.
Ascending(nodes) ==
  \A i \in DOMAIN nodes : \A j \in Siblings(nodes, i) :
    nodes[i].at <= nodes[j].at => nodes[i].address < nodes[j].address

HostAccepts(e) ==
  /\ Ascending(e.delegates)
  /\ \A node \in Range(e.delegates) :
       node.signature.by = node.address /\ Verifies(node.signature, e)
  /\ \/ e.signature.by = e.address /\ Verifies(e.signature, e)
     \/ e.signature = Void /\ e.delegates # <<>>

\* The delegates of an entry may sign one after the other, in any order, each
\* on the entry that the others have signed: once all have signed until the
\* entry's ledger, the host accepts it, however it came about (auth.py,
\* authorize_entry and build_with_delegates_entry).
AllAgreedIsAccepted ==
  \A i \in DOMAIN auth :
    LET e == auth[i]
    IN /\ Signatures(e) # {}
       /\ \A s \in Signatures(e) : s.over.until = e.until
       /\ \A node \in Range(e.delegates) : node.signature # Void
       => HostAccepts(e)

\* Signers who choose another ledger invalidate those before them, and nobody
\* else: those who signed an entry last hold signatures that verify, and of the
\* others' exactly those until the same ledger do (auth.py, authorize_entry).
LastSignerVerifies ==
  \A i \in DOMAIN auth :
    LET e == auth[i]
        valid == {s \in Signatures(e) : Verifies(s, e)}
    IN /\ last[i] \subseteq {s.by : s \in valid}
       /\ Signatures(e) # {} => last[i] # {}
       /\ valid = {s \in Signatures(e) : s.over.until = e.until}

\* An envelope is signed only over contract accounts' entries that the last
\* simulation has seen as they are, although a signer may have raised half way
\* through the entries of its address (_authorize_entries).  Left out are the
\* entries changed by hand, and those that a failed authorize() signed again.
SignedAsSeen ==
  signed => \A i \in unseen \ loose : auth[i].address \notin Contracts
=============================================================================
