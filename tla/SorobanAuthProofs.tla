-------------------------- MODULE SorobanAuthProofs --------------------------
(***************************************************************************)
(* Entries, however their owners and delegates sign them, wrap them and    *)
(* build them anew, and the envelopes they are part of.  EntriesGood says  *)
(* of each entry by itself what its signatures are over; Seen relates the  *)
(* entries that the last simulation has not seen to what keeps sign() from *)
(* signing: _needs_preparation, or an entry that nobody has signed yet.    *)
(***************************************************************************)
EXTENDS SorobanAuth, FiniteSetTheorems, TLAPS

Preimages == [bound : Nat, nonce : Nat, until : Nat, call : Nat]

SignatureValues == [by : Nat, over : Preimages]

Nodes == [address : Address, under : Nat, at : Nat, signature : SignatureValues]

Types == {"SOURCE_ACCOUNT", "ADDRESS", "ADDRESS_V2", "WITH_DELEGATES"}

Entries ==
  [type : Types, address : Nat, nonce : Nat, until : Nat, signature : SignatureValues,
   delegates : Seq(Nodes), call : Nat]

TypeInv ==
  /\ auth \in Seq(Entries) /\ latest \in Nat /\ nonces \in Nat
  /\ needsPrep \in BOOLEAN /\ signed \in BOOLEAN
  /\ unseen \subseteq DOMAIN auth /\ loose \subseteq DOMAIN auth
  /\ last \in [DOMAIN auth -> SUBSET Address]

\* A signature is that of the node it is in, over the preimage that the entry
\* has but for the ledger.
Own(n, e) ==
  n.signature # Void =>
    n.signature.by = n.address /\ n.signature.over = Preimage(e, n.signature.over.until)

\* These signed e last, until the ledger of the entry.
SignedLast(by, e) ==
  /\ \A a \in by : \E s \in Signatures(e) : s.by = a /\ s.over.until = e.until
  /\ Signatures(e) # {} => by # {}

EntryGood(e) ==
  /\ HasCredentials(e) => e.address \in Address
  /\ \A n \in SignatureNodes(e) : Own(n, e)
  /\ Ascending(e.delegates)

EntriesGood == \A i \in DOMAIN auth : EntryGood(auth[i]) /\ SignedLast(last[i], auth[i])

\* The owner of the entries signs them in their order.
InOrder(a) == \A i, j \in Matching(a) : i < j /\ i \in Unsigned => j \in Unsigned

\* Unless somebody has changed entries of an address by hand, they are signed in
\* their order, so that one which is signed half way leaves a later one unsigned.
Seen ==
  /\ \A i \in unseen : HasCredentials(auth[i])
  /\ signed => ~needsPrep /\ Unsigned = {}
  /\ \A a \in Address : Matching(a) \subseteq loose \/ InOrder(a)
  /\ \A a \in Contracts :
       Matching(a) \cap unseen \subseteq loose \/ needsPrep \/ Matching(a) \cap Unsigned # {}

IInv == TypeInv /\ EntriesGood /\ Seen

-----------------------------------------------------------------------------
(* Entries *)

LEMMA PreimageType ==
  ASSUME NEW e \in Entries, NEW until \in Nat
  PROVE  Preimage(e, until) \in Preimages /\ Preimage(e, until).until = until
BY DEF Entries, Preimage, Preimages

LEMMA SignatureType ==
  ASSUME NEW a \in Address, NEW p \in Preimages
  PROVE  /\ Signature(a, p) \in SignatureValues /\ Signature(a, p) # Void
         /\ Signature(a, p).by = a /\ Signature(a, p).over = p
BY DEF Signature, SignatureValues, Void, Address

LEMMA VoidType == Void \in SignatureValues
BY DEF Void, NoPreimage, SignatureValues, Preimages

\* The top-level credentials are a node, and so is each delegate.
LEMMA NodesOfEntry ==
  ASSUME NEW e \in Entries, HasCredentials(e)
  PROVE  /\ [address |-> e.address, signature |-> e.signature] \in SignatureNodes(e)
         /\ \A n \in Range(e.delegates) :
              [address |-> n.address, signature |-> n.signature] \in SignatureNodes(e)
         /\ \A m \in SignatureNodes(e) :
              \/ m.address = e.address /\ m.signature = e.signature
              \/ \E n \in Range(e.delegates) : m.address = n.address /\ m.signature = n.signature
<1> DEFINE top == [address |-> e.address, signature |-> e.signature]
           node(n) == [address |-> n.address, signature |-> n.signature]
<1>1. SignatureNodes(e) = {top} \cup {node(n) : n \in Range(e.delegates)}
  BY DEF SignatureNodes
<1>2. top.address = e.address /\ top.signature = e.signature
      /\ \A n : node(n).address = n.address /\ node(n).signature = n.signature
  OBVIOUS
<1> HIDE DEF top, node
<1>3. top \in SignatureNodes(e) /\ \A n \in Range(e.delegates) : node(n) \in SignatureNodes(e)
  BY <1>1
<1>4. \A m \in SignatureNodes(e) : m = top \/ \E n \in Range(e.delegates) : m = node(n)
  BY <1>1
<1> QED
  BY <1>2, <1>3, <1>4 DEF top, node

LEMMA AuthorizeEntryGood ==
  ASSUME NEW e \in Entries, EntryGood(e), HasCredentials(e), NEW until \in Nat
  PROVE  LET f == AuthorizeEntry(e, e.address, until)
         IN /\ f \in Entries /\ EntryGood(f) /\ HasCredentials(f)
            /\ f.address = e.address /\ f.signature # Void /\ SignedLast({e.address}, f)
<1> DEFINE s == Signature(e.address, Preimage(e, until))
           f == AuthorizeEntry(e, e.address, until)
<1>1. e.address \in Address
  BY DEF EntryGood
<1>2. s \in SignatureValues /\ s # Void /\ s.by = e.address /\ s.over = Preimage(e, until)
  BY <1>1, PreimageType, SignatureType
<1>3. Preimage(e, until).until = until
  BY PreimageType
<1>4. /\ f \in Entries /\ f.type = e.type /\ f.address = e.address /\ f.nonce = e.nonce
      /\ f.until = until /\ f.signature = s /\ f.delegates = e.delegates /\ f.call = e.call
  <2> HIDE DEF s
  <2> QED
    BY <1>2 DEF AuthorizeEntry, Entries, s
<1> HIDE DEF s, f
<1>5. HasCredentials(f) /\ \A u : Preimage(f, u) = Preimage(e, u)
  BY <1>4 DEF HasCredentials, Preimage
<1>6. \A n \in SignatureNodes(f) : Own(n, f)
  <2> SUFFICES ASSUME NEW n \in SignatureNodes(f), n.signature # Void
               PROVE  n.signature.by = n.address
                      /\ n.signature.over = Preimage(e, n.signature.over.until)
    BY <1>5 DEF Own
  <2>1. CASE n.address = f.address /\ n.signature = f.signature
    BY <2>1, <1>2, <1>3, <1>4
  <2>2. ASSUME NEW m \in Range(f.delegates), n.address = m.address, n.signature = m.signature
        PROVE  n.signature.by = n.address
               /\ n.signature.over = Preimage(e, n.signature.over.until)
    <3> DEFINE o == [address |-> m.address, signature |-> m.signature]
    <3>1. o \in SignatureNodes(e)
      BY <1>4, NodesOfEntry
    <3>2. o.address = n.address /\ o.signature = n.signature
      BY <2>2
    <3> HIDE DEF o
    <3> QED
      BY <3>1, <3>2 DEF EntryGood, Own
  <2> QED
    BY <1>4, <1>5, <2>1, <2>2, NodesOfEntry
<1>7. SignedLast({e.address}, f)
  <2> DEFINE t == [address |-> f.address, signature |-> f.signature]
  <2>1. t \in SignatureNodes(f) /\ t.signature = s
    BY <1>4, <1>5, NodesOfEntry
  <2> HIDE DEF t
  <2>2. s \in Signatures(f)
    BY <2>1, <1>2 DEF Signatures
  <2> QED
    BY <2>2, <1>2, <1>3, <1>4 DEF SignedLast
<1> QED
  BY <1>1, <1>2, <1>4, <1>5, <1>6, <1>7 DEF EntryGood, f

\* A list of delegates that somebody signs keeps its order.
LEMMA SignDelegatesNodes ==
  ASSUME NEW nodes \in Seq(Nodes), NEW a, NEW s \in SignatureValues
  PROVE  LET signing == SignDelegates(nodes, a, s)
         IN /\ signing \in Seq(Nodes) /\ DOMAIN signing = DOMAIN nodes
            /\ \A i \in DOMAIN nodes :
                 /\ signing[i].address = nodes[i].address
                 /\ signing[i].signature = IF nodes[i].address = a THEN s ELSE nodes[i].signature
            /\ Ascending(nodes) => Ascending(signing)
<1> DEFINE signing == SignDelegates(nodes, a, s)
<1>1. Len(nodes) \in Nat /\ DOMAIN nodes = 1..Len(nodes) /\ DOMAIN signing = DOMAIN nodes
  BY DEF SignDelegates
<1>2. ASSUME NEW i \in DOMAIN nodes
      PROVE  /\ signing[i] \in Nodes
             /\ signing[i].address = nodes[i].address
             /\ signing[i].under = nodes[i].under /\ signing[i].at = nodes[i].at
             /\ signing[i].signature = IF nodes[i].address = a THEN s ELSE nodes[i].signature
  <2>1. nodes[i] \in Nodes
    OBVIOUS
  <2>2. signing[i] =
          [nodes[i] EXCEPT !.signature = IF nodes[i].address = a THEN s ELSE nodes[i].signature]
    BY DEF SignDelegates
  <2> QED
    BY <2>1, <2>2 DEF Nodes
<1>3. signing \in Seq(Nodes)
  <2>1. signing \in [1..Len(nodes) -> Nodes]
    BY <1>1, <1>2 DEF SignDelegates
  <2> QED
    BY <1>1, <2>1
<1> HIDE DEF signing
<1>4. Ascending(nodes) => Ascending(signing)
  BY <1>1, <1>2 DEF Ascending, Siblings
<1> QED
  BY <1>1, <1>2, <1>3, <1>4 DEF signing

LEMMA AuthorizeNodesGood ==
  ASSUME NEW e \in Entries, EntryGood(e), NEW a \in Address, NEW until \in Nat,
         \E n \in SignatureNodes(e) : n.address = a
  PROVE  LET f == AuthorizeNodes(e, a, until)
         IN /\ f \in Entries /\ EntryGood(f) /\ HasCredentials(f) /\ HasCredentials(e)
            /\ f.address = e.address /\ SignedLast({a}, f)
<1> DEFINE s == Signature(a, Preimage(e, until))
           signing == SignDelegates(e.delegates, a, s)
           f == AuthorizeNodes(e, a, until)
<1>1. HasCredentials(e) /\ e.address \in Address
  BY DEF EntryGood, SignatureNodes
<1>2. s \in SignatureValues /\ s # Void /\ s.by = a /\ s.over = Preimage(e, until)
  BY PreimageType, SignatureType
<1>3. Preimage(e, until).until = until
  BY PreimageType
<1>d. e.delegates \in Seq(Nodes) /\ e.signature \in SignatureValues
  BY DEF Entries
<1>4. /\ signing \in Seq(Nodes) /\ DOMAIN signing = DOMAIN e.delegates
      /\ \A i \in DOMAIN e.delegates :
           /\ signing[i].address = e.delegates[i].address
           /\ signing[i].signature = IF e.delegates[i].address = a THEN s
                                     ELSE e.delegates[i].signature
      /\ Ascending(signing)
  <2>1. Ascending(e.delegates)
    BY DEF EntryGood
  <2> HIDE DEF s
  <2> QED
    BY <1>2, <1>d, <2>1, SignDelegatesNodes
<1>5. /\ f \in Entries /\ f.type = e.type /\ f.address = e.address /\ f.nonce = e.nonce
      /\ f.until = until /\ f.signature = (IF e.address = a THEN s ELSE e.signature)
      /\ f.delegates = signing /\ f.call = e.call
  <2>1. f = [e EXCEPT !.until = until, !.signature = IF e.address = a THEN s ELSE e.signature,
                      !.delegates = signing]
    BY DEF AuthorizeNodes, Entries
  <2> HIDE DEF s, signing, f
  <2> QED
    BY <2>1, <1>2, <1>4, <1>d DEF Entries
<1> HIDE DEF s, f, signing
<1>6. HasCredentials(f) /\ \A u : Preimage(f, u) = Preimage(e, u)
  BY <1>1, <1>5 DEF HasCredentials, Preimage
\* Each node of f is one of e, signed by a or as it was.
<1>7. ASSUME NEW n \in SignatureNodes(f)
      PROVE  \E o \in SignatureNodes(e) :
               n.address = o.address /\ n.signature = IF o.address = a THEN s ELSE o.signature
  <2>1. CASE n.address = f.address /\ n.signature = f.signature
    <3> DEFINE o == [address |-> e.address, signature |-> e.signature]
    <3>1. o \in SignatureNodes(e) /\ o.address = e.address /\ o.signature = e.signature
      BY <1>1, NodesOfEntry
    <3> HIDE DEF o
    <3> QED
      BY <2>1, <3>1, <1>5
  <2>2. ASSUME NEW m \in Range(f.delegates), n.address = m.address, n.signature = m.signature
        PROVE  \E o \in SignatureNodes(e) :
                 n.address = o.address /\ n.signature = IF o.address = a THEN s ELSE o.signature
    <3>1. PICK i \in DOMAIN signing : m = signing[i]
      BY <1>5, <2>2 DEF Range
    <3> DEFINE o == [address |-> e.delegates[i].address, signature |-> e.delegates[i].signature]
    <3>2. o \in SignatureNodes(e)
      BY <1>1, <1>4, NodesOfEntry DEF Range
    <3>3. o.address = e.delegates[i].address /\ o.signature = e.delegates[i].signature
      OBVIOUS
    <3> HIDE DEF o
    <3> QED
      BY <2>2, <3>1, <3>2, <3>3, <1>4
  <2> QED
    BY <1>5, <1>6, <2>1, <2>2, NodesOfEntry
\* The node of a that there is, is one of f.
<1>8. \E n \in SignatureNodes(f) : n.signature = s
  <2>1. PICK o \in SignatureNodes(e) : o.address = a
    OBVIOUS
  <2>2. CASE o.address = e.address /\ o.signature = e.signature
    <3> DEFINE t == [address |-> f.address, signature |-> f.signature]
    <3>1. t \in SignatureNodes(f) /\ t.signature = f.signature
      BY <1>5, <1>6, NodesOfEntry
    <3> HIDE DEF t
    <3> QED
      BY <2>1, <2>2, <3>1, <1>5
  <2>3. ASSUME NEW m \in Range(e.delegates), o.address = m.address
        PROVE  \E n \in SignatureNodes(f) : n.signature = s
    <3>1. PICK i \in DOMAIN e.delegates : m = e.delegates[i]
      BY DEF Range
    <3> DEFINE t == [address |-> signing[i].address, signature |-> signing[i].signature]
    <3>2. t \in SignatureNodes(f)
      BY <1>4, <1>5, <1>6, NodesOfEntry DEF Range
    <3>3. t.signature = signing[i].signature
      OBVIOUS
    <3> HIDE DEF t
    <3> QED
      BY <2>1, <2>3, <3>1, <3>2, <3>3, <1>4
  <2> QED
    BY <1>1, <2>2, <2>3, NodesOfEntry
<1>9. \A n \in SignatureNodes(f) : Own(n, f)
  <2> SUFFICES ASSUME NEW n \in SignatureNodes(f), n.signature # Void
               PROVE  n.signature.by = n.address
                      /\ n.signature.over = Preimage(e, n.signature.over.until)
    BY <1>6 DEF Own
  <2>1. PICK o \in SignatureNodes(e) :
          n.address = o.address /\ n.signature = IF o.address = a THEN s ELSE o.signature
    BY <1>7
  <2>2. CASE o.address = a
    BY <2>1, <2>2, <1>2, <1>3
  <2>3. CASE o.address # a
    BY <2>1, <2>3 DEF EntryGood, Own
  <2> QED
    BY <2>2, <2>3
<1>10. SignedLast({a}, f)
  <2>1. s \in Signatures(f)
    BY <1>2, <1>8 DEF Signatures
  <2> QED
    BY <2>1, <1>2, <1>3, <1>5 DEF SignedLast
<1> QED
  BY <1>1, <1>4, <1>5, <1>6, <1>9, <1>10 DEF EntryGood, f

LEMMA NewEntryGood ==
  ASSUME NEW type \in Types \ {"WITH_DELEGATES"}, NEW address \in Nat,
         type = "SOURCE_ACCOUNT" \/ address \in Address, NEW nonce \in Nat, NEW call \in Nat
  PROVE  LET f == NewEntry(type, address, nonce, call)
         IN f \in Entries /\ EntryGood(f) /\ f.type = type /\ f.address = address
            /\ f.signature = Void /\ SignedLast({}, f)
<1> DEFINE f == NewEntry(type, address, nonce, call)
<1>1. /\ f \in Entries /\ f.type = type /\ f.address = address /\ f.signature = Void
      /\ f.delegates = <<>>
  BY VoidType DEF NewEntry, Entries
<1> HIDE DEF f
<1>2. HasCredentials(f) => f.address \in Address
  BY <1>1 DEF HasCredentials
<1>3. Range(f.delegates) = {}
  BY <1>1 DEF Range
<1>4. \A n \in SignatureNodes(f) : n.signature = Void
  BY <1>1, <1>3, NodesOfEntry DEF SignatureNodes
<1>5. (\A n \in SignatureNodes(f) : Own(n, f)) /\ SignedLast({}, f)
  BY <1>4 DEF Own, SignedLast, Signatures
<1>6. Ascending(f.delegates)
  BY <1>1 DEF Ascending
<1> QED
  BY <1>1, <1>2, <1>5, <1>6 DEF EntryGood, f

LEMMA AuthorizeInvocationGood ==
  ASSUME NEW type \in {"ADDRESS", "ADDRESS_V2"}, NEW address \in Address, NEW nonce \in Nat,
         NEW call \in Nat, NEW until \in Nat
  PROVE  LET f == AuthorizeInvocation(type, address, nonce, call, until)
         IN f \in Entries /\ EntryGood(f) /\ HasCredentials(f) /\ f.address = address
            /\ SignedLast({address}, f)
<1> DEFINE e == NewEntry(type, address, nonce, call)
<1>1. e \in Entries /\ EntryGood(e) /\ e.type = type /\ e.address = address
  BY NewEntryGood DEF Types, Address
<1>2. HasCredentials(e)
  BY <1>1 DEF HasCredentials
<1> HIDE DEF e
<1>3. LET f == AuthorizeEntry(e, e.address, until)
      IN f \in Entries /\ EntryGood(f) /\ HasCredentials(f) /\ f.address = e.address
         /\ SignedLast({e.address}, f)
  BY <1>1, <1>2, AuthorizeEntryGood
<1> QED
  BY <1>1, <1>3 DEF AuthorizeInvocation, e

LEMMA DescriptorType ==
  ASSUME NEW tree \in Seq(Descriptor), NEW k \in DOMAIN tree
  PROVE  tree[k].address \in Address /\ tree[k].address \in Nat /\ tree[k].under \in Nat
<1>1. tree[k] \in Descriptor
  OBVIOUS
<1> QED
  BY <1>1 DEF Descriptor, Address

\* Of two in a list, the one of the smaller address comes first.
LEMMA PlaceAscends ==
  ASSUME NEW tree \in Seq(Descriptor), NEW i \in DOMAIN tree, NEW j \in Siblings(tree, i),
         tree[j].address < tree[i].address
  PROVE  Place(tree, i) \in Nat /\ Place(tree, j) \in Nat /\ Place(tree, j) < Place(tree, i)
<1> DEFINE below(k) == {l \in Siblings(tree, k) : tree[l].address < tree[k].address}
<1>1. j \in DOMAIN tree /\ tree[j].under = tree[i].under
  BY DEF Siblings
<1>2. IsFiniteSet(DOMAIN tree)
  BY FS_Interval
<1>3. \A k \in DOMAIN tree : tree[k].address \in Nat
  BY DescriptorType
<1>4. \A k \in DOMAIN tree : below(k) \subseteq DOMAIN tree
  BY DEF Siblings
<1>5. IsFiniteSet(below(i)) /\ IsFiniteSet(below(j))
  <2> HIDE DEF below
  <2> QED
    BY <1>1, <1>2, <1>4, FS_Subset
<1>6. j \in below(i) /\ j \notin below(j)
  BY DEF Siblings
<1>7. below(j) \subseteq below(i)
  <2> SUFFICES ASSUME NEW l \in below(j) PROVE l \in below(i)
    OBVIOUS
  <2>1. l \in DOMAIN tree /\ tree[l].under = tree[i].under
        /\ tree[l].address < tree[j].address
    BY <1>1 DEF Siblings
  <2>2. tree[l].address < tree[i].address /\ l # i
    BY <1>1, <1>3, <2>1
  <2> QED
    BY <2>1, <2>2 DEF Siblings
<1> HIDE DEF below
<1>8. Cardinality(below(j) \cup {j}) = Cardinality(below(j)) + 1 /\ IsFiniteSet(below(j) \cup {j})
  BY <1>5, <1>6, FS_AddElement
<1>9. Cardinality(below(j) \cup {j}) <= Cardinality(below(i))
  <2>1. below(j) \cup {j} \subseteq below(i)
    BY <1>6, <1>7
  <2> QED
    BY <1>5, <2>1, FS_Subset
<1>10. Cardinality(below(j)) \in Nat /\ Cardinality(below(i)) \in Nat
  BY <1>5, FS_CardinalityType
<1> QED
  BY <1>8, <1>9, <1>10 DEF Place, below

LEMMA PlaceType == \A tree \in Seq(Descriptor) : \A i \in DOMAIN tree : Place(tree, i) \in Nat
<1> SUFFICES ASSUME NEW tree \in Seq(Descriptor), NEW i \in DOMAIN tree
             PROVE  Place(tree, i) \in Nat
  OBVIOUS
<1> DEFINE below == {l \in Siblings(tree, i) : tree[l].address < tree[i].address}
<1>1. IsFiniteSet(DOMAIN tree)
  BY FS_Interval
<1>2. below \subseteq DOMAIN tree
  BY DEF Siblings
<1> HIDE DEF below
<1>3. Cardinality(below) \in Nat
  BY <1>1, <1>2, FS_Subset, FS_CardinalityType
<1> QED
  BY <1>3 DEF Place, below

LEMMA BuildDelegateNodesGood ==
  ASSUME NEW tree \in Seq(Descriptor), NEW p \in Preimages,
         ~Duplicates(BuildDelegateNodes(tree, p))
  PROVE  LET nodes == BuildDelegateNodes(tree, p)
         IN /\ nodes \in Seq(Nodes) /\ Ascending(nodes)
            /\ DOMAIN nodes = DOMAIN tree
            /\ \A i \in DOMAIN tree :
                 /\ nodes[i].address = tree[i].address
                 /\ nodes[i].signature = IF tree[i].signs THEN Signature(tree[i].address, p)
                                         ELSE Void
<1> DEFINE nodes == BuildDelegateNodes(tree, p)
<1>1. Len(tree) \in Nat /\ DOMAIN tree = 1..Len(tree) /\ DOMAIN nodes = DOMAIN tree
  BY DEF BuildDelegateNodes
<1>2. ASSUME NEW i \in DOMAIN tree
      PROVE  /\ nodes[i] \in Nodes
             /\ nodes[i].address = tree[i].address /\ nodes[i].under = tree[i].under
             /\ nodes[i].at = Place(tree, i)
             /\ nodes[i].signature = IF tree[i].signs THEN Signature(tree[i].address, p)
                                     ELSE Void
  <2>1. nodes[i] = Node(tree[i], p, Place(tree, i))
    BY DEF BuildDelegateNodes
  <2>2. tree[i].address \in Address /\ tree[i].under \in Nat /\ Place(tree, i) \in Nat
    BY PlaceType, DescriptorType
  <2>3. Signature(tree[i].address, p) \in SignatureValues /\ Void \in SignatureValues
    BY <2>2, SignatureType, VoidType
  <2> QED
    BY <2>1, <2>2, <2>3 DEF Node, Nodes
<1>3. nodes \in Seq(Nodes)
  <2>1. nodes \in [1..Len(tree) -> Nodes]
    BY <1>1, <1>2 DEF BuildDelegateNodes
  <2> QED
    BY <1>1, <2>1
<1> HIDE DEF nodes
<1>4. \A i \in DOMAIN tree : Siblings(nodes, i) = Siblings(tree, i)
  BY <1>1, <1>2 DEF Siblings
<1>5. Ascending(nodes)
  <2> SUFFICES ASSUME NEW i \in DOMAIN tree, NEW j \in Siblings(tree, i),
                      ~(tree[i].address < tree[j].address)
               PROVE  ~(Place(tree, i) <= Place(tree, j))
    BY <1>1, <1>2, <1>4 DEF Ascending, Siblings
  <2>1. j \in DOMAIN tree /\ tree[i].address \in Nat /\ tree[j].address \in Nat
    BY DescriptorType DEF Siblings
  <2>2. tree[i].address # tree[j].address
    BY <1>1, <1>2, <1>4, <2>1 DEF Duplicates, nodes
  <2>3. tree[j].address < tree[i].address
    BY <2>1, <2>2
  <2>4. Place(tree, i) \in Nat /\ Place(tree, j) \in Nat /\ Place(tree, j) < Place(tree, i)
    BY <2>3, PlaceAscends
  <2> QED
    BY <2>4
<1> QED
  BY <1>1, <1>2, <1>3, <1>5 DEF nodes

LEMMA WithDelegatesGood ==
  ASSUME NEW e \in Entries, EntryGood(e), HasCredentials(e), NEW until \in Nat,
         NEW tree \in Trees, NEW signs \in BOOLEAN,
         ~Duplicates(WithDelegates(e, until, tree, signs).delegates)
  PROVE  LET f == WithDelegates(e, until, tree, signs)
         IN f \in Entries /\ EntryGood(f) /\ HasCredentials(f) /\ f.address = e.address
            /\ SignedLast(Bringing(e, tree, signs), f)
            /\ Bringing(e, tree, signs) \subseteq Address
<1> DEFINE w == [e EXCEPT !.type = "WITH_DELEGATES", !.until = until]
           p == Preimage(w, until)
           top == IF signs THEN Signature(e.address, p) ELSE Void
           nodes == BuildDelegateNodes(tree, p)
           f == WithDelegates(e, until, tree, signs)
<1>1. e.address \in Address
  BY DEF EntryGood
<1>2. /\ w \in Entries /\ w.type = "WITH_DELEGATES" /\ w.address = e.address
      /\ w.nonce = e.nonce /\ w.until = until /\ w.call = e.call
  BY DEF Entries, Types
<1>3. f = [w EXCEPT !.signature = top, !.delegates = nodes]
  BY DEF WithDelegates
<1> HIDE DEF w
<1>4. p \in Preimages /\ p.until = until
  BY <1>2, PreimageType
<1> HIDE DEF p
<1>5. top \in SignatureValues /\ (top = Void \/ top = Signature(f.address, p))
  BY <1>1, <1>2, <1>3, <1>4, SignatureType, VoidType DEF Entries
<1>6. f.delegates = nodes
  BY <1>2, <1>3 DEF Entries
<1>t. tree \in Seq(Descriptor)
  BY SorobanAuthAssumption
<1>d. /\ nodes \in Seq(Nodes) /\ Ascending(nodes) /\ DOMAIN nodes = DOMAIN tree
      /\ \A k \in DOMAIN tree :
           /\ nodes[k].address = tree[k].address
           /\ nodes[k].signature = IF tree[k].signs THEN Signature(tree[k].address, p) ELSE Void
  BY <1>4, <1>6, <1>t, BuildDelegateNodesGood
<1>7. /\ nodes \in Seq(Nodes) /\ Ascending(nodes)
      /\ \A n \in Range(nodes) : n.signature = Void \/ n.signature = Signature(n.address, p)
  <2> HIDE DEF nodes, p
  <2> QED
    BY <1>d DEF Range
<1> HIDE DEF top, nodes, f
<1>8. /\ f \in Entries /\ f.type = "WITH_DELEGATES" /\ f.address = e.address
      /\ f.nonce = e.nonce /\ f.until = until /\ f.call = e.call /\ f.signature = top
  BY <1>2, <1>3, <1>5, <1>7 DEF Entries
<1>9. HasCredentials(f) /\ Preimage(f, until) = p
  BY <1>2, <1>8 DEF HasCredentials, Preimage, p
<1>10. \A n \in SignatureNodes(f) :
         n.address \in Address /\ (n.signature = Void \/ n.signature = Signature(n.address, p))
  <2> SUFFICES ASSUME NEW n \in SignatureNodes(f)
               PROVE  n.address \in Address
                      /\ (n.signature = Void \/ n.signature = Signature(n.address, p))
    OBVIOUS
  <2>1. CASE n.address = f.address /\ n.signature = f.signature
    BY <2>1, <1>1, <1>5, <1>8
  <2>2. ASSUME NEW m \in Range(f.delegates), n.address = m.address, n.signature = m.signature
        PROVE  n.address \in Address
               /\ (n.signature = Void \/ n.signature = Signature(n.address, p))
    <3>1. m \in Nodes
      BY <1>6, <1>7 DEF Range
    <3> QED
      BY <2>2, <3>1, <1>6, <1>7 DEF Nodes
  <2> QED
    BY <1>8, <1>9, <2>1, <2>2, NodesOfEntry
<1>11. \A n \in SignatureNodes(f) : Own(n, f)
  BY <1>4, <1>9, <1>10, SignatureType DEF Own
\* Each node that has signed is one of those the caller brings along.
<1>12. SignedLast(Bringing(e, tree, signs), f)
  <2>1. ASSUME signs PROVE \E s \in Signatures(f) : s.by = e.address /\ s.over.until = until
    <3> DEFINE t == [address |-> f.address, signature |-> f.signature]
    <3>1. t \in SignatureNodes(f) /\ t.signature = f.signature
      BY <1>8, <1>9, NodesOfEntry
    <3> HIDE DEF t
    <3>2. f.signature = Signature(e.address, p)
      BY <1>8, <2>1 DEF top
    <3> QED
      BY <1>1, <1>4, <3>1, <3>2, SignatureType DEF Signatures
  <2>2. ASSUME NEW k \in DOMAIN tree, tree[k].signs
        PROVE  \E s \in Signatures(f) : s.by = tree[k].address /\ s.over.until = until
    <3> DEFINE t == [address |-> nodes[k].address, signature |-> nodes[k].signature]
    <3>1. t \in SignatureNodes(f)
      BY <1>6, <1>8, <1>9, <1>d, NodesOfEntry DEF Range
    <3>2. t.signature = nodes[k].signature
      OBVIOUS
    <3> HIDE DEF t
    <3>3. tree[k].address \in Address
      BY <1>t, DescriptorType
    <3> QED
      BY <1>4, <1>d, <2>2, <3>1, <3>2, <3>3, SignatureType DEF Signatures
  <2>3. ASSUME NEW n \in SignatureNodes(f), n.signature # Void
        PROVE  signs \/ \E k \in DOMAIN tree : tree[k].signs
    <3>1. CASE n.signature = f.signature
      BY <1>8, <2>3, <3>1 DEF top
    <3>2. ASSUME NEW m \in Range(f.delegates), n.signature = m.signature
          PROVE  \E k \in DOMAIN tree : tree[k].signs
      BY <1>6, <1>d, <2>3, <3>2 DEF Range
    <3> QED
      BY <1>8, <1>9, <3>1, <3>2, NodesOfEntry
  <2> QED
    BY <1>8, <2>1, <2>2, <2>3 DEF SignedLast, Bringing, Signatures
<1>13. Bringing(e, tree, signs) \subseteq Address
  BY <1>1, <1>t, DescriptorType DEF Bringing
<1> QED
  BY <1>1, <1>6, <1>7, <1>8, <1>9, <1>11, <1>12, <1>13 DEF EntryGood, f

-----------------------------------------------------------------------------
(* The envelope *)

LEMMA UntilsType == TypeInv => Untils \subseteq Nat
<1> SUFFICES ASSUME TypeInv PROVE Untils \subseteq Nat
  OBVIOUS
<1>1. latest \in Nat
  BY DEF TypeInv
<1>2. Agreed \subseteq Nat /\ \A n \in Validity : n \in Nat
  BY SorobanAuthAssumption
<1>3. \A n \in Validity : latest + n \in Nat
  BY <1>1, <1>2
<1> QED
  BY <1>2, <1>3 DEF Untils

\* What a simulation returns has not been signed, and is good.
LEMMA FromSimulationGood ==
  ASSUME NEW entries \in Simulated, NEW first \in Nat
  PROVE  LET new == FromSimulation(entries, first)
         IN /\ new \in Seq(Entries) /\ DOMAIN new = DOMAIN entries
            /\ \A i \in DOMAIN new :
                 EntryGood(new[i]) /\ new[i].signature = Void /\ SignedLast({}, new[i])
<1> DEFINE new == FromSimulation(entries, first)
<1>1. entries \in Seq(Recorded)
  BY SorobanAuthAssumption
<1>2. Len(entries) \in Nat /\ DOMAIN entries = 1..Len(entries) /\ DOMAIN new = DOMAIN entries
  BY <1>1 DEF FromSimulation
<1>3. ASSUME NEW i \in DOMAIN entries
      PROVE  /\ new[i] \in Entries /\ EntryGood(new[i]) /\ new[i].signature = Void
             /\ SignedLast({}, new[i])
  <2>1. entries[i] \in Recorded
    BY <1>1
  <2>2. /\ entries[i].type \in Types \ {"WITH_DELEGATES"} /\ entries[i].address \in Nat
        /\ entries[i].type = "SOURCE_ACCOUNT" \/ entries[i].address \in Address
    BY <2>1 DEF Recorded, Types, Address
  <2>3. first + i \in Nat /\ i \in Nat
    BY <1>2
  <2>4. new[i] = NewEntry(entries[i].type, entries[i].address, first + i, i)
    BY DEF FromSimulation
  <2> QED
    BY <2>2, <2>3, <2>4, NewEntryGood
<1>4. new \in Seq(Entries)
  <2>1. new \in [1..Len(entries) -> Entries]
    BY <1>2, <1>3 DEF FromSimulation
  <2> QED
    BY <1>2, <2>1
<1> QED
  BY <1>2, <1>3, <1>4

\* Entries that nobody has signed are in order.
LEMMA AllUnsignedSeen ==
  ASSUME \A i \in DOMAIN auth : auth[i].signature = Void, unseen = {}, ~signed
  PROVE  Seen
<1>1. ASSUME NEW a PROVE InOrder(a)
  <2>1. \A i \in Matching(a) : i \in Unsigned
    BY DEF Matching, Unsigned
  <2> QED
    BY <2>1 DEF InOrder
<1> QED
  BY <1>1 DEF Seen

LEMMA InitIInv == Init => IInv
<1> SUFFICES ASSUME Init PROVE IInv
  OBVIOUS
<1>1. PICK entries \in Simulated : auth = FromSimulation(entries, 0)
  BY DEF Init
<1>2. /\ auth \in Seq(Entries)
      /\ \A i \in DOMAIN auth :
           EntryGood(auth[i]) /\ auth[i].signature = Void /\ SignedLast({}, auth[i])
  BY <1>1, FromSimulationGood
<1>n. last = [i \in DOMAIN auth |-> {}]
  BY DEF Init
<1>3. TypeInv
  <2>1. Len(auth) \in Nat
    BY <1>2
  <2> QED
    BY <1>2, <1>n, <2>1 DEF Init, TypeInv
<1>4. Seen
  BY <1>2, AllUnsignedSeen DEF Init
<1>5. EntriesGood
  BY <1>2, <1>n DEF EntriesGood
<1> QED
  BY <1>3, <1>4, <1>5 DEF IInv

\* What the loop of _authorize_entries changes, up to the entry end.
LEMMA Signing ==
  ASSUME IInv, NEW a \in Address, NEW end \in Nat, SignUpTo(a, end)
  PROVE  /\ auth' \in Seq(Entries) /\ DOMAIN auth' = DOMAIN auth /\ EntriesGood'
         /\ last' \in [DOMAIN auth' -> SUBSET Address]
         /\ \A i \in DOMAIN auth :
              /\ auth'[i].address = auth[i].address
              /\ HasCredentials(auth'[i]) <=> HasCredentials(auth[i])
              /\ i \in Unsigned' <=> i \in Unsigned /\ ~(i \in Matching(a) /\ i <= end)
         /\ \A b : Matching(b)' = Matching(b)
         /\ unseen' = unseen \cup {i \in Matching(a) : i <= end}
<1> DEFINE now == {i \in Matching(a) : i <= end}
<1>a. /\ auth \in Seq(Entries) /\ Len(auth) \in Nat /\ DOMAIN auth = 1..Len(auth)
      /\ \A i \in DOMAIN auth :
           auth[i] \in Entries /\ EntryGood(auth[i]) /\ SignedLast(last[i], auth[i])
      /\ last \in [DOMAIN auth -> SUBSET Address]
  BY DEF IInv, TypeInv, EntriesGood
<1>1. PICK until \in Nat :
        auth' = [i \in DOMAIN auth |-> IF i \in now THEN AuthorizeEntry(auth[i], a, until)
                                       ELSE auth[i]]
  BY UntilsType DEF SignUpTo, IInv
<1>n. last' = [i \in DOMAIN auth |-> IF i \in now THEN {a} ELSE last[i]]
  BY DEF SignUpTo
<1>2. ASSUME NEW i \in DOMAIN auth
      PROVE  /\ auth'[i] \in Entries /\ EntryGood(auth'[i]) /\ SignedLast(last'[i], auth'[i])
             /\ auth'[i].address = auth[i].address
             /\ HasCredentials(auth'[i]) <=> HasCredentials(auth[i])
             /\ IF i \in now THEN auth'[i].signature # Void ELSE auth'[i] = auth[i]
  <2>1. CASE i \in now
    <3>1. HasCredentials(auth[i]) /\ auth[i].address = a
      BY <2>1 DEF Matching
    <3>2. auth'[i] = AuthorizeEntry(auth[i], auth[i].address, until)
      BY <1>1, <2>1, <3>1
    <3>3. last'[i] = {auth[i].address}
      BY <1>n, <2>1, <3>1
    <3> DEFINE f == AuthorizeEntry(auth[i], auth[i].address, until)
    <3>4. /\ f \in Entries /\ EntryGood(f) /\ HasCredentials(f)
          /\ f.address = auth[i].address /\ f.signature # Void
          /\ SignedLast({auth[i].address}, f)
      BY <1>a, <3>1, AuthorizeEntryGood
    <3> HIDE DEF f
    <3> QED
      BY <2>1, <3>1, <3>2, <3>3, <3>4 DEF f
  <2>2. CASE i \notin now
    <3>1. auth'[i] = auth[i] /\ last'[i] = last[i]
      BY <1>1, <1>n, <2>2
    <3> QED
      BY <1>a, <2>2, <3>1
  <2> QED
    BY <2>1, <2>2
<1>3. DOMAIN auth' = DOMAIN auth /\ auth' \in Seq(Entries)
  <2>1. DOMAIN auth' = 1..Len(auth) /\ auth' \in [1..Len(auth) -> Entries]
    BY <1>1, <1>2, <1>a
  <2> QED
    BY <1>a, <2>1
<1>4. EntriesGood'
  BY <1>2, <1>3 DEF EntriesGood
<1>l. last' \in [DOMAIN auth' -> SUBSET Address]
  BY <1>a, <1>n, <1>3
<1>5. \A b : Matching(b)' = Matching(b)
  BY <1>2, <1>3 DEF Matching
<1>6. \A i \in DOMAIN auth : i \in Unsigned' <=> i \in Unsigned /\ i \notin now
  BY <1>2, <1>3 DEF Unsigned
<1>7. unseen' = unseen \cup now
  BY DEF SignUpTo
<1> QED
  BY <1>2, <1>3, <1>4, <1>5, <1>6, <1>7, <1>l

LEMMA AuthorizeIInv == ASSUME IInv, NEW a \in Address, Authorize(a) PROVE IInv'
<1>a. TypeInv /\ Seen /\ ~signed /\ ~signed' /\ UNCHANGED <<latest, signed, nonces, loose>>
      /\ needsPrep' = (needsPrep \/ (Matching(a) # {} /\ a \in Contracts))
      /\ SignUpTo(a, Len(auth))
  BY DEF IInv, Authorize
<1>b. Len(auth) \in Nat /\ \A i \in DOMAIN auth : i <= Len(auth)
  BY <1>a DEF TypeInv
<1>1. /\ auth' \in Seq(Entries) /\ DOMAIN auth' = DOMAIN auth /\ EntriesGood'
      /\ last' \in [DOMAIN auth' -> SUBSET Address]
      /\ \A i \in DOMAIN auth :
           /\ auth'[i].address = auth[i].address
           /\ HasCredentials(auth'[i]) <=> HasCredentials(auth[i])
           /\ i \in Unsigned' <=> i \in Unsigned /\ ~(i \in Matching(a) /\ i <= Len(auth))
      /\ \A b : Matching(b)' = Matching(b)
      /\ unseen' = unseen \cup {i \in Matching(a) : i <= Len(auth)}
  BY <1>a, <1>b, Signing
<1>2. \A i \in Matching(a) : i \in DOMAIN auth /\ HasCredentials(auth[i]) /\ auth[i].address = a
  BY DEF Matching
<1>3. /\ unseen' = unseen \cup Matching(a)
      /\ \A i \in DOMAIN auth : i \in Unsigned' <=> i \in Unsigned /\ i \notin Matching(a)
  BY <1>1, <1>2, <1>b
<1>4. TypeInv'
  BY <1>a, <1>1, <1>2, <1>3 DEF TypeInv
<1>5. Seen'
  <2>1. \A i \in unseen' : HasCredentials(auth'[i])
    BY <1>a, <1>1, <1>2, <1>3 DEF Seen, TypeInv
  <2>2. ASSUME NEW b \in Address, ~(Matching(b)' \subseteq loose') PROVE InOrder(b)'
    <3>1. InOrder(b)
      BY <1>a, <1>1, <2>2 DEF Seen
    <3>2. \A i \in Matching(b) : i \in DOMAIN auth /\ (i \in Matching(a) <=> b = a)
      BY <1>2 DEF Matching
    <3> QED
      BY <1>1, <1>3, <3>1, <3>2 DEF InOrder
  <2>3. ASSUME NEW b \in Contracts, ~needsPrep'
        PROVE  Matching(b)' \cap unseen' \subseteq loose' \/ Matching(b)' \cap Unsigned' # {}
    <3>1. Matching(b)' = Matching(b) /\ loose' = loose /\ ~needsPrep
      BY <1>a, <1>1, <2>3
    <3>2. CASE b = a
      BY <1>a, <2>3, <3>1, <3>2
    <3>3. CASE b # a
      <4>1. \A i \in Matching(b) : i \in DOMAIN auth /\ i \notin Matching(a)
        BY <3>3 DEF Matching
      <4>2. Matching(b) \cap unseen \subseteq loose \/ Matching(b) \cap Unsigned # {}
        BY <1>a, <3>1 DEF Seen
      <4> QED
        BY <1>3, <3>1, <4>1, <4>2
    <3> QED
      BY <3>2, <3>3
  <2> QED
    BY <1>a, <2>1, <2>2, <2>3 DEF Seen
<1> QED
  BY <1>1, <1>4, <1>5 DEF IInv

LEMMA AuthorizeFailsIInv == ASSUME IInv, NEW a \in Address, AuthorizeFails(a) PROVE IInv'
<1>a. TypeInv /\ Seen /\ ~signed /\ ~signed' /\ UNCHANGED <<latest, needsPrep, signed, nonces>>
  BY DEF IInv, AuthorizeFails
<1>m. \A b : \A i \in Matching(b) :
        i \in DOMAIN auth /\ i \in Nat /\ HasCredentials(auth[i]) /\ (i \in Matching(a) <=> b = a)
  BY <1>a DEF Matching, TypeInv
<1>b. PICK end \in Matching(a) :
        /\ \E i \in Matching(a) : i > end
        /\ SignUpTo(a, end)
        /\ loose' = loose \cup {i \in Matching(a) : i <= end /\ auth[i].signature # Void}
  BY DEF AuthorizeFails
<1>c. PICK later \in Matching(a) : later > end
  BY <1>b
<1>d. end \in Nat
  BY <1>m
<1> DEFINE now == {i \in Matching(a) : i <= end}
<1>1. /\ auth' \in Seq(Entries) /\ DOMAIN auth' = DOMAIN auth /\ EntriesGood'
      /\ last' \in [DOMAIN auth' -> SUBSET Address]
      /\ \A i \in DOMAIN auth :
           /\ auth'[i].address = auth[i].address
           /\ HasCredentials(auth'[i]) <=> HasCredentials(auth[i])
           /\ i \in Unsigned' <=> i \in Unsigned /\ i \notin now
      /\ \A b : Matching(b)' = Matching(b)
      /\ unseen' = unseen \cup now
  <2>1. \A i : i \in now <=> i \in Matching(a) /\ i <= end
    OBVIOUS
  <2> HIDE DEF now
  <2> QED
    BY <1>b, <1>d, <2>1, Signing DEF now
<1>2. loose' = loose \cup (now \ Unsigned)
  BY <1>b, <1>m DEF Unsigned
<1>3. TypeInv'
  BY <1>a, <1>m, <1>1, <1>2 DEF TypeInv
<1>4. Seen'
  <2>1. \A i \in unseen' : HasCredentials(auth'[i])
    BY <1>a, <1>m, <1>1 DEF Seen, TypeInv
  <2>2. ASSUME NEW b \in Address, ~(Matching(b)' \subseteq loose') PROVE InOrder(b)'
    <3>1. InOrder(b)
      BY <1>a, <1>1, <1>2, <2>2 DEF Seen
    <3>2. ASSUME NEW i \in Matching(b), NEW j \in Matching(b), i < j, i \in Unsigned'
          PROVE  j \in Unsigned'
      <4>1. i \in Unsigned /\ i \notin now /\ j \in Unsigned
        BY <1>m, <1>1, <3>1, <3>2 DEF InOrder
      <4>2. j \notin now
        BY <1>d, <1>m, <3>2, <4>1
      <4> QED
        BY <1>m, <1>1, <4>1, <4>2
    <3> QED
      BY <1>1, <3>2 DEF InOrder
  <2>3. ASSUME NEW b \in Contracts, ~needsPrep'
        PROVE  Matching(b)' \cap unseen' \subseteq loose' \/ Matching(b)' \cap Unsigned' # {}
    <3>1. Matching(b)' = Matching(b) /\ ~needsPrep
      BY <1>a, <1>1, <2>3
    <3>2. CASE b # a
      <4>1. \A i \in Matching(b) : i \in DOMAIN auth /\ i \notin now
        BY <1>m, <3>2
      <4>2. Matching(b) \cap unseen \subseteq loose \/ Matching(b) \cap Unsigned # {}
        BY <1>a, <3>1 DEF Seen
      <4> QED
        BY <1>1, <1>2, <3>1, <4>1, <4>2
    \* Entries that were unsigned leave the later one unsigned.
    <3>3. CASE b = a
      <4>1. later \notin now /\ \A i \in now : i < later
        BY <1>c, <1>d, <1>m
      <4>2. CASE Matching(a) \subseteq loose
        BY <1>2, <3>1, <3>3, <4>2
      <4>3. ASSUME InOrder(a), NEW i \in Matching(a) \cap Unsigned
            PROVE  Matching(a) \cap Unsigned' # {}
        <5>1. CASE i \in now
          <6>1. later \in Unsigned
            BY <4>1, <4>3, <5>1 DEF InOrder
          <6> QED
            BY <1>m, <1>1, <4>1, <6>1
        <5>2. CASE i \notin now
          BY <1>m, <1>1, <5>2
        <5> QED
          BY <5>1, <5>2
      <4>4. CASE Matching(a) \cap Unsigned = {}
        <5>1. Matching(a) \cap unseen \subseteq loose
          BY <1>a, <3>1, <3>3, <4>4 DEF Seen
        <5> QED
          BY <1>1, <1>2, <3>1, <3>3, <4>4, <5>1
      <4>5. Matching(a) \subseteq loose \/ InOrder(a)
        BY <1>a DEF Seen
      <4> QED
        BY <3>1, <3>3, <4>2, <4>3, <4>4, <4>5
    <3> QED
      BY <3>2, <3>3
  <2> QED
    BY <1>a, <2>1, <2>2, <2>3 DEF Seen
<1> QED
  BY <1>1, <1>3, <1>4 DEF IInv

\* A caller who puts an entry of the same address in an entry's place.
LEMMA ByHandIInv ==
  ASSUME IInv, NEW i \in DOMAIN auth, NEW e \in Entries, EntryGood(e),
         NEW by \in SUBSET Address, SignedLast(by, e),
         HasCredentials(e), HasCredentials(auth[i]), e.address = auth[i].address,
         ByHand(i, e, by), nonces' \in Nat
  PROVE  IInv'
<1> DEFINE a == auth[i].address
<1>a. /\ TypeInv /\ EntriesGood /\ Seen /\ ~signed /\ ~signed'
      /\ UNCHANGED <<latest, needsPrep, signed>>
      /\ auth' = [auth EXCEPT ![i] = e] /\ unseen' = unseen \cup {i}
      /\ loose' = loose \cup Matching(a) /\ last' = [last EXCEPT ![i] = by]
  BY DEF IInv, ByHand
<1>b. auth \in Seq(Entries) /\ Len(auth) \in Nat /\ DOMAIN auth = 1..Len(auth)
  BY <1>a DEF TypeInv
<1>1. /\ auth' \in Seq(Entries) /\ DOMAIN auth' = DOMAIN auth
      /\ auth'[i] = e /\ \A j \in DOMAIN auth : j # i => auth'[j] = auth[j]
  BY <1>a, <1>b
<1>n. /\ last' \in [DOMAIN auth' -> SUBSET Address]
      /\ last'[i] = by /\ \A j \in DOMAIN auth : j # i => last'[j] = last[j]
  BY <1>a, <1>1 DEF TypeInv
<1>2. EntriesGood'
  BY <1>a, <1>1, <1>n DEF EntriesGood
<1>3. \A b : Matching(b)' = Matching(b)
  BY <1>1 DEF Matching
<1>4. i \in Matching(a) /\ \A b : \A j \in Matching(b) : j \in DOMAIN auth
  BY DEF Matching
<1>5. TypeInv'
  BY <1>a, <1>1, <1>4, <1>n DEF TypeInv
<1>6. \A b : b # a => \A j \in Matching(b) : j # i
  BY DEF Matching
<1>7. \A j \in DOMAIN auth : j # i => (j \in Unsigned' <=> j \in Unsigned)
  BY <1>1 DEF Unsigned
<1> HIDE DEF a
<1>8. Seen'
  <2>1. \A j \in unseen' : HasCredentials(auth'[j])
    BY <1>a, <1>1 DEF Seen, TypeInv
  <2>2. ASSUME NEW b \in Address PROVE (Matching(b)' \subseteq loose') \/ InOrder(b)'
    <3>1. CASE b = a
      BY <1>a, <1>3, <3>1
    <3>2. CASE b # a
      <4>1. Matching(b) \subseteq loose \/ InOrder(b)
        BY <1>a DEF Seen
      <4> QED
        BY <1>a, <1>3, <1>4, <1>6, <1>7, <3>2, <4>1 DEF InOrder
    <3> QED
      BY <3>1, <3>2
  <2>3. ASSUME NEW b \in Contracts, ~needsPrep'
        PROVE  Matching(b)' \cap unseen' \subseteq loose' \/ Matching(b)' \cap Unsigned' # {}
    <3>1. CASE b = a
      BY <1>a, <1>3, <3>1
    <3>2. CASE b # a
      <4>1. Matching(b) \cap unseen \subseteq loose \/ Matching(b) \cap Unsigned # {}
        BY <1>a, <2>3 DEF Seen
      <4> QED
        BY <1>a, <1>3, <1>4, <1>6, <1>7, <3>2, <4>1
    <3> QED
      BY <3>1, <3>2
  <2> QED
    BY <1>a, <2>1, <2>2, <2>3 DEF Seen
<1> QED
  BY <1>2, <1>5, <1>8 DEF IInv

LEMMA AuthorizeByHandIInv ==
  ASSUME IInv, NEW i \in DOMAIN auth, NEW a, AuthorizeByHand(i, a)
  PROVE  IInv'
<1>1. auth[i] \in Entries /\ EntryGood(auth[i]) /\ nonces' \in Nat
  BY DEF IInv, TypeInv, EntriesGood, AuthorizeByHand
<1>2. PICK node \in SignatureNodes(auth[i]) : node.address = a
  BY DEF AuthorizeByHand
<1>3. a \in Address
  <2>1. HasCredentials(auth[i])
    BY <1>2 DEF SignatureNodes
  <2>2. auth[i].delegates \in Seq(Nodes)
    BY <1>1 DEF Entries
  <2>3. \A n \in Range(auth[i].delegates) : n.address \in Address
    <3>1. \A n \in Range(auth[i].delegates) : n \in Nodes
      BY <2>2 DEF Range
    <3> QED
      BY <3>1 DEF Nodes
  <2> QED
    BY <1>1, <1>2, <2>1, <2>3, NodesOfEntry DEF EntryGood
<1>4. PICK until \in Nat : ByHand(i, AuthorizeNodes(auth[i], a, until), {a})
  BY UntilsType DEF AuthorizeByHand, IInv
<1> DEFINE e == AuthorizeNodes(auth[i], a, until)
<1>5. e \in Entries /\ EntryGood(e) /\ HasCredentials(e) /\ HasCredentials(auth[i])
      /\ e.address = auth[i].address /\ SignedLast({a}, e)
  BY <1>1, <1>2, <1>3, AuthorizeNodesGood
<1> HIDE DEF e
<1> QED
  BY <1>1, <1>3, <1>4, <1>5, ByHandIInv DEF e

LEMMA AddDelegatesIInv ==
  ASSUME IInv, NEW i \in DOMAIN auth, AddDelegates(i)
  PROVE  IInv'
<1>1. auth[i] \in Entries /\ EntryGood(auth[i]) /\ HasCredentials(auth[i]) /\ nonces' \in Nat
  BY DEF IInv, TypeInv, EntriesGood, AddDelegates, HasCredentials
<1>2. PICK until \in Nat, tree \in Trees, signs \in BOOLEAN :
        LET e == WithDelegates(auth[i], until, tree, signs)
        IN ~Duplicates(e.delegates) /\ ByHand(i, e, Bringing(auth[i], tree, signs))
  BY UntilsType DEF AddDelegates, IInv
<1> DEFINE e == WithDelegates(auth[i], until, tree, signs)
<1>3. /\ e \in Entries /\ EntryGood(e) /\ HasCredentials(e) /\ e.address = auth[i].address
      /\ SignedLast(Bringing(auth[i], tree, signs), e)
      /\ Bringing(auth[i], tree, signs) \subseteq Address
  BY <1>1, <1>2, WithDelegatesGood
<1> HIDE DEF e
<1> QED
  BY <1>1, <1>2, <1>3, ByHandIInv DEF e

LEMMA AuthorizeAnewIInv ==
  ASSUME IInv, NEW i \in DOMAIN auth, AuthorizeAnew(i)
  PROVE  IInv'
<1>1. auth[i] \in Entries /\ EntryGood(auth[i]) /\ HasCredentials(auth[i])
      /\ nonces \in Nat /\ nonces' = nonces + 1
  BY DEF IInv, TypeInv, EntriesGood, AuthorizeAnew
<1>2. nonces' \in Nat /\ auth[i].address \in Address /\ auth[i].call \in Nat
  <2>1. \A n \in Nat : n + 1 \in Nat
    OBVIOUS
  <2> QED
    BY <1>1, <2>1 DEF EntryGood, Entries
<1>3. PICK type \in {"ADDRESS", "ADDRESS_V2"}, until \in Nat :
        ByHand(i, AuthorizeInvocation(type, auth[i].address, nonces', auth[i].call, until),
               {auth[i].address})
  BY UntilsType DEF AuthorizeAnew, IInv
<1> DEFINE e == AuthorizeInvocation(type, auth[i].address, nonces', auth[i].call, until)
<1>4. /\ e \in Entries /\ EntryGood(e) /\ HasCredentials(e) /\ e.address = auth[i].address
      /\ SignedLast({auth[i].address}, e)
  <2>1. ASSUME NEW n \in Nat
        PROVE  LET f == AuthorizeInvocation(type, auth[i].address, n, auth[i].call, until)
               IN f \in Entries /\ EntryGood(f) /\ HasCredentials(f)
                  /\ f.address = auth[i].address /\ SignedLast({auth[i].address}, f)
    BY <1>2, AuthorizeInvocationGood
  <2> QED
    BY <1>2, <2>1
<1> HIDE DEF e
<1> QED
  BY <1>1, <1>2, <1>3, <1>4, ByHandIInv DEF e

LEMMA LaterLedgerType == TypeInv /\ LaterLedger => latest' \in Nat
BY SorobanAuthAssumption DEF TypeInv, LaterLedger

LEMMA SimulateIInv == IInv /\ Simulate => IInv'
<1> SUFFICES ASSUME IInv, Simulate PROVE IInv'
  OBVIOUS
<1>a. TypeInv /\ nonces \in Nat
  BY DEF IInv, TypeInv
<1>1. PICK entries \in Simulated :
        auth' = FromSimulation(entries, nonces) /\ nonces' = nonces + Len(entries)
  BY DEF Simulate
<1>2. /\ auth' \in Seq(Entries)
      /\ \A i \in DOMAIN auth' :
           EntryGood(auth'[i]) /\ auth'[i].signature = Void /\ SignedLast({}, auth'[i])
  BY <1>a, <1>1, FromSimulationGood
<1>3. unseen' = {} /\ loose' = {} /\ needsPrep' = FALSE /\ signed' = FALSE
  BY DEF Simulate
<1>n. last' = [i \in DOMAIN auth' |-> {}]
  BY DEF Simulate
<1>8. EntriesGood'
  BY <1>2, <1>n DEF EntriesGood
<1>4. nonces' \in Nat
  <2>1. Len(entries) \in Nat
    BY SorobanAuthAssumption
  <2>2. \A m, n \in Nat : m + n \in Nat
    OBVIOUS
  <2> QED
    BY <1>a, <1>1, <2>1, <2>2
<1>5. latest' \in Nat
  BY <1>a, LaterLedgerType DEF Simulate
<1>6. TypeInv'
  BY <1>2, <1>3, <1>4, <1>5, <1>n DEF TypeInv
<1>7. Seen'
  <2>1. ASSUME NEW a PROVE InOrder(a)'
    <3>1. \A i \in Matching(a)' : i \in Unsigned'
      BY <1>2 DEF Matching, Unsigned
    <3> QED
      BY <3>1 DEF InOrder
  <2> QED
    BY <1>3, <2>1 DEF Seen
<1> QED
  BY <1>6, <1>7, <1>8 DEF IInv

LEMMA PrepareIInv == IInv /\ Prepare => IInv'
<1> SUFFICES ASSUME IInv, Prepare PROVE IInv'
  OBVIOUS
<1>1. /\ TypeInv /\ EntriesGood /\ Seen /\ ~signed /\ Unsigned = {}
      /\ auth' = auth /\ signed' = signed /\ nonces' = nonces /\ last' = last
      /\ \/ needsPrep' = FALSE /\ unseen' = {} /\ loose' = {}
         \/ UNCHANGED <<needsPrep, unseen, loose>>
  BY DEF IInv, Prepare
<1>2. latest' \in Nat
  BY <1>1, LaterLedgerType DEF Prepare
<1>3. TypeInv' /\ EntriesGood'
  BY <1>1, <1>2 DEF TypeInv, EntriesGood
<1>4. Unsigned' = {} /\ \A a : Matching(a)' = Matching(a) /\ InOrder(a)'
  BY <1>1 DEF Unsigned, Matching, InOrder
<1>5. Seen'
  BY <1>1, <1>4 DEF Seen
<1> QED
  BY <1>3, <1>5 DEF IInv

LEMMA SignIInv == IInv /\ Sign => IInv'
BY DEF IInv, Sign, TypeInv, EntriesGood, Seen, Matching, InOrder, Unsigned

LEMMA NextIInv == IInv /\ [Next]_vars => IInv'
<1> SUFFICES ASSUME IInv, [Next]_vars PROVE IInv'
  OBVIOUS
<1>o. Owners \subseteq Address
  BY DEF IInv, EntriesGood, EntryGood, Owners
<1>1. ASSUME NEW a \in Owners, Authorize(a) PROVE IInv'
  BY <1>o, <1>1, AuthorizeIInv
<1>2. ASSUME NEW a \in Owners, AuthorizeFails(a) PROVE IInv'
  BY <1>o, <1>2, AuthorizeFailsIInv
<1>3. ASSUME NEW i \in DOMAIN auth,
             NEW node \in SignatureNodes(auth[i]), AuthorizeByHand(i, node.address)
      PROVE  IInv'
  BY <1>3, AuthorizeByHandIInv
<1>4. ASSUME NEW i \in DOMAIN auth, AddDelegates(i) PROVE IInv'
  BY <1>4, AddDelegatesIInv
<1>5. ASSUME NEW i \in DOMAIN auth, AuthorizeAnew(i) PROVE IInv'
  BY <1>5, AuthorizeAnewIInv
<1>6. CASE UNCHANGED vars
  BY <1>6 DEF vars, IInv, TypeInv, EntriesGood, Seen, Matching, InOrder, Unsigned
<1> QED
  BY <1>1, <1>2, <1>3, <1>4, <1>5, <1>6, SimulateIInv, PrepareIInv, SignIInv DEF Next

LEMMA Invariance == Spec => []IInv
BY InitIInv, NextIInv, PTL DEF Spec

-----------------------------------------------------------------------------
(* The theorems *)

\* Nobody's signature in an entry is in the way of another's: once all delegates
\* have signed until the entry's ledger, in any order and at any depth, on an
\* entry wrapped or built anew, the host accepts it (auth.py, authorize_entry and
\* build_with_delegates_entry).
THEOREM AgreedAccepted == Spec => []AllAgreedIsAccepted
<1>1. IInv => AllAgreedIsAccepted
  <2> SUFFICES ASSUME IInv, NEW i \in DOMAIN auth,
                      Signatures(auth[i]) # {},
                      \A s \in Signatures(auth[i]) : s.over.until = auth[i].until,
                      \A node \in Range(auth[i].delegates) : node.signature # Void
               PROVE  HostAccepts(auth[i])
    BY DEF AllAgreedIsAccepted
  <2> DEFINE e == auth[i]
  <2>1. e \in Entries /\ EntryGood(e)
    BY DEF IInv, TypeInv, EntriesGood
  <2> HIDE DEF e
  <2>2. HasCredentials(e)
    BY DEF Signatures, SignatureNodes, e
  <2>3. ASSUME NEW n \in SignatureNodes(e), n.signature # Void
        PROVE  n.signature.by = n.address /\ Verifies(n.signature, e)
    <3>1. n.signature \in Signatures(e)
      BY <2>3 DEF Signatures
    <3>2. n.signature.over.until = e.until
      BY <3>1 DEF e
    <3> QED
      BY <2>1, <2>3, <3>2 DEF EntryGood, Own, Verifies
  <2>4. \A n \in Range(e.delegates) : n.signature.by = n.address /\ Verifies(n.signature, e)
    <3> SUFFICES ASSUME NEW n \in Range(e.delegates)
                 PROVE  n.signature.by = n.address /\ Verifies(n.signature, e)
      OBVIOUS
    <3> DEFINE m == [address |-> n.address, signature |-> n.signature]
    <3>1. m \in SignatureNodes(e) /\ m.address = n.address /\ m.signature = n.signature
      BY <2>1, <2>2, NodesOfEntry
    <3>2. n.signature # Void
      BY DEF e
    <3> HIDE DEF m
    <3> QED
      BY <2>3, <3>1, <3>2
  <2>5. CASE e.signature # Void
    <3> DEFINE m == [address |-> e.address, signature |-> e.signature]
    <3>1. m \in SignatureNodes(e) /\ m.address = e.address /\ m.signature = e.signature
      BY <2>1, <2>2, NodesOfEntry
    <3> HIDE DEF m
    <3>2. e.signature.by = e.address /\ Verifies(e.signature, e)
      BY <2>3, <2>5, <3>1
    <3> QED
      BY <2>1, <2>4, <3>2 DEF HostAccepts, EntryGood, e
  <2>6. CASE e.signature = Void
    <3>1. Range(e.delegates) # {}
      <4>1. PICK n \in SignatureNodes(e) : n.signature # Void
        BY DEF Signatures, e
      <4> QED
        BY <2>1, <2>2, <2>6, <4>1, NodesOfEntry
    <3>2. e.delegates # <<>>
      BY <3>1 DEF Range
    <3> QED
      BY <2>1, <2>4, <2>6, <3>2 DEF HostAccepts, EntryGood, e
  <2> QED
    BY <2>5, <2>6
<1> QED
  BY <1>1, Invariance, PTL

\* Those who signed an entry last, the owner, a delegate or who brought signatures
\* when the entry was wrapped, hold signatures that verify; so does each other
\* who chose the same ledger, and nobody else (auth.py, authorize_entry).
THEOREM LastVerifies == Spec => []LastSignerVerifies
<1>1. IInv => LastSignerVerifies
  <2> SUFFICES ASSUME IInv, NEW i \in DOMAIN auth
               PROVE  LET e == auth[i]
                          valid == {s \in Signatures(e) : Verifies(s, e)}
                      IN /\ last[i] \subseteq {s.by : s \in valid}
                         /\ Signatures(e) # {} => last[i] # {}
                         /\ valid = {s \in Signatures(e) : s.over.until = e.until}
    BY DEF LastSignerVerifies
  <2> DEFINE e == auth[i]
  <2>1. e \in Entries /\ EntryGood(e)
    BY DEF IInv, TypeInv, EntriesGood
  <2> HIDE DEF e
  <2>2. Preimage(e, e.until).until = e.until
    BY <2>1, PreimageType DEF Entries
  <2>3. \A s \in Signatures(e) : Verifies(s, e) <=> s.over.until = e.until
    <3> SUFFICES ASSUME NEW s \in Signatures(e)
                 PROVE  Verifies(s, e) <=> s.over.until = e.until
      OBVIOUS
    <3>1. PICK n \in SignatureNodes(e) : n.signature = s /\ s # Void
      BY DEF Signatures
    <3>2. s.over = Preimage(e, s.over.until)
      BY <2>1, <3>1 DEF EntryGood, Own
    <3> QED
      BY <2>2, <3>2 DEF Verifies
  <2>4. SignedLast(last[i], e)
    BY DEF IInv, EntriesGood, e
  <2> QED
    BY <2>3, <2>4 DEF SignedLast, e
<1> QED
  BY <1>1, Invariance, PTL

\* sign() never signs over a contract account's entries that the simulation has
\* not seen, unless their owner changed or signed them twice by himself: a signer
\* that raises half way leaves either an entry unsigned or only such behind
\* (assembled_transaction.py, _authorize_entries and sign).
THEOREM SignedSeen == Spec => []SignedAsSeen
<1>1. IInv => SignedAsSeen
  <2> SUFFICES ASSUME IInv, signed, NEW i \in unseen \ loose
               PROVE  auth[i].address \notin Contracts
    BY DEF SignedAsSeen
  <2>1. /\ ~needsPrep /\ Unsigned = {} /\ HasCredentials(auth[i]) /\ i \in DOMAIN auth
        /\ \A a \in Contracts :
             Matching(a) \cap unseen \subseteq loose \/ needsPrep \/ Matching(a) \cap Unsigned # {}
    BY DEF IInv, TypeInv, Seen
  <2>2. i \in Matching(auth[i].address)
    BY <2>1 DEF Matching
  <2> QED
    BY <2>1, <2>2
<1> QED
  BY <1>1, Invariance, PTL

=============================================================================
