---- MODULE XdrCodec ----
\* How the generated classes of stellar_sdk/xdr turn a value into bytes (pack,
\* to_xdr_bytes) and back (unpack, from_xdr_bytes). Base64 is left out.
\*
\* A value is a sequence of bytes (numbers, opaque data, strings), a Boolean, the int
\* of an enumeration, a sequence of the values of a struct's fields or a list's items,
\* a pair of a union's discriminant and its arm, <<>> or <<v>> where it is optional.
\* An operator that may raise returns <<>> when it does.

EXTENDS XdrOverlay, SequencesExt

CONSTANT MaxDepth  \* base.py: DEFAULT_XDR_MAX_DEPTH

ASSUME DepthAssumption == MaxDepth \in Nat \ {0}


Definition(name) ==
  CASE name = "SCVal" -> SCVal
    [] name = "SCSpecTypeDef" -> SCSpecTypeDef
    [] name = "ClaimPredicate" -> ClaimPredicate
    [] name = "SCPQuorumSet" -> SCPQuorumSet
    [] name = "SorobanAuthorizedInvocation" -> SorobanAuthorizedInvocation
    [] name = "SorobanDelegateSignature" -> SorobanDelegateSignature
    [] name = "LedgerEntry" -> LedgerEntry
    [] name = "LedgerEntryChanges" -> LedgerEntryChanges
    [] name = "LedgerKey" -> LedgerKey
    [] name = "Operation" -> Operation
    [] name = "TransactionEnvelope" -> TransactionEnvelope
    [] name = "TransactionResult" -> TransactionResult
    [] name = "TransactionMeta" -> TransactionMeta
    [] name = "SorobanAuthorizationEntry" -> SorobanAuthorizationEntry
    [] name = "Asset" -> Asset
    [] name = "SCAddress" -> SCAddress
    [] name = "SCSpecEntry" -> SCSpecEntry
    [] name = "OperationResult" -> OperationResult
    [] name = "ConfigSettingEntry" -> ConfigSettingEntry
    [] name = "LedgerCloseMeta" -> LedgerCloseMeta
    [] name = "SCPEnvelope" -> SCPEnvelope
    [] name = "StellarMessage" -> StellarMessage
    [] name = "TransactionSignaturePayload" -> TransactionSignaturePayload
    [] name = "HashIDPreimage" -> HashIDPreimage
    [] name = "InvokeHostFunctionSuccessPreImage" -> InvokeHostFunctionSuccessPreImage
    [] name = "BucketEntry" -> BucketEntry
    [] name = "HotArchiveBucketEntry" -> HotArchiveBucketEntry
    [] name = "PersistedSCPState" -> PersistedSCPState
    [] name = "SurveyResponseBody" -> SurveyResponseBody
    [] name = "TransactionHistoryEntry" -> TransactionHistoryEntry
    [] name = "TransactionHistoryResultEntry" -> TransactionHistoryResultEntry
    [] name = "SCMetaEntry" -> SCMetaEntry
    [] name = "SCEnvMetaEntry" -> SCEnvMetaEntry
    [] name = "SerializedBinaryFuseFilter" -> SerializedBinaryFuseFilter

\* ---- Packing ---------------------------------------------------------------------

\* The four bytes of an int, two's complement.
Word(n) ==
  LET Bytes(m) == <<m \div 16777216, (m \div 65536) % 256, (m \div 256) % 256, m % 256>>
  IN  IF n >= 0 THEN Bytes(n) ELSE [i \in 1..4 |-> 255 - Bytes(-(n + 1))[i]]

\* The bytes of the padding after n bytes.
PadLength(n) == (4 - (n % 4)) % 4

Padded(bytes) == bytes \o [i \in 1..PadLength(Len(bytes)) |-> 0]

ArmOf(t, v) == t.arms[t.switch.names[v]]

HasArm(t, v) == v \in DOMAIN t.switch.names /\ t.switch.names[v] \in DOMAIN t.arms

RECURSIVE Pack(_, _)
Pack(t, v) ==
  CASE t.kind \in {"number", "decimal"} -> v
    [] t.kind = "boolean" -> Word(IF v THEN 1 ELSE 0)
    [] t.kind = "enum" -> Word(v)
    [] t.kind = "opaque" -> Padded(v)
    [] t.kind \in {"varopaque", "string"} -> Word(Len(v)) \o Padded(v)
    [] t.kind = "optional" ->
         IF v = <<>> THEN Word(0) ELSE Word(1) \o Pack(t.of, v[1])
    [] t.kind = "list" -> Word(Len(v)) \o FlattenSeq([i \in DOMAIN v |-> Pack(t.of, v[i])])
    [] t.kind = "array" -> FlattenSeq([i \in DOMAIN v |-> Pack(t.of, v[i])])
    [] t.kind = "struct" -> FlattenSeq([i \in DOMAIN v |-> Pack(t.fields[i][2], v[i])])
    [] t.kind = "union" -> Word(v[1]) \o Pack(ArmOf(t, v[1]), v[2])
    [] t.kind = "void" -> <<>>
    [] t.kind = "ref" -> Pack(Definition(t.name), v)
    [] OTHER -> Pack(t.of, v)

\* ---- Unpacking -------------------------------------------------------------------
\* Each operator reads the packet b from position p on and returns what it read and
\* where it stopped.

Take(b, p, n) == IF n > Len(b) - p THEN <<>> ELSE <<SubSeq(b, p + 1, p + n), p + n>>

\* unpack_uint as a length or a flag: one above Unlimited is cut to it, which no packet
\* is as long as.
Unsigned(w) ==
  IF w[1] > 126 THEN Unlimited ELSE w[1] * 16777216 + w[2] * 65536 + w[3] * 256 + w[4]

\* unpack_int as a discriminant.
Signed(w) ==
  IF w[1] < 128 THEN Unsigned(w) ELSE -Unsigned([i \in 1..4 |-> 255 - w[i]]) - 1

\* Mutant: data whose padding is missing at the end of the packet is read all the same.
TakePaddedLoosely(b, p, n) ==
  IF n > Len(b) - p THEN <<>>
  ELSE <<SubSeq(b, p + 1, p + n),
         IF p + n + PadLength(n) > Len(b) THEN Len(b) ELSE p + n + PadLength(n)>>

\* fopaque: the padding is skipped, whatever is in it.
TakePadded(b, p, n) ==
  LET read == Take(b, p, n + PadLength(n))
  IN  IF read = <<>> THEN <<>> ELSE <<SubSeq(read[1], 1, n), read[2]>>

\* The length of a list is checked before its items are read, against what is left of
\* the packet, and that of a text against its limit.
Credible(n, remaining) == remaining >= n
Declarable(t, n) == n <= t.max

\* Mutant: a list of one item more than its limit is accepted.
WithinLimitAndOne(t, n) == n <= t.max + 1

\* The constructors check it again, once the items are there.
WithinLimit(t, n) == n <= t.max

\* Mutant: the limit is handed on as it is.
DepthKept(depth) == depth

\* A class with parts counts a level; enumerations and what base.py reads do not.
DepthBelow(depth) == depth - 1

RECURSIVE Unpack(_, _, _, _), UnpackAll(_, _, _, _)
\* The values of a sequence of types, one after the other.
UnpackAll(ts, b, p, depth) ==
  IF ts = <<>> THEN <<<<>>, p>>
  ELSE LET first == Unpack(Head(ts), b, p, depth)
       IN  IF first = <<>> THEN <<>>
           ELSE LET rest == UnpackAll(Tail(ts), b, first[2], depth)
                IN  IF rest = <<>> THEN <<>> ELSE <<<<first[1]>> \o rest[1], rest[2]>>

Unpack(t, b, p, depth) ==
  LET word == Take(b, p, 4)
      below == DepthBelow(depth)
      Times(n) == [i \in 1..n |-> t.of]
  IN  CASE t.kind \in {"number", "decimal"} -> Take(b, p, t.size)
        [] t.kind = "boolean" ->
             IF word = <<>> THEN <<>> ELSE <<Unsigned(word[1]) # 0, p + 4>>
        [] t.kind = "enum" ->
             IF word = <<>> \/ Signed(word[1]) \notin DOMAIN t.names THEN <<>>
             ELSE <<Signed(word[1]), p + 4>>
        [] t.kind = "opaque" -> TakePadded(b, p, t.size)
        [] t.kind \in {"varopaque", "string"} ->
             IF word = <<>> \/ ~Declarable(t, Unsigned(word[1])) THEN <<>>
             ELSE TakePadded(b, p + 4, Unsigned(word[1]))
        [] t.kind = "optional" ->
             IF word = <<>> THEN <<>>
             ELSE IF Unsigned(word[1]) = 0 THEN <<<<>>, p + 4>>
             ELSE UnpackAll(<<t.of>>, b, p + 4, depth)
        [] t.kind = "list" ->
             IF word = <<>> \/ ~Credible(Unsigned(word[1]), Len(b) - p - 4) THEN <<>>
             ELSE LET items == UnpackAll(Times(Unsigned(word[1])), b, p + 4, depth)
                  IN  IF items = <<>> \/ ~WithinLimit(t, Len(items[1])) THEN <<>>
                      ELSE items
        [] t.kind = "array" -> UnpackAll(Times(t.size), b, p, depth)
        [] t.kind = "void" -> <<<<>>, p>>
        [] t.kind = "ref" -> Unpack(Definition(t.name), b, p, depth)
        [] t.kind \in {"struct", "union", "typedef"} /\ depth <= 0 -> <<>>
        [] t.kind = "struct" /\ depth > 0 ->
             UnpackAll([i \in DOMAIN t.fields |-> t.fields[i][2]], b, p, below)
        [] t.kind = "union" /\ depth > 0 ->
             IF word = <<>> \/ ~HasArm(t, Signed(word[1])) THEN <<>>
             ELSE LET v == Signed(word[1])
                      arm == Unpack(ArmOf(t, v), b, p + 4, below)
                  IN  IF arm = <<>> THEN <<>> ELSE <<<<v, arm[1]>>, arm[2]>>
        [] t.kind = "typedef" /\ depth > 0 -> Unpack(t.of, b, p, below)
        [] OTHER -> Unpack(t.of, b, p, depth)

\* Mutant: what follows the value is not looked at.
EndedSomewhere(b, p) == p <= Len(b)

\* Nothing of the packet remains.
Ended(b, p) == Len(b) - p = 0

\* from_xdr_bytes: one value, and nothing after it.
FromBytes(t, b) ==
  LET read == Unpack(t, b, 0, MaxDepth)
  IN  IF read = <<>> \/ ~Ended(b, read[2]) THEN <<>> ELSE <<read[1]>>

====
