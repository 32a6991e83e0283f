---- MODULE MCXdrExchange ----
\* Instances of XdrExchange: the classes that are exchanged, and for each its least
\* value and those that differ from it in one place.

EXTENDS XdrExchange

\* Bytes that are letters where a code wants letters.
Bytes(n) == [i \in 1..n |-> 65 + (i % 26)]

ConstantBytes(n, b) == [i \in 1..n |-> b]

\* The label of the arm a sample starts from: a void one if there is one.
FirstLabel(t) ==
  LET Voidable == {l \in DOMAIN t.arms : t.arms[l].kind = "void"}
      Among == IF Voidable = {} THEN DOMAIN t.arms ELSE Voidable
      ValuesOf(L) == {v \in DOMAIN t.switch.names : t.switch.names[v] \in L}
  IN  CHOOSE v \in ValuesOf(Among) : \A w \in ValuesOf(Among) : v <= w

RECURSIVE Least(_)
Least(t) ==
  CASE t.kind \in {"number", "decimal"} -> ConstantBytes(t.size, 0)
    [] t.kind = "boolean" -> FALSE
    [] t.kind = "enum" -> CHOOSE v \in DOMAIN t.names : \A w \in DOMAIN t.names : v <= w
    [] t.kind = "opaque" -> Bytes(t.size)
    [] t.kind \in {"varopaque", "string", "optional", "list", "void"} -> <<>>
    [] t.kind = "array" -> [i \in 1..t.size |-> Least(t.of)]
    [] t.kind = "struct" -> [i \in DOMAIN t.fields |-> Least(t.fields[i][2])]
    [] t.kind = "union" -> <<FirstLabel(t), Least(ArmOf(t, FirstLabel(t)))>>
    [] t.kind = "ref" -> Least(Definition(t.name))
    [] OTHER -> Least(t.of)

\* Texts that JSON escapes, one that looks like an escape, one of the greatest length
\* and one beyond it.
Texts(max) ==
  {<<>>, <<0, 92, 48>>, <<92, 120, 52, 49>>, <<195, 9, 34>>} \union
  IF max <= 64 THEN {Bytes(max), Bytes(max + 1)} ELSE {Bytes(5)}

Replaced(s, i, x) == SubSeq(s, 1, i - 1) \o <<x>> \o SubSeq(s, i + 1, Len(s))

RECURSIVE Variants(_, _)
\* The least value of t, and those that differ from it in one place, at most depth
\* levels down.
Variants(t, depth) ==
  LET Below(s) == IF depth = 0 THEN {Least(s)} ELSE Variants(s, depth - 1)
      Repeat(n) == [i \in 1..n |-> Least(t.of)]
  IN  CASE t.kind \in {"number", "decimal"} -> {ConstantBytes(t.size, b) : b \in {0, 255}}
        [] t.kind = "boolean" -> BOOLEAN
        [] t.kind = "enum" -> DOMAIN t.names
        [] t.kind = "opaque" ->
             {Bytes(t.size), ConstantBytes(t.size, 0), ConstantBytes(t.size, 255)}
        [] t.kind \in {"varopaque", "string"} -> Texts(t.max)
        [] t.kind = "optional" -> {<<>>} \union {<<x>> : x \in Below(t.of)}
        [] t.kind = "list" ->
             {<<>>} \union {<<x>> : x \in Below(t.of)} \union
             IF t.max <= 12 THEN {Repeat(t.max), Repeat(t.max + 1)} ELSE {Repeat(2)}
        [] t.kind = "array" -> {<<>>, Repeat(t.size)}
        [] t.kind = "struct" ->
             UNION {{Replaced(Least(t), i, x) : x \in Below(t.fields[i][2])} :
                    i \in DOMAIN t.fields}
        [] t.kind = "union" ->
             UNION {{<<v, x>> : x \in Below(ArmOf(t, v))} :
                    v \in {w \in DOMAIN t.switch.names : HasArm(t, w)}}
        [] t.kind = "void" -> {<<>>}
        [] t.kind = "ref" -> Variants(Definition(t.name), depth)
        [] OTHER -> Variants(t.of, depth)

\* A predicate that nests n negations.
RECURSIVE Nested(_)
Nested(n) == IF n = 0 THEN <<0, <<>>>> ELSE <<3, <<Nested(n - 1)>>>>

\* The largest classes: the others are parts of them, but for a few enumerations of flags
\* and the keys of the overlay. For each, how many levels down its samples differ.
Depths == [
  ClaimPredicate |-> 5, LedgerKey |-> 6, TransactionEnvelope |-> 7,
  SorobanAuthorizationEntry |-> 5, SCVal |-> 5, SCSpecEntry |-> 5,
  TransactionResult |-> 5, OperationResult |-> 5, LedgerEntry |-> 6,
  ConfigSettingEntry |-> 3, TransactionMeta |-> 5, LedgerCloseMeta |-> 5,
  SCPEnvelope |-> 6, StellarMessage |-> 4, TransactionSignaturePayload |-> 5,
  HashIDPreimage |-> 5, InvokeHostFunctionSuccessPreImage |-> 4, BucketEntry |-> 4,
  HotArchiveBucketEntry |-> 4, PersistedSCPState |-> 5, SurveyResponseBody |-> 5,
  TransactionHistoryEntry |-> 4, TransactionHistoryResultEntry |-> 4,
  SCMetaEntry |-> 4, SCEnvMetaEntry |-> 3, SerializedBinaryFuseFilter |-> 3]

MCClasses == DOMAIN Depths

MCSamples == [name \in MCClasses |->
  Variants(Definition(name), Depths[name]) \union
  IF name = "ClaimPredicate" THEN {Nested(n) : n \in 18..22} ELSE {}]

====
