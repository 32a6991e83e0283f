---- MODULE XdrJson ----
\* How the generated classes of stellar_sdk/xdr turn a value into JSON (to_json_dict)
\* and back (from_json_dict). A JSON value is a record that says its kind; a string
\* of JSON is the codes of its characters where the classes look into it, and the
\* bytes it stands for where it is a strkey or a decimal integer.

EXTENDS XdrCodec

Json(kind, content) == [json |-> kind, of |-> content]
Null == Json("null", <<>>)

\* What to_json_dict returns when it raises.
Raises == Json("raises", <<>>)

\* ---- Strings ---------------------------------------------------------------------

HexDigit(n) == IF n < 10 THEN 48 + n ELSE 87 + n
HexValue(c) == IF c < 97 THEN c - 48 ELSE c - 87

\* bytes.hex and bytes.fromhex
Hex(bytes) ==
  FlattenSeq([i \in DOMAIN bytes |-> <<HexDigit(bytes[i] \div 16), HexDigit(bytes[i] % 16)>>])
FromHex(chars) ==
  [i \in 1..(Len(chars) \div 2) |-> 16 * HexValue(chars[2 * i - 1]) + HexValue(chars[2 * i])]

\* The letters that stand for a byte after a backslash: \0 \t \n \r \\ (SEP-51).
Escapes == (0 :> 48) @@ (9 :> 116) @@ (10 :> 110) @@ (13 :> 114) @@ (92 :> 92)

\* Mutant: a backslash is left as it is.
EscapeButBackslash(bytes) ==
  LET Escaped(b) == IF b \in DOMAIN Escapes \ {92} THEN <<92, Escapes[b]>>
                    ELSE IF b \in 32..126 THEN <<b>>
                    ELSE <<92, 120>> \o Hex(<<b>>)
  IN  FlattenSeq([i \in DOMAIN bytes |-> Escaped(bytes[i])])

\* String.to_json_dict
Escape(bytes) ==
  LET Escaped(b) == IF b \in DOMAIN Escapes THEN <<92, Escapes[b]>>
                    ELSE IF b \in 32..126 THEN <<b>>
                    ELSE <<92, 120>> \o Hex(<<b>>)
  IN  FlattenSeq([i \in DOMAIN bytes |-> Escaped(bytes[i])])

\* String.from_json_dict: a backslash that starts no escape stands for itself.
RECURSIVE Unescape(_)
Unescape(chars) ==
  LET next == chars[2]
      Rest(n) == Unescape(SubSeq(chars, n + 1, Len(chars)))
  IN  IF chars = <<>> THEN <<>>
      ELSE IF chars[1] # 92 \/ Len(chars) = 1 THEN <<chars[1]>> \o Rest(1)
      ELSE IF \E b \in DOMAIN Escapes : Escapes[b] = next
           THEN <<CHOOSE b \in DOMAIN Escapes : Escapes[b] = next>> \o Rest(2)
      ELSE IF next = 120 /\ Len(chars) > 3
           THEN FromHex(SubSeq(chars, 3, 4)) \o Rest(4)
      ELSE <<92>> \o Rest(1)

\* ---- Forms of their own ----------------------------------------------------------

\* The account comes before the id in a strkey, and after it in the packed bytes.
Swap(bytes, n) == SubSeq(bytes, n + 1, Len(bytes)) \o SubSeq(bytes, 1, n)

StrkeyOf(t, v) ==
  LET packed == Pack(t.of, v)
  IN  [json |-> "strkey", letter |-> t.letter,
       of |-> IF t.swapped THEN Swap(packed, 8)
              ELSE SubSeq(packed, t.skip + 1, Len(packed))]

FromStrkey(t, j) ==
  LET packed == IF t.swapped THEN Swap(j.of, 32) ELSE [i \in 1..t.skip |-> 0] \o j.of
      read == Unpack(t.of, packed, 0, MaxDepth)
  IN  IF j.json # "strkey" \/ j.letter # t.letter \/ read = <<>> THEN <<>> ELSE <<read[1]>>

\* An asset code: ASCII, without the zeros at the end but for the least letters.
CodeOf(t, v) ==
  LET Trimmed == {n \in t.least..Len(v) : \A i \in (n + 1)..Len(v) : v[i] = 0}
  IN  IF \E i \in DOMAIN v : v[i] > 127 THEN Raises
      ELSE Json("chars", SubSeq(v, 1, CHOOSE n \in Trimmed : \A m \in Trimmed : n <= m))

\* of is a typedef of opaque data.
FromCode(t, j) ==
  LET size == t.of.of.size
  IN  IF Len(j.of) > size THEN <<>> ELSE <<j.of \o [i \in 1..(size - Len(j.of)) |-> 0]>>

\* ---- All types -------------------------------------------------------------------

\* The object with the fields of a struct.
ObjectOf(t, parts) ==
  LET FieldAt(name) == CHOOSE i \in DOMAIN t.fields : t.fields[i][1] = name
      names == {t.fields[i][1] : i \in DOMAIN t.fields}
  IN  Json("object", [name \in names |-> parts[FieldAt(name)]])

\* The list or the object of some parts, unless one of them raises.
Whole(parts, j) ==
  IF \E i \in DOMAIN parts : parts[i].json = "raises" THEN Raises ELSE j

\* An optional arm of a union is asserted to be there; an optional field becomes null.
ArmMissing(t, v) == ArmOf(t, v[1]).kind = "optional" /\ v[2] = <<>>

RECURSIVE ToJson(_, _)
ToJson(t, v) ==
  CASE t.kind \in {"number", "decimal", "boolean"} -> Json(t.kind, v)
    [] t.kind = "enum" -> Json("text", t.names[v])
    [] t.kind \in {"opaque", "varopaque"} -> Json("chars", Hex(v))
    [] t.kind = "string" -> Json("chars", Escape(v))
    [] t.kind = "optional" -> IF v = <<>> THEN Null ELSE ToJson(t.of, v[1])
    [] t.kind \in {"list", "array"} ->
         LET items == [i \in DOMAIN v |-> ToJson(t.of, v[i])]
         IN  Whole(items, Json("list", items))
    [] t.kind = "struct" ->
         LET parts == [i \in DOMAIN v |-> ToJson(t.fields[i][2], v[i])]
         IN  Whole(parts, ObjectOf(t, parts))
    [] t.kind = "union" ->
         LET label == t.switch.names[v[1]]
             arm == ToJson(ArmOf(t, v[1]), v[2])
         IN  IF t.strkey THEN arm
             ELSE IF ArmOf(t, v[1]).kind = "void" THEN Json("text", label)
             ELSE IF ArmMissing(t, v) THEN Raises
             ELSE Whole(<<arm>>, Json("object", label :> arm))
    [] t.kind = "void" -> Null
    [] t.kind = "ref" -> ToJson(Definition(t.name), v)
    [] t.kind = "strkey" -> StrkeyOf(t, v)
    [] t.kind = "bigdecimal" -> Json("bigdecimal", Pack(t.of, v))
    [] t.kind = "code" -> CodeOf(t, v)
    [] t.kind = "typedef" -> ToJson(t.of, v)

ValueOf(enum, label) == CHOOSE v \in DOMAIN enum.names : enum.names[v] = label

\* The results of reading parts, as one result.
Together(read) ==
  IF \E i \in DOMAIN read : read[i] = <<>> THEN <<>> ELSE <<[i \in DOMAIN read |-> read[i][1]]>>

RECURSIVE FromJson(_, _)
FromJson(t, j) ==
  CASE t.kind \in {"number", "decimal", "boolean"} -> <<j.of>>
    [] t.kind = "enum" -> IF j.of \in Labels(t) THEN <<ValueOf(t, j.of)>> ELSE <<>>
    [] t.kind = "opaque" -> IF Len(j.of) \in {0, 2 * t.size} THEN <<FromHex(j.of)>> ELSE <<>>
    [] t.kind = "varopaque" ->
         IF WithinLimit(t, Len(FromHex(j.of))) THEN <<FromHex(j.of)>> ELSE <<>>
    [] t.kind = "string" ->
         IF WithinLimit(t, Len(Unescape(j.of))) THEN <<Unescape(j.of)>> ELSE <<>>
    [] t.kind = "optional" ->
         IF j.json = "null" THEN <<<<>>>> ELSE Together(<<FromJson(t.of, j)>>)
    [] t.kind \in {"list", "array"} ->
         IF t.kind = "list" /\ ~WithinLimit(t, Len(j.of)) THEN <<>>
         ELSE Together([i \in DOMAIN j.of |-> FromJson(t.of, j.of[i])])
    [] t.kind = "struct" ->
         Together([i \in DOMAIN t.fields |-> FromJson(t.fields[i][2], j.of[t.fields[i][1]])])
    [] t.kind = "union" /\ t.strkey ->
         LET Arms == {l \in DOMAIN t.arms : t.arms[l].letter = j.letter}
             label == CHOOSE l \in Arms : TRUE
         IN  IF Arms = {} THEN <<>>
             ELSE Together(<<<<ValueOf(t.switch, label)>>, FromJson(t.arms[label], j)>>)
    [] t.kind = "union" /\ ~t.strkey /\ j.json = "text" ->
         IF j.of \in DOMAIN t.arms /\ t.arms[j.of].kind = "void"
         THEN <<<<ValueOf(t.switch, j.of), <<>>>>>>
         ELSE <<>>
    [] t.kind = "union" /\ ~t.strkey /\ j.json # "text" ->
         LET label == CHOOSE l \in DOMAIN j.of : TRUE
         IN  IF t.arms[label].kind = "optional" /\ j.of[label].json = "null" THEN <<>>
             ELSE Together(<<<<ValueOf(t.switch, label)>>,
                             FromJson(t.arms[label], j.of[label])>>)
    [] t.kind = "ref" -> FromJson(Definition(t.name), j)
    [] t.kind = "strkey" -> FromStrkey(t, j)
    [] t.kind = "bigdecimal" -> <<Unpack(t.of, j.of, 0, MaxDepth)[1]>>
    [] t.kind = "code" -> FromCode(t, j)
    [] t.kind = "typedef" -> FromJson(t.of, j)

====
