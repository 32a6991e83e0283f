---- MODULE XdrExchange ----
\* A value of a generated class on its way: packed, carried over a line that may
\* damage it, unpacked; or written as JSON and read from it. A peer may send what the
\* classes of the SDK would not build.

EXTENDS XdrJson

CONSTANTS
  Classes,  \* the names of the classes whose values are exchanged
  Samples,  \* the values of each
  MaxWords, \* the longest packet of which words are overwritten, in words
  NoPacket

VARIABLES
  class, value,  \* what is exchanged: its class, and the value
  stage,         \* "start", then "packed", "unpacked", or "json", "parsed"
  wire, damage,  \* the packet, and what happened to it
  json, result   \* what to_json_dict returned; what was read back

vars == <<class, value, stage, wire, damage, json, result>>

T == Definition(class)

\* ---- What __init__ accepts -------------------------------------------------------

RECURSIVE Buildable(_, _)
\* The constructors check the lengths of their texts and lists, and the length of an
\* array unless the array is empty.
Buildable(t, v) ==
  CASE t.kind = "opaque" -> Len(v) = t.size
    [] t.kind \in {"varopaque", "string"} -> WithinLimit(t, Len(v))
    [] t.kind = "list" -> WithinLimit(t, Len(v)) /\ \A i \in DOMAIN v : Buildable(t.of, v[i])
    [] t.kind = "array" -> Len(v) \in {0, t.size} /\ \A i \in DOMAIN v : Buildable(t.of, v[i])
    [] t.kind = "optional" -> \A i \in DOMAIN v : Buildable(t.of, v[i])
    [] t.kind = "struct" -> \A i \in DOMAIN v : Buildable(t.fields[i][2], v[i])
    [] t.kind = "union" -> Buildable(ArmOf(t, v[1]), v[2])
    [] t.kind = "ref" -> Buildable(Definition(t.name), v)
    [] t.kind \in {"number", "decimal", "boolean", "enum", "void"} -> TRUE
    [] OTHER -> Buildable(t.of, v)

\* ---- The exchange ----------------------------------------------------------------

Init ==
  /\ class \in Classes
  /\ value \in Samples[class]
  /\ stage = "start"
  /\ wire = NoPacket
  /\ damage = "none"
  /\ json = Null
  /\ result = <<>>

\* to_xdr_bytes, of a value its constructor let pass
ToXdrBytes ==
  /\ stage = "start"
  /\ Buildable(T, value)
  /\ wire' = Pack(T, value)
  /\ stage' = "packed"
  /\ UNCHANGED <<class, value, damage, json, result>>

\* A peer, written in whatever language, sends a value no constructor would let pass.
PeerSends ==
  /\ stage = "start"
  /\ ~Buildable(T, value)
  /\ wire' = Pack(T, value)
  /\ stage' = "packed"
  /\ UNCHANGED <<class, value, damage, json, result>>

Damage(kind, bytes) ==
  /\ stage = "packed"
  /\ damage = "none"
  /\ wire' = bytes
  /\ damage' = kind
  /\ UNCHANGED <<class, value, stage, json, result>>

Truncate ==
  \E n \in {1, 4} :
    /\ stage = "packed"
    /\ Len(wire) >= n
    /\ Damage("truncated", SubSeq(wire, 1, Len(wire) - n))

Extend == stage = "packed" /\ \E n \in {1, 4} : Damage("extended", wire \o [i \in 1..n |-> 0])

Overwrite ==
  /\ stage = "packed"
  /\ Len(wire) <= 4 * MaxWords
  /\ \E i \in 0..(Len(wire) \div 4 - 1), n \in {-1, 0, 1, 2} :
       /\ Word(n) # SubSeq(wire, 4 * i + 1, 4 * i + 4)
       /\ Damage("overwritten",
                 SubSeq(wire, 1, 4 * i) \o Word(n) \o SubSeq(wire, 4 * i + 5, Len(wire)))

FromXdrBytes ==
  /\ stage = "packed"
  /\ result' = FromBytes(T, wire)
  /\ stage' = "unpacked"
  /\ UNCHANGED <<class, value, wire, damage, json>>

ToJsonDict ==
  /\ stage = "start"
  /\ Buildable(T, value)
  /\ json' = ToJson(T, value)
  /\ stage' = "json"
  /\ UNCHANGED <<class, value, wire, damage, result>>

FromJsonDict ==
  /\ stage = "json"
  /\ json.json # "raises"
  /\ result' = FromJson(T, json)
  /\ stage' = "parsed"
  /\ UNCHANGED <<class, value, wire, damage, json>>

Next ==
  \/ ToXdrBytes \/ PeerSends \/ Truncate \/ Extend \/ Overwrite \/ FromXdrBytes
  \/ ToJsonDict \/ FromJsonDict

Spec == Init /\ [][Next]_vars

\* ---- What is expected of it ------------------------------------------------------

RECURSIVE Levels(_, _)
\* The levels of classes with parts that a value nests, counted on the value.
Levels(t, v) ==
  LET Below(f) == IF f = {} THEN 0 ELSE Max(f)
  IN  CASE t.kind \in {"list", "array", "optional"} ->
             Below({Levels(t.of, v[i]) : i \in DOMAIN v})
        [] t.kind = "struct" -> 1 + Below({Levels(t.fields[i][2], v[i]) : i \in DOMAIN v})
        [] t.kind = "union" -> 1 + Levels(ArmOf(t, v[1]), v[2])
        [] t.kind = "typedef" -> 1 + Levels(t.of, v)
        [] t.kind \in {"strkey", "bigdecimal", "code"} -> Levels(t.of, v)
        [] t.kind = "ref" -> Levels(Definition(t.name), v)
        [] OTHER -> 0

RECURSIVE Somewhere(_, _, _)
\* Some part of the value satisfies P.
Somewhere(P(_, _), t, v) ==
  \/ P(t, v)
  \/ CASE t.kind \in {"list", "array", "optional"} ->
            \E i \in DOMAIN v : Somewhere(P, t.of, v[i])
       [] t.kind = "struct" -> \E i \in DOMAIN v : Somewhere(P, t.fields[i][2], v[i])
       [] t.kind = "union" -> Somewhere(P, ArmOf(t, v[1]), v[2])
       [] t.kind \in {"typedef", "strkey", "bigdecimal", "code"} -> Somewhere(P, t.of, v)
       [] t.kind = "ref" -> Somewhere(P, Definition(t.name), v)
       [] OTHER -> FALSE

TooLong(t, v) == t.kind \in {"varopaque", "string", "list"} /\ Len(v) > t.max
WrongLength(t, v) == t.kind \in {"opaque", "array"} /\ Len(v) # t.size
EmptyArray(t, v) == t.kind = "array" /\ v = <<>>
AbsentArm(t, v) == t.kind = "union" /\ ArmMissing(t, v)
ForeignCode(t, v) == t.kind = "code" /\ \E i \in DOMAIN v : v[i] > 127

\* What a constructor accepts is read back from its bytes as it was; but for a value
\* that nests more levels than the limit, which is refused, although it was packed
\* without complaint, and for an array left empty, which is not read as anything.
RoundTrip ==
  stage = "unpacked" /\ damage = "none" /\ Buildable(T, value) =>
    result = IF Levels(T, value) > MaxDepth \/ Somewhere(EmptyArray, T, value)
             THEN <<>> ELSE <<value>>

\* A packet that lost its end, or has something after it, is refused.
Framed == stage = "unpacked" /\ damage \in {"truncated", "extended"} => result = <<>>

\* Nothing is read that the XDR source does not allow, whoever sent it: no text or list
\* beyond its limit, no array of another length.
WithinLimits ==
  stage = "unpacked" /\ result # <<>> =>
    ~Somewhere(TooLong, T, result[1]) /\ ~Somewhere(WrongLength, T, result[1])

\* A packet that is read, although a word of it may be overwritten, says what was read:
\* the value packs into one of the same length, which is read as the same value. It need
\* not be the same packet: a flag other than 0 becomes 1, and the padding zeros.
Canonical ==
  stage = "unpacked" /\ result # <<>> =>
    LET again == Pack(T, result[1])
    IN  /\ Len(again) = Len(wire)
        /\ FromBytes(T, again) = result

\* JSON is read back as the value it was written for. It is refused for an absent
\* optional arm and for an asset code that is not ASCII, and for nothing else.
JsonRoundTrip ==
  /\ stage = "parsed" => result = <<value>>
  /\ stage = "json" =>
       (json.json = "raises" <=> \/ Somewhere(AbsentArm, T, value)
                                 \/ Somewhere(ForeignCode, T, value))

====
