---- MODULE XdrDescriptions ----
\* What the generated classes of stellar_sdk/xdr are built from. A class is described
\* by a record whose "kind" says how it is packed, unpacked and turned into JSON; the
\* modules XdrTypes to XdrOverlay describe each class, XdrCodec gives the
\* descriptions their meaning.

EXTENDS Integers, Sequences, TLC

\* The largest length: 2^32 - 1 in the code, 127 * 2^24 here, since TLC counts to
\* 2^31 - 1. No list or text of the instances comes near either.
Unlimited == 2130706432

\* Numbers that are only carried are kept as their bytes, most significant first, and
\* differ in their width and in how JSON writes them: 32 bits as a number, 64 bits as
\* a string of decimal digits.
Integer == [kind |-> "number", size |-> 4]
UnsignedInteger == Integer
Hyper == [kind |-> "decimal", size |-> 8]
UnsignedHyper == Hyper

Boolean == [kind |-> "boolean"]

Opaque(size) == [kind |-> "opaque", size |-> size]
VarOpaque(max) == [kind |-> "varopaque", max |-> max]
String(max) == [kind |-> "string", max |-> max]

Optional(type) == [kind |-> "optional", of |-> type]
List(type, max) == [kind |-> "list", of |-> type, max |-> max]
Array(type, size) == [kind |-> "array", of |-> type, size |-> size]

Typedef(type) == [kind |-> "typedef", of |-> type]

\* fields: a sequence of pairs, a name and a type, in the order of the wire.
Struct(fields) == [kind |-> "struct", fields |-> fields]

\* A class that contains itself, or that many others contain, is named in its place.
Ref(name) == [kind |-> "ref", name |-> name]

\* names: a function from the values of the enumeration to their names in JSON.
Enum(names) == [kind |-> "enum", names |-> names]
CodesFrom(first, step, names) ==
  LET ValueAt(i) == first + step * (i - 1)
  IN  Enum([v \in {ValueAt(i) : i \in DOMAIN names} |->
              names[CHOOSE i \in DOMAIN names : ValueAt(i) = v]])
Codes(names) == CodesFrom(0, 1, names)
ErrorCodes(names) == CodesFrom(0, -1, names)
EnumOf(pairs) ==
  Enum([v \in {pairs[i][1] : i \in DOMAIN pairs} |->
          pairs[CHOOSE i \in DOMAIN pairs : pairs[i][1] = v][2]])
\* The int a union of versions switches on; JSON writes a version as "v" and the int.
Versions(last) == Enum([v \in 0..last |-> <<"v0", "v1", "v2", "v3", "v4">>[v + 1]])

Labels(enum) == {enum.names[v] : v \in DOMAIN enum.names}

\* arms: a function from labels (JSON names of the values of enum) to types.
Void == [kind |-> "void"]
Voids(labels) == [l \in labels |-> Void]
Union(enum, arms) ==
  [kind |-> "union", switch |-> enum, arms |-> arms, strkey |-> FALSE]
UnionElseVoid(enum, arms) == Union(enum, arms @@ Voids(Labels(enum)))
VoidUnion(enum) == Union(enum, Voids(Labels(enum)))
\* A union that JSON writes as its arm alone, a strkey whose letter tells the arm.
StrkeyUnion(enum, arms) == [Union(enum, arms) EXCEPT !.strkey = TRUE]

\* A type that JSON writes in a form of its own: the strkey of its packed bytes without
\* the first skip ones (of the account before the id, for a muxed account); a
\* decimal integer of more than 64 bits; an asset code without the zeros it is padded
\* with, down to at least some letters.
Strkey(letter, skip, type) ==
  [kind |-> "strkey", letter |-> letter, skip |-> skip, swapped |-> FALSE, of |-> type]
MuxedStrkey(type) == [Strkey("M", 0, type) EXCEPT !.swapped = TRUE]
Decimal(type) == [kind |-> "bigdecimal", of |-> type]
Code(least, type) == [kind |-> "code", least |-> least, of |-> type]

====
