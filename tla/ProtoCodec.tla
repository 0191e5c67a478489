----------------------------- MODULE ProtoCodec -----------------------------
(***************************************************************************)
(* The bodies of schema routes: the bridge's protobuf codec (proto.go),    *)
(* its JSON translation (json_proto.go), its schemas (schema.go), and the  *)
(* component's schemaless reader (dynamic_message.cpp).                    *)
(*                                                                         *)
(* Widths are constants, so that TLC can enumerate whole types: a byte is  *)
(* a number below 2 * Base, whose upper half is the continuation bit (Base *)
(* is 128 in the code), and U32 and U64 are the sizes of the integer       *)
(* types.  A JSON number is counted in halves, so that half of them have a *)
(* fractional part.  A JSON value is a record with one field, named for    *)
(* its kind; a Go value is the same, with bytes as one more kind.          *)
(***************************************************************************)
EXTENDS Integers, Sequences, SequencesExt

CONSTANTS
  Base, MaxVarintLen,  \* 128 and 10
  U32, U64,            \* 2^32 and 2^64
  FixedLen,            \* 4, the bytes of a fixed32
  Exact,               \* 2^53, beyond which a float64 skips integers
  ReservedTags,        \* 19000..19999
  OutOfRange           \* what converting a float64 too large for 64 bits gives

MaxTag == (U32 \div 8) - 1     \* 536870911
Bytes == 0..(2 * Base - 1)

\* b^n; the provers know nothing of the operator ^.
Power(b, n) ==
  LET power[k \in 0..n] == IF k = 0 THEN 1 ELSE b * power[k - 1] IN power[n]
FixedPatterns == Power(2 * Base, FixedLen)

ASSUME CodecAssumption ==
  /\ Base \in Nat /\ Base > 8 /\ MaxVarintLen \in Nat \ {0}
  /\ U32 \in Nat \ {0} /\ U64 \in Nat \ {0} /\ U32 % 8 = 0 /\ U64 % U32 = 0
  /\ Power(Base, MaxVarintLen - 1) < U64 /\ U64 <= Power(Base, MaxVarintLen)
  /\ FixedLen \in Nat \ {0} /\ Exact \in Nat
  /\ OutOfRange \subseteq 0..(U64 - 1)

\* Every float32 is a float64; both are counted in halves here.
ASSUME FloatAssumption == FixedPatterns <= 4 * Exact

Signed(v, U) == IF v < U \div 2 THEN v ELSE v - U    \* the cast intN(v)

-----------------------------------------------------------------------------
(***************************************************************************)
(* Schemas.  NewSchema accepts a list of fields whose tags are legal and   *)
(* whose tags and names are unique.                                        *)
(***************************************************************************)
validTypes == {"bool", "int32", "int64", "uint32", "uint64", "sint32",
               "sint64", "float", "string", "bytes"}

\* A mutant: two fields may have the same tag.
NewSchemaAllowsDuplicateTags(fields) ==
  /\ fields # <<>>
  /\ \A j \in DOMAIN fields :
       /\ fields[j].tag \in (1..MaxTag) \ ReservedTags
       /\ fields[j].type \in validTypes
       /\ \A k \in 1..(j - 1) : fields[k].name # fields[j].name

NewSchema(fields) ==
  /\ fields # <<>>
  /\ \A j \in DOMAIN fields :
       /\ fields[j].tag \in (1..MaxTag) \ ReservedTags
       /\ fields[j].type \in validTypes
       /\ \A k \in 1..(j - 1) : /\ fields[k].tag # fields[j].tag
                                /\ fields[k].name # fields[j].name

FieldNamed(s, name) == CHOOSE f \in Range(s) : f.name = name     \* byName
FieldTagged(s, tag) == CHOOSE f \in Range(s) : f.tag = tag       \* byTag
HasTag(s, tag) == \E f \in Range(s) : f.tag = tag
HasName(s, name) == \E f \in Range(s) : f.name = name

-----------------------------------------------------------------------------
wireVarint == 0
wireLen == 2
wireFixed32 == 5

wireTypeFor(typ) == CASE typ = "float" -> wireFixed32
                      [] typ \in {"string", "bytes"} -> wireLen
                      [] OTHER -> wireVarint

appendVarint[v \in 0..(U64 - 1)] ==
  IF v < Base THEN <<v>>
  ELSE <<Base + (v % Base)>> \o appendVarint[v \div Base]

appendTag(field, wt) == appendVarint[8 * field + wt]

\* (v << 1) ^ (v >> w-1): the second operand is 0 or all ones.
zigzag(v, U) == IF v >= 0 THEN (2 * v) % U ELSE (U - 1) - ((2 * v) % U)
\* (v >> 1) ^ -(v & 1)
unzigzag(v, U) ==
  Signed(IF v % 2 = 0 THEN v \div 2 ELSE (U - 1) - (v \div 2), U)

(***************************************************************************)
(* readVarint: the number of bytes up to the first one without the         *)
(* continuation bit, at most MaxVarintLen, and their value, summed up here *)
(* from the last byte to the first.  Bits beyond the 64th are shifted out. *)
(***************************************************************************)
readVarint(data) ==
  LET last == SelectInSeq(data, LAMBDA b : b < Base)     \* 0 if there is none
      val[k \in 0..last] ==
        IF k = 0 THEN 0
        ELSE ((data[last + 1 - k] % Base) + Base * val[k - 1]) % U64
  IN  IF last \in 1..MaxVarintLen
      THEN [ok |-> TRUE, val |-> val[last], n |-> last]
      ELSE [ok |-> FALSE, val |-> 0, n |-> 0]

-----------------------------------------------------------------------------
(***************************************************************************)
(* Encoding.  The numeric coercions: a fraction, and a negative number for *)
(* an unsigned type, are errors; a number beyond 64 bits becomes what the  *)
(* build's conversion gives, u.  The 32-bit types are not range-checked.   *)
(***************************************************************************)
toInt64(h, u) ==
  IF h \div 2 \in -(U64 \div 2)..((U64 \div 2) - 1)
  THEN h \div 2 ELSE Signed(u, U64)
toUint64(h, u) == IF h \div 2 < U64 THEN h \div 2 ELSE u

\* A float32 has FixedPatterns values; one of them is no JSON number (Inf).
Float32bits(h) ==
  IF 2 * h \in (1 - FixedPatterns)..(FixedPatterns - 1) THEN h % FixedPatterns
  ELSE FixedPatterns \div 2
PutUint32(bits) ==
  LET shifted[k \in 0..FixedLen] ==
        IF k = 0 THEN bits ELSE shifted[k - 1] \div (2 * Base)
  IN  [k \in 1..FixedLen |-> shifted[k - 1] % (2 * Base)]
Uint32(bytes) ==
  LET sum[k \in 0..FixedLen] ==
        IF k = 0 THEN 0 ELSE bytes[FixedLen + 1 - k] + 2 * Base * sum[k - 1]
  IN  sum[FixedLen]

Encodable(typ, v) ==
  CASE typ \in {"bool", "string", "bytes"} -> typ \in DOMAIN v
    [] typ = "float" -> "number" \in DOMAIN v
    [] typ \in {"uint32", "uint64"} ->
         "number" \in DOMAIN v /\ v.number % 2 = 0 /\ v.number >= 0
    [] OTHER -> "number" \in DOMAIN v /\ v.number % 2 = 0

appendValue(typ, v, u) ==
  CASE typ = "bool" -> appendVarint[IF v.bool THEN 1 ELSE 0]
    [] typ \in {"int32", "int64"} -> appendVarint[toInt64(v.number, u) % U64]
    [] typ \in {"uint32", "uint64"} -> appendVarint[toUint64(v.number, u)]
    [] typ = "sint32" ->
         appendVarint[zigzag(Signed(toInt64(v.number, u) % U32, U32), U32)]
    [] typ = "sint64" -> appendVarint[zigzag(toInt64(v.number, u), U64)]
    [] typ = "float" -> PutUint32(Float32bits(v.number))
    [] OTHER -> appendVarint[Len(v[typ]) % U64] \o v[typ]

(***************************************************************************)
(* EncodeProto: the fields present, in schema order, repeated ones one tag *)
(* per element.  Elements(f, v) is what a field contributes.               *)
(***************************************************************************)
Elements(f, v) == IF f.repeated THEN v.array ELSE <<v>>

EncodesProto(s, values) ==
  \A f \in Range(s) : f.name \in DOMAIN values =>
    /\ f.repeated => "array" \in DOMAIN values[f.name]
    /\ \A v \in Range(Elements(f, values[f.name])) : Encodable(f.type, v)

EncodeField(f, v, u) ==
  appendTag(f.tag, wireTypeFor(f.type)) \o appendValue(f.type, v, u)

EncodeProto(s, values, u) ==
  LET Field(f) ==
        IF f.name \notin DOMAIN values THEN <<>>
        ELSE LET vs == Elements(f, values[f.name])
             IN  FlattenSeq([k \in DOMAIN vs |-> EncodeField(f, vs[k], u)])
  IN  FlattenSeq([j \in DOMAIN s |-> Field(s[j])])

-----------------------------------------------------------------------------
(***************************************************************************)
(* Decoding.  Each reader answers whether it succeeds and how many bytes   *)
(* it consumes.  A length is compared unsigned with what is left.          *)
(***************************************************************************)
Failed == [ok |-> FALSE, n |-> 0]

\* A mutant: int(l) is compared, which is negative for a huge length.
SignedLength(data) ==
  LET r == readVarint(data)
  IN  IF r.ok /\ Signed(r.val, U64) <= Len(data) - r.n
      THEN [ok |-> TRUE, n |-> r.n + Signed(r.val, U64), from |-> r.n + 1]
      ELSE Failed

readLength(data) ==
  LET r == readVarint(data)
  IN  IF r.ok /\ r.val <= Len(data) - r.n
      THEN [ok |-> TRUE, n |-> r.n + r.val, from |-> r.n + 1]
      ELSE Failed

skipField(data, wt) ==
  CASE wt = wireVarint  -> readVarint(data)
    [] wt = wireFixed32 -> IF Len(data) < FixedLen THEN Failed
                           ELSE [ok |-> TRUE, n |-> FixedLen]
    [] wt = wireLen     -> readLength(data)
    [] OTHER            -> Failed

Number(n) == [number |-> 2 * n]
Float(bits) == IF bits = FixedPatterns \div 2 THEN [inf |-> TRUE]
               ELSE [number |-> Signed(bits, FixedPatterns)]

\* What a varint means in each type: the 32-bit types truncate.
FromVarint(typ, v) ==
  CASE typ = "bool"   -> [bool |-> v # 0]
    [] typ = "int32"  -> Number(Signed(v % U32, U32))
    [] typ = "int64"  -> Number(Signed(v, U64))
    [] typ = "uint32" -> Number(v % U32)
    [] typ = "uint64" -> Number(v)
    [] typ = "sint32" -> Number(unzigzag(v % U32, U32))
    [] typ = "sint64" -> Number(unzigzag(v, U64))

FromBytes(typ, bytes) ==
  IF typ = "string" THEN [string |-> bytes] ELSE [bytes |-> bytes]

decodeValue(data, typ, wt) ==
  LET r == skipField(data, wt) IN
  IF wt # wireTypeFor(typ) \/ ~r.ok THEN Failed
  ELSE [ok |-> TRUE, n |-> r.n, val |->
          CASE typ = "float" -> Float(Uint32(SubSeq(data, 1, FixedLen)))
            [] typ \in {"string", "bytes"} ->
                 FromBytes(typ, SubSeq(data, r.from, r.n))
            [] OTHER -> FromVarint(typ, r.val)]

-----------------------------------------------------------------------------
(***************************************************************************)
(* JSON.  Base64 text spells every byte in two characters, of which only   *)
(* two can come first.  json.Unmarshal reads numbers as float64, which    *)
(* beyond Exact keeps only every fourth integer; json.Marshal replaces     *)
(* what is not UTF-8 (bytes above Base) by U+FFFD (Base) and refuses Inf.  *)
(***************************************************************************)
EncodeToString(b) ==
  [k \in 1..(2 * Len(b)) |-> IF k % 2 = 1 THEN b[(k + 1) \div 2] \div Base
                                          ELSE b[k \div 2] % Base]
DecodeString(text) ==
  [k \in 1..(Len(text) \div 2) |-> text[2 * k - 1] * Base + text[2 * k]]
IsBase64(text) ==
  /\ Len(text) % 2 = 0
  /\ \A k \in DOMAIN text : text[k] < IF k % 2 = 1 THEN 2 ELSE Base

Float64(h) == IF h \in -(2 * Exact)..(2 * Exact) THEN h ELSE 8 * ((h + 4) \div 8)
ToValidUTF8(s) == [k \in DOMAIN s |-> IF s[k] > Base THEN Base ELSE s[k]]

\* jsonValueToGo, element by element.
JsonAccepted(f, v) ==
  /\ f.repeated => "array" \in DOMAIN v
  /\ f.type = "bytes" => \A x \in Range(Elements(f, v)) :
                           "string" \in DOMAIN x /\ IsBase64(x.string)

jsonScalarToGo(typ, v) ==
  IF typ = "bytes" THEN [bytes |-> DecodeString(v.string)]
  ELSE IF "number" \in DOMAIN v THEN [number |-> Float64(v.number)] ELSE v

jsonValueToGo(f, v) ==
  IF f.repeated
  THEN [array |-> [k \in DOMAIN v.array |-> jsonScalarToGo(f.type, v.array[k])]]
  ELSE jsonScalarToGo(f.type, v)

Prepared(s, json) ==
  [name \in DOMAIN json |-> jsonValueToGo(FieldNamed(s, name), json[name])]

\* JSONToProto succeeds: known keys only, and every value of its type.
TranslatesJSON(s, json) ==
  /\ \A name \in DOMAIN json : HasName(s, name)
  /\ \A name \in DOMAIN json : JsonAccepted(FieldNamed(s, name), json[name])
  /\ EncodesProto(s, Prepared(s, json))

JSONToProto(s, json, u) == EncodeProto(s, Prepared(s, json), u)

\* A mutant: bytes are handed to json.Marshal as a string.
BytesAsString(typ, v) ==
  CASE "bytes" \in DOMAIN v  -> [string |-> ToValidUTF8(v.bytes)]
    [] "string" \in DOMAIN v -> [string |-> ToValidUTF8(v.string)]
    [] OTHER -> v

goScalarToJSON(typ, v) ==
  CASE "bytes" \in DOMAIN v  -> [string |-> EncodeToString(v.bytes)]
    [] "string" \in DOMAIN v -> [string |-> ToValidUTF8(v.string)]
    [] OTHER -> v

goValueToJSON(f, v) ==
  IF f.repeated
  THEN [array |-> [k \in DOMAIN v.array |-> goScalarToJSON(f.type, v.array[k])]]
  ELSE goScalarToJSON(f.type, v)

Marshals(s, values) ==
  \A name \in DOMAIN values :
    \A v \in Range(Elements(FieldNamed(s, name), values[name])) :
      "inf" \notin DOMAIN v

ProtoToJSON(s, values) ==
  [name \in DOMAIN values |-> goValueToJSON(FieldNamed(s, name), values[name])]

-----------------------------------------------------------------------------
(***************************************************************************)
(* The component's DynamicReader: next() reads one field of any tag, and   *)
(* the as_ accessors interpret it.                                         *)
(***************************************************************************)
next(data) ==
  LET t == readVarint(data)                    \* ProtoVarInt::parse, external
      rest == SubSeq(data, t.n + 1, Len(data))
      wire == t.val % 8
      v == readVarint(rest)
      Field(n, raw) == [ok |-> TRUE, n |-> t.n + n, wire_type |-> wire,
                        tag |-> (t.val \div 8) % U32, raw |-> raw]
  IN CASE ~t.ok -> Failed
       [] t.ok /\ wire = 0 -> IF v.ok THEN Field(v.n, v.val) ELSE Failed
       [] t.ok /\ wire = 2 ->
            IF v.ok /\ v.val <= Len(rest) - v.n
            THEN Field(v.n + v.val, SubSeq(rest, v.n + 1, v.n + v.val))
            ELSE Failed
       [] t.ok /\ wire = 5 ->
            IF Len(rest) >= FixedLen
            THEN Field(FixedLen, SubSeq(rest, 1, FixedLen)) ELSE Failed
       [] OTHER -> Failed

\* as_bool, as_int32, ...: refused if the wire type is another one.
HasType(f, typ) == f.wire_type = wireTypeFor(typ)
as(f, typ) == CASE typ = "float" -> Float(Uint32(f.raw))
                [] typ \in {"string", "bytes"} -> FromBytes(typ, f.raw)
                [] OTHER -> FromVarint(typ, f.raw)
=============================================================================
