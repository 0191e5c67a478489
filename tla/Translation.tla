---------------------------- MODULE Translation ----------------------------
(***************************************************************************)
(* Bodies on their way between MQTT and multicast.  A JSON object is       *)
(* translated to protobuf by a bridge with one schema and decoded, field   *)
(* by field as DecodeProto's loop does, by one whose schema may have other *)
(* fields; what that bridge emits may come back to it as JSON.  Bodies     *)
(* also come from nodes, which build them with DynamicMessage, and from    *)
(* anywhere else, as any bytes.                                            *)
(***************************************************************************)
EXTENDS ProtoCodec

CONSTANTS
  FieldLists,     \* the field lists of configured schemas, valid or not
  Objects,        \* JSON objects published to MQTT
  Additions,      \* fields a node may add: tag, type and value
  ForeignBodies,  \* bodies of unknown origin
  MaxAdditions, MaxHops    \* bounds

Schemas == {fields \in FieldLists : NewSchema(fields)}
NoObject == [k \in {} |-> TRUE]

\* A JSON value is a scalar or a list of them; a Go value likewise.  "null"
\* stands for every JSON value that no field accepts.
Scalar ==
  [number : Int] \cup [bool : BOOLEAN] \cup [string : Seq(Bytes)]
  \cup [bytes : Seq(Bytes)] \cup [null : {TRUE}] \cup [inf : {TRUE}]
Value == Scalar \cup [array : Seq(Scalar)]
TypedObject(object) == \A name \in DOMAIN object : object[name] \in Value

\* The range of each integer type.
Ints(typ) ==
  CASE typ \in {"int32", "sint32"} -> -(U32 \div 2)..((U32 \div 2) - 1)
    [] typ \in {"int64", "sint64"} -> -(U64 \div 2)..((U64 \div 2) - 1)
    [] typ = "uint32" -> 0..(U32 - 1)
    [] typ = "uint64" -> 0..(U64 - 1)

\* What a variable of a field's type can hold in C++ or Go: an integer of its
\* range, a number a float holds, text and bytes whose length 64 bits can tell.
Carries(typ, v) ==
  CASE typ = "bool" -> "bool" \in DOMAIN v
    [] typ \in {"string", "bytes"} -> typ \in DOMAIN v /\ Len(v[typ]) < U64
    [] typ = "float" -> "number" \in DOMAIN v /\ Float(Float32bits(v.number)) = v
    [] OTHER -> /\ "number" \in DOMAIN v /\ v.number % 2 = 0
                /\ v.number \div 2 \in Ints(typ)

ASSUME TranslationAssumption ==
  /\ MaxAdditions \in Nat /\ MaxHops \in Nat
  /\ FieldLists \subseteq Seq([tag : Nat, type : STRING, name : STRING,
                              repeated : BOOLEAN])
  /\ ForeignBodies \subseteq Seq(Bytes)
  /\ \A object \in Objects : TypedObject(object)
  /\ \A a \in Additions : /\ a.tag \in 1..MaxTag /\ a.type \in validTypes
                           /\ a.val \in Scalar /\ Carries(a.type, a.val)

VARIABLES
  at,      \* where the message is: still with its sender ("mqtt", "build",
           \* "foreign"), "json", "body", "refused" or "failed"
  writer,  \* the schema of the bridge that translates the first object
  schema,  \* the schema of the bridge that decodes
  json,    \* the JSON object
  body,    \* the protobuf body
  i,       \* DecodeProto: bytes consumed
  values,  \* DecodeProto: out, the fields decoded so far
  hops     \* translations back to JSON

\* History: the fields added; what the body was translated from, by which
\* schema, with the marker <<>> for a body that was not.
VARIABLES added, origin

vars == <<at, writer, schema, json, body, i, values, hops, added, origin>>

Init ==
  /\ schema \in Schemas
  /\ body = <<>> /\ i = 0 /\ values = NoObject /\ hops = 0
  /\ added = <<>> /\ origin = <<>> /\ json = NoObject
  /\ \/ at = "mqtt" /\ writer \in Schemas
     \/ at = "build" /\ writer = schema
     \/ at = "foreign" /\ writer = schema

\* An object arrives from MQTT, or a datagram from an unknown sender.
Arrive ==
  /\ \/ /\ at = "mqtt" /\ at' = "json"
        /\ json' \in Objects /\ UNCHANGED body
     \/ /\ at = "foreign" /\ at' = "body"
        /\ body' \in ForeignBodies /\ UNCHANGED json
  /\ UNCHANGED <<writer, schema, i, values, hops, added, origin>>

\* JSONToProto, in the bridge that holds the object.
Translate(u) ==
  LET s == IF hops = 0 THEN writer ELSE schema IN
  /\ at = "json" /\ hops < MaxHops
  /\ \/ /\ TranslatesJSON(s, json)
        /\ body' = JSONToProto(s, json, u)
        /\ at' = "body" /\ i' = 0 /\ values' = NoObject
        /\ origin' = <<json, s>>
     \/ /\ ~TranslatesJSON(s, json)
        /\ at' = "refused"
        /\ UNCHANGED <<body, i, values, origin>>
  /\ UNCHANGED <<writer, schema, json, hops, added>>

\* DynamicMessage::add_bool, add_int32, ...; then the body is published.
Add(a) ==
  /\ at = "build" /\ Len(added) < MaxAdditions
  /\ added' = Append(added, a)
  /\ body' = body \o EncodeField(a, a.val, 0)
  /\ UNCHANGED <<at, writer, schema, json, i, values, hops, origin>>

Publish ==
  /\ at = "build" /\ at' = "body"
  /\ UNCHANGED <<writer, schema, json, body, i, values, hops, added, origin>>

-----------------------------------------------------------------------------
(***************************************************************************)
(* One turn of DecodeProto's loop: the tag, then a known field, which is   *)
(* appended if repeated and overwritten if not, or an unknown one, which   *)
(* is skipped.  Any error ends the decoding.                               *)
(***************************************************************************)
Rest(n) == SubSeq(body, n + 1, Len(body))
Key == readVarint(Rest(i))
KeyField == (Key.val \div 8) % U32
WireType == Key.val % 8
Known == HasTag(schema, KeyField)
Content ==
  IF Known
  THEN decodeValue(Rest(i + Key.n), FieldTagged(schema, KeyField).type, WireType)
  ELSE skipField(Rest(i + Key.n), WireType)

\* A mutant: the last element of a repeated field wins.
SetAlways(f, v) ==
  [name \in DOMAIN values \cup {f.name} |->
     IF name # f.name THEN values[name]
     ELSE IF f.repeated THEN [array |-> <<v>>] ELSE v]

Set(f, v) ==
  [name \in DOMAIN values \cup {f.name} |->
     IF name # f.name THEN values[name]
     ELSE IF ~f.repeated THEN v
     ELSE IF name \in DOMAIN values THEN [array |-> Append(values[name].array, v)]
     ELSE [array |-> <<v>>]]

DecodeField ==
  /\ at = "body" /\ i < Len(body)
  /\ \/ /\ ~Key.ok \/ ~Content.ok
        /\ at' = "failed" /\ UNCHANGED <<i, values>>
     \/ /\ Key.ok /\ Known /\ Content.ok
        /\ i' = i + Key.n + Content.n
        /\ values' = Set(FieldTagged(schema, KeyField), Content.val)
        /\ UNCHANGED at
     \/ /\ Key.ok /\ ~Known /\ Content.ok
        /\ i' = i + Key.n + Content.n
        /\ UNCHANGED <<at, values>>
  /\ UNCHANGED <<writer, schema, json, body, hops, added, origin>>

\* The rest of ProtoToJSON; the object may be published back.
Emit ==
  /\ at = "body" /\ i >= Len(body)
  /\ \/ /\ Marshals(schema, values)
        /\ json' = ProtoToJSON(schema, values)
        /\ at' = "json" /\ hops' = hops + 1
     \/ /\ ~Marshals(schema, values)
        /\ at' = "failed" /\ UNCHANGED <<json, hops>>
  /\ UNCHANGED <<writer, schema, body, i, values, added, origin>>

Next ==
  \/ Arrive \/ Publish \/ DecodeField \/ Emit
  \/ \E u \in OutOfRange : Translate(u)
  \/ \E a \in Additions : Add(a)

Spec == Init /\ [][Next]_vars

-----------------------------------------------------------------------------
(***************************************************************************)
(* The types: in particular DecodeProto's index stays within the body, and *)
(* whatever bytes it meets, the values it collects are of the kinds        *)
(* ProtoToJSON expects, lists for repeated fields.                         *)
(***************************************************************************)
TypeOK ==
  /\ at \in {"mqtt", "build", "foreign", "json", "body", "refused", "failed"}
  /\ writer \in Schemas /\ schema \in Schemas
  /\ body \in Seq(Bytes) /\ i \in 0..Len(body)
  /\ TypedObject(json) /\ TypedObject(values) /\ hops \in Nat
  /\ \A name \in DOMAIN values :
       /\ HasName(schema, name)
       /\ FieldNamed(schema, name).repeated => "array" \in DOMAIN values[name]
  /\ added \in Seq(Additions)

(***************************************************************************)
(* What a field of a given type can carry: a number of its range that a    *)
(* float64 holds exactly, base64 text, valid UTF-8, of a length that 64    *)
(* bits can tell.                                                          *)
(***************************************************************************)
Fits(typ, v) ==
  CASE typ = "bool" -> "bool" \in DOMAIN v
    [] typ = "string" -> /\ "string" \in DOMAIN v /\ Len(v.string) < U64
                         /\ \A c \in Range(v.string) : c <= Base
    [] typ = "bytes" -> /\ "string" \in DOMAIN v /\ Len(v.string) < 2 * U64
                        /\ IsBase64(v.string)
    [] typ = "float" -> "number" \in DOMAIN v /\ Float(Float32bits(v.number)) = v
    [] OTHER -> /\ "number" \in DOMAIN v /\ v.number % 2 = 0
                /\ v.number \div 2 \in Ints(typ) \cap -Exact..Exact

FitsSchema(object, s) ==
  \A name \in DOMAIN object :
    /\ HasName(s, name)
    /\ LET f == FieldNamed(s, name) IN
       /\ f.repeated => "array" \in DOMAIN object[name]
       /\ \A v \in Range(Elements(f, object[name])) : Fits(f.type, v)

\* Two schemas give the same meaning to the tags they share.
Compatible(s, t) ==
  \A f \in Range(s), g \in Range(t) :
    f.tag = g.tag => f.type = g.type /\ f.repeated = g.repeated

(***************************************************************************)
(* What a schema s makes of an object of schema w: the fields they share,  *)
(* under s's names; an empty list is not written.                          *)
(***************************************************************************)
Shared(object, w, s) ==
  LET kept == {f \in Range(s) :
                 /\ HasTag(w, f.tag)
                 /\ FieldTagged(w, f.tag).name \in DOMAIN object
                 /\ f.repeated =>
                      object[FieldTagged(w, f.tag).name].array # <<>>}
  IN  [name \in {f.name : f \in kept} |->
         object[FieldTagged(w, FieldNamed(s, name).tag).name]]

(***************************************************************************)
(* proto.go: "Unknown fields ... are skipped, matching proto3              *)
(* forward-compat semantics".  An object that fits its schema is never     *)
(* refused, and a bridge with a compatible schema gets back exactly its    *)
(* values, for every type, at the limits of its range, in lists, among     *)
(* fields it does not know and fields that are missing.                    *)
(***************************************************************************)
RoundTrip ==
  /\ at = "refused" =>
       ~FitsSchema(json, IF hops = 0 THEN writer ELSE schema)
  /\ (/\ origin # <<>>
      /\ FitsSchema(origin[1], origin[2]) /\ Compatible(origin[2], schema)) =>
       /\ at # "failed"
       /\ (at = "json" /\ hops > 0) =>
            json = Shared(origin[1], origin[2], schema)

(***************************************************************************)
(* Whatever bytes a JSON object was decoded from, translating it back and  *)
(* forth again changes nothing: the bridge accepts its own output.  Only   *)
(* integers beyond 2^53, which JSON numbers lose, are excepted.            *)
(***************************************************************************)
Small(object) ==
  \A name \in DOMAIN object : \A v \in Range(Elements(FieldNamed(schema, name),
                                                      object[name])) :
    "number" \in DOMAIN v => v.number \in -(2 * Exact)..(2 * Exact)

JsonIsStable ==
  /\ (at = "refused" /\ hops > 0) => ~Small(json)
  /\ (at = "json" /\ hops > 1 /\ Small(origin[1])) => json = origin[1]

(***************************************************************************)
(* The bridge and a node's DynamicReader cut every body into the same      *)
(* fields: same tags, same boundaries, same values, errors at the same     *)
(* place; the bridge alone minds a known field of another wire type.       *)
(***************************************************************************)
ReadersAgree ==
  (at = "body" /\ i < Len(body)) =>
    LET f == next(Rest(i))
        typ == FieldTagged(schema, KeyField).type
    IN  IF Key.ok /\ Content.ok
        THEN /\ f.ok /\ f.n = Key.n + Content.n /\ f.tag = KeyField
             /\ Known => HasType(f, typ) /\ as(f, typ) = Content.val
        ELSE f.ok => Known /\ ~HasType(f, typ)

(***************************************************************************)
(* DecodeProto always gets on and never past the end, whatever lengths a   *)
(* body announces: no loop over the same bytes, no slice out of range.     *)
(***************************************************************************)
DecodeAdvances ==
  [][DecodeField => at' = "failed" \/ i' \in (i + 1)..Len(body)]_vars

(***************************************************************************)
(* A body built field by field is understood field by field: of a singular *)
(* field the last addition counts, of a repeated one all of them, in their *)
(* order, whatever was added in between; and it is refused only if a field *)
(* was added as something else than the schema says.                       *)
(***************************************************************************)
AddedTo(f) ==
  FlattenSeq([k \in DOMAIN added |->
                IF added[k].tag = f.tag THEN <<added[k]>> ELSE <<>>])

DynamicIsUnderstood ==
  (added # <<>> /\ origin = <<>>) =>
    /\ at = "failed" => \E a \in Range(added), f \in Range(schema) :
                          a.tag = f.tag /\ a.type # f.type
    /\ (at = "body" /\ i = Len(body)) =>
         \A f \in Range(schema) :
           LET mine == AddedTo(f) IN
           /\ mine = <<>> => f.name \notin DOMAIN values
           /\ (mine # <<>> /\ \A a \in Range(mine) : a.type = f.type) =>
                values[f.name] =
                  IF f.repeated THEN [array |-> [k \in DOMAIN mine |-> mine[k].val]]
                  ELSE Last(mine).val
=============================================================================
