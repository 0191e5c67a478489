--------------------------- MODULE MCTranslation ---------------------------
(***************************************************************************)
(* Translation for TLC, with 5-bit bytes: 4 payload bits, varints of up to *)
(* 3 bytes, "32-bit" integers of 5 bits and "64-bit" ones of 10.           *)
(***************************************************************************)
EXTENDS Translation

Field(tag, type, name, repeated) ==
  [tag |-> tag, type |-> type, name |-> name, repeated |-> repeated]

\* For every type, a singular and a repeated field; versions that lack a
\* field, rename one, or change a type; lists that NewSchema refuses.
MCFieldLists ==
  {<<Field(1, type, "a", FALSE), Field(3, type, "b", TRUE)>> : type \in validTypes}
  \cup {<<Field(3, "sint32", "x", TRUE)>>, <<Field(1, "bytes", "a", FALSE)>>,
        <<Field(3, "string", "b", FALSE), Field(1, "int64", "a", FALSE)>>,
        <<Field(1, "bool", "a", FALSE), Field(1, "bool", "b", FALSE)>>,
        <<Field(2, "bool", "a", FALSE)>>, <<Field(4, "bool", "a", FALSE)>>}

Scalars ==
  {[number |-> 2 * n] : n \in {-512, -257, -17, -16, -1, 0, 1, 15, 16, 31, 32,
                               255, 256, 257, 511, 1023}}
  \cup {[number |-> 5], [number |-> 2 * 1023 + 1], [bool |-> TRUE],
        [bool |-> FALSE], [null |-> TRUE]}
  \cup {[string |-> text] : text \in {<<>>, <<9>>, <<1, 9>>, <<0, 3, 1, 15>>}}

MCObjects ==
  {[name \in {"a"} |-> v] : v \in Scalars}
  \cup {[name \in {"b"} |-> [array |-> <<v, w>>]] : v \in Scalars,
          w \in {[number |-> 2], [bool |-> TRUE], [string |-> <<0, 2>>]}}
  \cup {[name \in {"a", "b"} |-> IF name = "a" THEN v ELSE [array |-> <<>>]] :
          v \in Scalars}
  \cup {[name \in {"c"} |-> [bool |-> TRUE]]}

Addition(tag, type, val) == [tag |-> tag, type |-> type, val |-> val]

MCAdditions ==
  {Addition(1, "sint32", [number |-> -32]), Addition(3, "sint32", [number |-> 0]),
   Addition(3, "sint32", [number |-> 30]), Addition(1, "bytes", [bytes |-> <<31>>]),
   Addition(3, "bytes", [bytes |-> <<>>]), Addition(2, "float", [number |-> 3]),
   Addition(1, "uint64", [number |-> 2 * 1023])}

\* Bytes that are tags of field 1, unknown tags, small and huge lengths,
\* continuation bytes.
MCForeignBodies ==
  UNION {[1..n -> {0, 1, 2, 8, 10, 13, 16, 31}] : n \in 1..4}
=============================================================================
