----------------------------- MODULE MCEsp8266 -----------------------------
(***************************************************************************)
(* An instance of Esp8266Node for TLC.                                     *)
(***************************************************************************)
EXTENDS Esp8266Node, TLC

CONSTANTS t1, t2, g1, g2, k1, k2, c1, s1

MCTopics == {t1, t2}
MCGroupOf == (t1 :> g1) @@ (t2 :> g2)
DistinctCrcs == (t1 :> 0) @@ (t2 :> 7)
MCOverrides == {2, -1}

\* Both topics in the clear, t1 encrypted with this key or another, and typed.
Peer(t, len, schema, encoding, key) ==
  [to |-> topic_to_group[t],
   datagram |-> make_datagram(t, [topic |-> t, pub |-> 0, len |-> len,
                                  schema |-> schema], encoding, key)]

MCArrivals ==
  {Peer(t, 4, RawSchema, "RAW", NoKey) : t \in MCTopics}
    \cup {Peer(t1, 4, RawSchema, "RAW", key) : key \in {k1, k2}}
    \cup {Peer(t1, len, s1, "PROTOBUF", NoKey) : len \in {1, 4}}
=============================================================================
