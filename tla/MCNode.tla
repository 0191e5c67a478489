------------------------------- MODULE MCNode -------------------------------
(***************************************************************************)
(* Instances of MpubsubNode for TLC: a retransmission instance (no         *)
(* subscribers), with and without a CRC32 collision, and a dispatch        *)
(* instance (no publishers).                                               *)
(***************************************************************************)
EXTENDS NodeProperties, TLC

CONSTANTS t1, t2, g1, g2, k1, k2, c1, c2, s1, s2

MCTopics == {t1, t2}
MCGroups == {g1, g2}
MCGroupOf == (t1 :> g1) @@ (t2 :> g2)
DistinctCrcs == (t1 :> 0) @@ (t2 :> 7)
EqualCrcs == (t1 :> 7) @@ (t2 :> 7)

\* Counts an action may ask for: none, no resend, two resends, indefinite.
MCOverrides == {NoOverride, 3, -1}

(***************************************************************************)
(* Datagrams of other nodes: both topics, both encodings, in the clear and *)
(* encrypted with this node's key or another; a PROTOBUF body too short    *)
(* for its SCHEMA_ID; an unknown version.                                  *)
(***************************************************************************)
Peer(t, len, schema, encoding, key) ==
  [to |-> topic_to_group[t],
   datagram |-> make_datagram(t, [topic |-> t, pub |-> 0, len |-> len,
                                  schema |-> schema], encoding, key)]

MCArrivals ==
  {Peer(t, 4, RawSchema, "RAW", key) : t \in MCTopics, key \in {NoKey, k1, k2}}
  \cup {Peer(t1, 4, s, "PROTOBUF", key) : s \in {s1, s2}, key \in {NoKey, k1}}
  \cup {Peer(t1, 1, s1, "PROTOBUF", NoKey),
        [Peer(t1, 4, RawSchema, "RAW", NoKey)
           EXCEPT !.datagram.header.version = 2]}
=============================================================================
