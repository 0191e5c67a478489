--------------------------- MODULE WireLinkProofs ---------------------------
(***************************************************************************)
(* The two implementations interoperate over the link, for every set of    *)
(* topics, keys and payload lengths.                                       *)
(***************************************************************************)
EXTENDS WireLink, WireFormatProofs

(***************************************************************************)
(* The inductive invariant: the wire holds what publish() makes of the     *)
(* request, whichever implementation sent it, and the receiver's verdict   *)
(* is the one on_packet_() reaches, whichever implementation received it.  *)
(***************************************************************************)
SentInv ==
  Ours =>
    /\ sent.topic \in Topics /\ sent.len \in Nat
    /\ wire = IF sent.len > effective_max(sent.key) THEN NoDatagram
              ELSE make_datagram(sent.topic, [len |-> sent.len], "RAW", sent.key)

ReceivedInv ==
  /\ sent.by = "none" => wire = NoDatagram
  /\ receiver # Pending =>
       /\ wire # NoDatagram
       /\ receiver.accepted = Accepted(ReadInto(wire), receiver.key)
       /\ receiver.crc = RecoveredCrc(ReadInto(wire), receiver.key)

LinkInv == SentInv /\ ReceivedInv

(***************************************************************************)
(* DecodePacket and decode() with on_packet_() accept the same datagrams   *)
(* and recover the same CRC.                                               *)
(***************************************************************************)
LEMMA ReceiversAgree ==
  ASSUME NEW d, NEW key
  PROVE  /\ DecodeAccepts(d, key) <=> Accepted(d, key)
         /\ TopicCRC(d, key) = RecoveredCrc(d, key)
<1> DEFINE mode == d.header.enc_mode
<1>1. DecodeAccepts(d, key) <=> Accepted(d, key)
  <2>1. CASE mode = "XXTEA"
    BY <2>1 DEF DecodeAccepts, Accepted, decode, was_encrypted, EncModes
  <2>2. CASE mode # "XXTEA"
    BY <2>2 DEF DecodeAccepts, Accepted, decode, was_encrypted, EncModes
  <2>3. QED
    BY <2>1, <2>2
<1>2. TopicCRC(d, key) = RecoveredCrc(d, key)
  BY DEF TopicCRC, RecoveredCrc, was_encrypted
<1>3. QED
  BY <1>1, <1>2

(***************************************************************************)
(* LinkInv holds initially and after every step.                           *)
(***************************************************************************)
LEMMA LinkInvariant == Spec => []LinkInv
<1>1. Init => LinkInv
  BY DEF Init, LinkInv, SentInv, ReceivedInv, Ours
<1>2. LinkInv /\ [Next]_vars => LinkInv'
  <2> SUFFICES ASSUME LinkInv, [Next]_vars PROVE LinkInv'
    OBVIOUS
  <2>1. ASSUME NEW t \in Topics, NEW n \in Lengths, NEW key \in KeyChoices,
               CppSend(t, n, key)
        PROVE  LinkInv'
    <3>1. n \in Nat
      BY LinkAssumption
    <3>2. SentInv'
      BY <2>1, <3>1 DEF CppSend, SentInv, Ours, Request
    <3>3. receiver' = Pending /\ sent'.by = "cpp"
      BY <2>1 DEF CppSend, LinkInv, ReceivedInv, Request
    <3>4. QED
      BY <3>2, <3>3 DEF LinkInv, ReceivedInv, Pending
  <2>2. ASSUME NEW t \in Topics, NEW n \in Lengths, NEW key \in KeyChoices,
               GoSend(t, n, key)
        PROVE  LinkInv'
    <3> DEFINE p == [len |-> n]
    <3>1. n \in Nat /\ p.len = n
      BY LinkAssumption
    <3>2. EncodeRefuses(p, key) <=> n > effective_max(key)
      BY <3>1, RefusalsAgree
    <3>3. EncodePacket(t, p, "RAW", key) = make_datagram(t, p, "RAW", key)
      BY <3>1, SameDatagram
    <3>4. SentInv'
      BY <2>2, <3>1, <3>2, <3>3 DEF GoSend, SentInv, Ours, Request
    <3>5. receiver' = Pending /\ sent'.by = "go"
      BY <2>2 DEF GoSend, LinkInv, ReceivedInv, Request
    <3>6. QED
      BY <3>4, <3>5 DEF LinkInv, ReceivedInv, Pending
  <2>3. ASSUME NEW t \in Topics, NEW n \in Lengths, NEW m \in ForeignLens,
               ForeignSend(t, n, m)
        PROVE  LinkInv'
    <3>1. receiver' = Pending /\ sent'.by = "foreign"
      BY <2>3 DEF ForeignSend, LinkInv, ReceivedInv, Request
    <3>2. QED
      BY <3>1 DEF LinkInv, SentInv, ReceivedInv, Ours
  <2>4. ASSUME NEW key \in KeyChoices, CppReceive(key) \/ GoReceive(key)
        PROVE  LinkInv'
    <3>1. sent' = sent /\ wire' = wire /\ wire # NoDatagram
      BY <2>4 DEF CppReceive, GoReceive
    <3>2. /\ receiver'.key = key
          /\ receiver'.accepted = Accepted(ReadInto(wire), key)
          /\ receiver'.crc = RecoveredCrc(ReadInto(wire), key)
      <4>1. CASE CppReceive(key)
        BY <4>1 DEF CppReceive
      <4>2. CASE GoReceive(key)
        <5> DEFINE d == ReadInto(wire)
        <5>1. (DecodeAccepts(d, key) = Accepted(d, key))
              /\ TopicCRC(d, key) = RecoveredCrc(d, key)
          <6>1. DecodeAccepts(d, key) \in BOOLEAN /\ Accepted(d, key) \in BOOLEAN
            BY DEF DecodeAccepts, Accepted
          <6>2. QED
            BY <6>1, ReceiversAgree
        <5>2. receiver' = [at |-> "go", key |-> key,
                           accepted |-> DecodeAccepts(d, key),
                           crc |-> TopicCRC(d, key)]
          BY <4>2 DEF GoReceive
        <5> HIDE DEF d
        <5>3. QED
          BY <5>1, <5>2 DEF d
      <4>3. QED
        BY <2>4, <4>1, <4>2
    <3>3. SentInv'
      BY <3>1 DEF LinkInv, SentInv, Ours
    <3>4. QED
      BY <3>1, <3>2, <3>3 DEF LinkInv, ReceivedInv
  <2>5. CASE UNCHANGED vars
    BY <2>5 DEF vars, LinkInv, SentInv, ReceivedInv, Ours
  <2>6. QED
    BY <2>1, <2>2, <2>3, <2>4, <2>5 DEF Next
<1>3. QED
  BY <1>1, <1>2, PTL DEF Spec

(***************************************************************************)
(* At every payload length, the C++ node and the Go bridge refuse the same *)
(* payloads, and what they send fits a datagram.                           *)
(***************************************************************************)
THEOREM SendersAgreeAlways == Spec => []SendersAgree
<1>1. LinkInv => SendersAgree
  <2> SUFFICES ASSUME LinkInv, Ours
               PROVE  /\ wire = NoDatagram <=> sent.len > effective_max(sent.key)
                      /\ wire.size <= MAX_DATAGRAM
    BY DEF SendersAgree
  <2> DEFINE p == [len |-> sent.len]
             d == make_datagram(sent.topic, p, "RAW", sent.key)
  <2>1. sent.topic \in Topics /\ sent.len \in Nat
    BY DEF LinkInv, SentInv
  <2>2. CASE sent.len > effective_max(sent.key)
    BY <2>2 DEF LinkInv, SentInv, NoDatagram, MAX_DATAGRAM
  <2>3. CASE ~(sent.len > effective_max(sent.key))
    <3>1. effective_max(sent.key) \in Nat
      BY DEF effective_max, MAX_PAYLOAD, MAX_DATAGRAM, HEADER_LEN
    <3>2. p.len \in Nat /\ p.len <= effective_max(sent.key)
      BY <2>1, <2>3, <3>1
    <3>3. "RAW" \in Encodings
      BY DEF Encodings
    <3>4. d.size \in Nat /\ d.size <= MAX_DATAGRAM /\ decode(d)
      BY <2>1, <3>2, <3>3, DatagramIsReadable
    <3>5. wire = d
      BY <2>3 DEF LinkInv, SentInv
    <3>6. d.size # 0
      BY <3>4 DEF decode, HEADER_LEN
    <3> HIDE DEF d
    <3>7. d # NoDatagram
      BY <3>6 DEF NoDatagram
    <3>8. QED
      BY <2>3, <3>4, <3>5, <3>7
  <2>4. QED
    BY <2>2, <2>3
<1>2. QED
  BY <1>1, LinkInvariant, PTL

(***************************************************************************)
(* Either receiver accepts and correctly attributes whatever either sender *)
(* emits, as far as the keys allow, and mistakes it for no other topic.    *)
(***************************************************************************)
THEOREM PeersInteroperate == Spec => []PeersUnderstandEachOther
<1>1. LinkInv => PeersUnderstandEachOther
  <2> SUFFICES ASSUME LinkInv, Ours, receiver # Pending
               PROVE  /\ receiver.accepted <=>
                           (sent.key = NoKey \/ receiver.key # NoKey)
                      /\ receiver.accepted =>
                           IF sent.key \in {NoKey, receiver.key}
                           THEN receiver.crc = topic_crc32[sent.topic]
                           ELSE \A t \in Topics : receiver.crc # topic_crc32[t]
    BY DEF PeersUnderstandEachOther
  <2> DEFINE p == [len |-> sent.len]
             d == make_datagram(sent.topic, p, "RAW", sent.key)
  <2>1. sent.topic \in Topics /\ sent.len \in Nat
    BY DEF LinkInv, SentInv
  <2>2. ~(sent.len > effective_max(sent.key)) /\ wire = d
    BY DEF LinkInv, SentInv, ReceivedInv
  <2>3. effective_max(sent.key) \in Nat
    BY DEF effective_max, MAX_PAYLOAD, MAX_DATAGRAM, HEADER_LEN
  <2>4. p.len \in Nat /\ p.len <= effective_max(sent.key) /\ "RAW" \in Encodings
    BY <2>1, <2>2, <2>3 DEF Encodings
  <2>5. /\ ReadInto(d) = d /\ decode(d)
        /\ was_encrypted(d) <=> sent.key # NoKey
        /\ RecoveredCrc(d, receiver.key) =
             IF sent.key \in {NoKey, receiver.key}
             THEN topic_crc32[sent.topic] ELSE GarbledCrc
    BY <2>1, <2>4, DatagramIsReadable
  <2> HIDE DEF d
  <2>6. /\ receiver.accepted = Accepted(d, receiver.key)
        /\ receiver.crc = RecoveredCrc(d, receiver.key)
    BY <2>2, <2>5 DEF LinkInv, ReceivedInv
  <2>7. Accepted(d, receiver.key) <=> (sent.key = NoKey \/ receiver.key # NoKey)
    BY <2>5 DEF Accepted
  <2>8. QED
    BY <2>5, <2>6, <2>7, WireAssumption
<1>2. QED
  BY <1>1, LinkInvariant, PTL

(***************************************************************************)
(* Neither receiver takes a datagram of another length than its header     *)
(* announces, unless the read cut a longer one to a full-size datagram.    *)
(***************************************************************************)
THEOREM LengthsAreChecked == Spec => []AcceptedIsWhole
<1>1. LinkInv => AcceptedIsWhole
  <2> SUFFICES ASSUME LinkInv, receiver # Pending, receiver.accepted
               PROVE  \/ wire.size = Announced(wire.header)
                      \/ wire.size > MAX_DATAGRAM
                         /\ Announced(wire.header) = MAX_DATAGRAM
    BY DEF AcceptedIsWhole
  <2>1. decode(ReadInto(wire))
    BY DEF LinkInv, ReceivedInv, Accepted
  <2>2. /\ ReadInto(wire).header = wire.header
        /\ ReadInto(wire).size = IF wire.size > MAX_DATAGRAM THEN MAX_DATAGRAM
                                                             ELSE wire.size
    BY DEF ReadInto
  <2>3. ReadInto(wire).size = Announced(ReadInto(wire).header)
    BY <2>1 DEF decode, Announced
  <2>4. QED
    BY <2>2, <2>3
<1>2. QED
  BY <1>1, LinkInvariant, PTL
=============================================================================
