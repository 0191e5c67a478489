------------------------------ MODULE WireLink ------------------------------
(***************************************************************************)
(* One datagram from a sender to a receiver: either implementation may be  *)
(* at either end, with or without a key, over every payload length.  The   *)
(* receiver reads into a buffer of MAX_DATAGRAM bytes, so what decode()    *)
(* sees of a longer datagram is its first MAX_DATAGRAM bytes.              *)
(***************************************************************************)
EXTENDS WireFormat

CONSTANTS
  Keys,        \* the encryption keys in use
  Lengths,     \* the payload lengths tried
  ForeignLens  \* the body lengths of datagrams from another implementation

ASSUME LinkAssumption ==
  NoKey \notin Keys /\ Lengths \subseteq Nat /\ ForeignLens \subseteq Nat

VARIABLES
  sent,     \* what the sender was asked to send, and on which side
  wire,     \* the datagram in flight, at its full size
  receiver  \* the receiver's key and what it made of the datagram

vars == <<sent, wire, receiver>>

NoDatagram == [size |-> 0]
Pending == [at |-> "none"]
KeyChoices == Keys \cup {NoKey}

Init ==
  /\ sent = [by |-> "none"]
  /\ wire = NoDatagram
  /\ receiver = Pending

\* Only the length of a payload matters on the link.
Request(by, t, n, key) == [by |-> by, topic |-> t, len |-> n, key |-> key]

(***************************************************************************)
(* publish() of a C++ node, and handleMQTTMessage of the bridge, as far as *)
(* the datagram: refused, or put on the wire.                              *)
(***************************************************************************)
CppSend(t, n, key) ==
  /\ sent.by = "none"
  /\ sent' = Request("cpp", t, n, key)
  /\ wire' = IF n > effective_max(key) THEN NoDatagram
             ELSE make_datagram(t, [len |-> n], "RAW", key)
  /\ UNCHANGED receiver

GoSend(t, n, key) ==
  /\ sent.by = "none"
  /\ sent' = Request("go", t, n, key)
  /\ wire' = IF EncodeRefuses([len |-> n], key) THEN NoDatagram
             ELSE EncodePacket(t, [len |-> n], "RAW", key)
  /\ UNCHANGED receiver

(***************************************************************************)
(* Another implementation on the network, which may put a body of any      *)
(* length behind a plaintext header that announces n bytes.                *)
(***************************************************************************)
ForeignSend(t, n, body_len) ==
  /\ sent.by = "none"
  /\ sent' = Request("foreign", t, n, NoKey)
  /\ wire' = [header |-> encode_header(topic_crc32[t], "RAW", n, "NONE"),
              size |-> HEADER_LEN + body_len,
              body |-> xxtea_encrypt(NoKey, topic_crc32[t], [len |-> n])]
  /\ UNCHANGED receiver

CppReceive(key) ==
  /\ receiver = Pending /\ wire # NoDatagram
  /\ LET d == ReadInto(wire) IN
     receiver' = [at |-> "cpp", key |-> key, accepted |-> Accepted(d, key),
                  crc |-> RecoveredCrc(d, key)]
  /\ UNCHANGED <<sent, wire>>

GoReceive(key) ==
  /\ receiver = Pending /\ wire # NoDatagram
  /\ LET d == ReadInto(wire) IN
     receiver' = [at |-> "go", key |-> key, accepted |-> DecodeAccepts(d, key),
                  crc |-> TopicCRC(d, key)]
  /\ UNCHANGED <<sent, wire>>

Next ==
  \/ \E t \in Topics, n \in Lengths, key \in KeyChoices :
        CppSend(t, n, key) \/ GoSend(t, n, key)
  \/ \E t \in Topics, n \in Lengths, m \in ForeignLens : ForeignSend(t, n, m)
  \/ \E key \in KeyChoices : CppReceive(key) \/ GoReceive(key)

Spec == Init /\ [][Next]_vars

-----------------------------------------------------------------------------
Ours == sent.by \in {"cpp", "go"}

(***************************************************************************)
(* The two senders refuse the same payloads: the C++ cap of 1216 bytes     *)
(* under encryption and the bridge's test of the datagram size are the     *)
(* same test at every length, and what is not refused fits a datagram.     *)
(***************************************************************************)
SendersAgree ==
  Ours =>
    /\ wire = NoDatagram <=> sent.len > effective_max(sent.key)
    /\ wire.size <= MAX_DATAGRAM

(***************************************************************************)
(* Interoperability: whatever either sender emits, either receiver         *)
(* accepts, unless it is encrypted and the receiver has no key; the CRC it *)
(* recovers is the topic's exactly when the datagram is in the clear or    *)
(* the keys agree, and is the CRC of no topic otherwise.                   *)
(***************************************************************************)
PeersUnderstandEachOther ==
  (Ours /\ receiver # Pending) =>
    /\ receiver.accepted <=> (sent.key = NoKey \/ receiver.key # NoKey)
    /\ receiver.accepted =>
         IF sent.key \in {NoKey, receiver.key}
         THEN receiver.crc = topic_crc32[sent.topic]
         ELSE \A t \in Topics : receiver.crc # topic_crc32[t]

(***************************************************************************)
(* The length test: either receiver accepts a datagram, whoever sent it,   *)
(* only if it is as long as its header announces.  The one                 *)
(* exception is a datagram that the read into a MAX_DATAGRAM buffer cut to *)
(* just that length (docs/PROTOCOL.md section 4 knows no exception).       *)
(***************************************************************************)
Announced(h) ==
  HEADER_LEN + (IF h.enc_mode = "XXTEA" THEN xxtea_ciphertext_len(h.payload_len)
                                        ELSE h.payload_len)

AcceptedIsWhole ==
  (receiver # Pending /\ receiver.accepted) =>
    \/ wire.size = Announced(wire.header)
    \/ wire.size > MAX_DATAGRAM /\ Announced(wire.header) = MAX_DATAGRAM
=============================================================================
