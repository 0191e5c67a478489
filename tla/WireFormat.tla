----------------------------- MODULE WireFormat -----------------------------
(***************************************************************************)
(* The mpubsub datagram: a 12-byte header and a body that is either the    *)
(* plaintext payload or its XXTEA ciphertext.  The C++ component           *)
(* (components/mpubsub/wire_format.*, multicast_pubsub.cpp) and the Go     *)
(* bridge (bridges/mqtt-go/wire.go) implement the format independently;    *)
(* this module has both codecs, so that their agreement can be stated.     *)
(*                                                                         *)
(* Lengths are the real numbers of bytes, because the codecs differ in how *)
(* they compute them.  Contents are abstract: a payload is a record whose  *)
(* field len is its length, a header is a record with one field per header *)
(* field, and a ciphertext is the triple it was made of.                   *)
(***************************************************************************)
EXTENDS Integers

CONSTANTS
  Topics,       \* the topic strings in use
  topic_crc32,  \* [Topics -> Nat], the CRC32 of each topic
  NoKey,        \* "no encryption key configured"
  GarbledCrc    \* the CRC that decrypting with a wrong key shows

(***************************************************************************)
(* A wrong key decrypts to a value that is, with probability 1 - 2^-32,    *)
(* the CRC of no topic (docs/PROTOCOL.md section 3.3); GarbledCrc stands   *)
(* for that value.                                                         *)
(***************************************************************************)
ASSUME WireAssumption ==
  /\ topic_crc32 \in [Topics -> Nat]
  /\ GarbledCrc \in Nat
  /\ \A t \in Topics : topic_crc32[t] # GarbledCrc

\* No two of the topics in use share a CRC32: nothing in the code excludes
\* it, so what depends on it is stated with this as a hypothesis.
CrcInjective ==
  \A t, u \in Topics : topic_crc32[t] = topic_crc32[u] => t = u

HEADER_LEN == 12
MAX_DATAGRAM == 1232
MAX_PAYLOAD == MAX_DATAGRAM - HEADER_LEN

Encodings == {"RAW", "PROTOBUF"}   \* is_known_encoding
EncModes == {"NONE", "XXTEA"}      \* is_known_enc_mode

(***************************************************************************)
(* roundup4 of the payload and its 4-byte CRC prefix, with a floor of the  *)
(* two words XXTEA needs.                                                  *)
(***************************************************************************)
xxtea_ciphertext_len(n) ==
  IF n + 4 < 8 THEN 8 ELSE 4 * ((n + 4 + 3) \div 4)

(***************************************************************************)
(* The cipher: decrypting with the key that encrypted gives the CRC prefix *)
(* and the payload back; any other key shows GarbledCrc.                   *)
(***************************************************************************)
xxtea_encrypt(key, crc, payload) ==
  [key |-> key, crc |-> crc, payload |-> payload]

xxtea_decrypt(key, body) ==
  [crc |-> IF key = body.key THEN body.crc ELSE GarbledCrc,
   payload |-> body.payload]

\* A mutant: the encryption mode is not written to the header.
HeaderWithoutEncMode(crc, encoding, payload_len, enc_mode) ==
  [magic |-> "MP", version |-> 1, encoding |-> encoding,
   topic_crc |-> crc, payload_len |-> payload_len % 65536,
   enc_mode |-> "NONE"]

(***************************************************************************)
(* The header fields.  The cleartext CRC of an encrypted datagram is 0,    *)
(* and the length field is a uint16.                                       *)
(***************************************************************************)
encode_header(crc, encoding, payload_len, enc_mode) ==
  [magic |-> "MP", version |-> 1, encoding |-> encoding,
   topic_crc |-> IF enc_mode = "NONE" THEN crc ELSE 0,
   payload_len |-> payload_len % 65536, enc_mode |-> enc_mode]

-----------------------------------------------------------------------------
\* A mutant: the cap of the plaintext path used for both.
EffectiveMaxIgnoresKey(key) == MAX_PAYLOAD

(***************************************************************************)
(* The C++ sender, publish(): the payload cap, 4 bytes lower with a key,   *)
(* and the datagram.                                                       *)
(***************************************************************************)
effective_max(key) == IF key # NoKey THEN MAX_PAYLOAD - 4 ELSE MAX_PAYLOAD

make_datagram(topic, payload, encoding, key) ==
  LET crc == topic_crc32[topic]
      mode == IF key # NoKey THEN "XXTEA" ELSE "NONE"
      body_len == IF mode = "XXTEA" THEN xxtea_ciphertext_len(payload.len)
                                    ELSE payload.len
  IN  [header |-> encode_header(crc, encoding, payload.len, mode),
       size |-> HEADER_LEN + body_len,
       body |-> xxtea_encrypt(key, crc, payload)]

\* A mutant: a datagram may have bytes behind the announced ones.
DecodeIgnoresTrailer(d) ==
  /\ d.size >= HEADER_LEN
  /\ d.header.magic = "MP" /\ d.header.version = 1
  /\ d.header.encoding \in Encodings
  /\ d.header.enc_mode \in EncModes
  /\ d.size >= HEADER_LEN + (IF d.header.enc_mode = "XXTEA"
                             THEN xxtea_ciphertext_len(d.header.payload_len)
                             ELSE d.header.payload_len)

(***************************************************************************)
(* The C++ receiver.  decode() answers OK when none of its checks fails    *)
(* (which one failed is only logged); on_packet_() then drops an encrypted *)
(* datagram when the node has no key, and recovers the topic CRC.          *)
(***************************************************************************)
decode(d) ==
  /\ d.size >= HEADER_LEN
  /\ d.header.magic = "MP" /\ d.header.version = 1
  /\ d.header.encoding \in Encodings
  /\ d.header.enc_mode \in EncModes
  /\ d.size = HEADER_LEN + (IF d.header.enc_mode = "XXTEA"
                            THEN xxtea_ciphertext_len(d.header.payload_len)
                            ELSE d.header.payload_len)

\* loop() reads into a MAX_DATAGRAM buffer; the rest of a datagram is lost.
ReadInto(d) ==
  [header |-> d.header, body |-> d.body,
   size |-> IF d.size > MAX_DATAGRAM THEN MAX_DATAGRAM ELSE d.size]

was_encrypted(d) == d.header.enc_mode = "XXTEA"

Accepted(d, key) == decode(d) /\ (was_encrypted(d) => key # NoKey)

\* A mutant: the CRC is taken from the header of an encrypted datagram too.
HeaderCrc(d, key) == d.header.topic_crc

RecoveredCrc(d, key) ==
  IF was_encrypted(d) THEN xxtea_decrypt(key, d.body).crc
                      ELSE d.header.topic_crc

-----------------------------------------------------------------------------
(***************************************************************************)
(* The Go codec of the bridge.  EncodePacket refuses an encrypted payload  *)
(* by the size of the datagram it would make, not by a payload cap.        *)
(***************************************************************************)
EncodeRefuses(payload, key) ==
  IF key = NoKey THEN payload.len > MAX_PAYLOAD
  ELSE HEADER_LEN + xxtea_ciphertext_len(payload.len) > MAX_DATAGRAM

EncodePacket(topic, payload, encoding, key) ==
  LET crc == topic_crc32[topic]
      encrypted == key # NoKey
  IN  [header |-> [magic |-> "MP", version |-> 1, encoding |-> encoding,
                   topic_crc |-> IF encrypted THEN 0 ELSE crc,
                   payload_len |-> payload.len % 65536,
                   enc_mode |-> IF encrypted THEN "XXTEA" ELSE "NONE"],
       size |-> HEADER_LEN + (IF encrypted
                              THEN xxtea_ciphertext_len(payload.len)
                              ELSE payload.len),
       body |-> xxtea_encrypt(key, crc, payload)]

(***************************************************************************)
(* DecodePacket: accepted iff none of its early returns is taken; then the *)
(* topic CRC the routing table is indexed with.                            *)
(***************************************************************************)
DecodeAccepts(d, key) ==
  /\ d.size >= HEADER_LEN
  /\ d.header.magic = "MP" /\ d.header.version = 1
  /\ d.header.encoding \in Encodings
  /\ \/ /\ d.header.enc_mode = "XXTEA"
        /\ d.size = HEADER_LEN + xxtea_ciphertext_len(d.header.payload_len)
        /\ key # NoKey
     \/ /\ d.header.enc_mode = "NONE"
        /\ d.size = HEADER_LEN + d.header.payload_len

TopicCRC(d, key) ==
  IF d.header.enc_mode = "XXTEA" THEN xxtea_decrypt(key, d.body).crc
                                 ELSE d.header.topic_crc
=============================================================================
