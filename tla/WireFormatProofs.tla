-------------------------- MODULE WireFormatProofs --------------------------
(***************************************************************************)
(* Facts about the two codecs, for every payload length and key.           *)
(***************************************************************************)
EXTENDS WireFormat, TLAPS

(***************************************************************************)
(* The ciphertext is whole words, at least two of them, holds the CRC and  *)
(* the payload with at most 4 bytes of padding, and fits the payload limit *)
(* exactly for payloads of at most MAX_PAYLOAD - 4 bytes.                  *)
(***************************************************************************)
LEMMA CiphertextLength ==
  ASSUME NEW n \in Nat
  PROVE  /\ xxtea_ciphertext_len(n) \in Nat
         /\ xxtea_ciphertext_len(n) % 4 = 0
         /\ xxtea_ciphertext_len(n) >= 8
         /\ xxtea_ciphertext_len(n) >= n + 4
         /\ xxtea_ciphertext_len(n) <= n + 8
         /\ xxtea_ciphertext_len(n) <= MAX_PAYLOAD <=> n <= MAX_PAYLOAD - 4
BY DEF xxtea_ciphertext_len, MAX_PAYLOAD, MAX_DATAGRAM, HEADER_LEN

(***************************************************************************)
(* The bridge's EncodePacket refuses exactly the payloads publish()        *)
(* refuses, although one tests the datagram's size and the other a cap.    *)
(***************************************************************************)
THEOREM RefusalsAgree ==
  ASSUME NEW key, NEW payload, payload.len \in Nat
  PROVE  EncodeRefuses(payload, key) <=> payload.len > effective_max(key)
<1> DEFINE n == payload.len
<1>1. CASE key = NoKey
  BY <1>1 DEF EncodeRefuses, effective_max, MAX_PAYLOAD, MAX_DATAGRAM, HEADER_LEN
<1>2. CASE key # NoKey
  <2>1. /\ xxtea_ciphertext_len(n) \in Nat
        /\ xxtea_ciphertext_len(n) <= MAX_PAYLOAD <=> n <= MAX_PAYLOAD - 4
    BY CiphertextLength
  <2>2. QED
    BY <1>2, <2>1 DEF EncodeRefuses, effective_max, MAX_PAYLOAD, MAX_DATAGRAM,
                      HEADER_LEN
<1>3. QED
  BY <1>1, <1>2

(***************************************************************************)
(* Both senders put the same datagram on the wire.                         *)
(***************************************************************************)
THEOREM SameDatagram ==
  ASSUME NEW topic \in Topics, NEW payload, payload.len \in Nat,
         NEW encoding, NEW key
  PROVE  EncodePacket(topic, payload, encoding, key)
           = make_datagram(topic, payload, encoding, key)
BY DEF EncodePacket, make_datagram, encode_header

(***************************************************************************)
(* A datagram that was not refused fits the datagram limit, survives the   *)
(* receive buffer whole and passes decode().  A receiver recovers the      *)
(* topic's CRC from it if it is in the clear or the keys agree, and the    *)
(* CRC of no topic if they do not.                                         *)
(***************************************************************************)
THEOREM DatagramIsReadable ==
  ASSUME NEW topic \in Topics, NEW payload, payload.len \in Nat,
         NEW encoding \in Encodings, NEW key,
         payload.len <= effective_max(key)
  PROVE  LET d == make_datagram(topic, payload, encoding, key) IN
         /\ d.size \in Nat /\ d.size <= MAX_DATAGRAM /\ ReadInto(d) = d
         /\ decode(d)
         /\ was_encrypted(d) <=> key # NoKey
         /\ \A other : RecoveredCrc(d, other) =
              IF key \in {NoKey, other} THEN topic_crc32[topic] ELSE GarbledCrc
<1> DEFINE n == payload.len
           d == make_datagram(topic, payload, encoding, key)
           c == xxtea_ciphertext_len(n)
<1>1. n \in Nat /\ n <= MAX_PAYLOAD /\ n % 65536 = n
  BY DEF effective_max, MAX_PAYLOAD, MAX_DATAGRAM, HEADER_LEN
<1>2. c \in Nat /\ (key # NoKey => c <= MAX_PAYLOAD)
  BY <1>1, CiphertextLength DEF effective_max
<1>3. /\ d.size = HEADER_LEN + (IF key # NoKey THEN c ELSE n)
      /\ d.header.payload_len = n
      /\ d.header.enc_mode = IF key # NoKey THEN "XXTEA" ELSE "NONE"
      /\ d.header.magic = "MP" /\ d.header.version = 1
      /\ d.header.encoding = encoding
      /\ d.header.topic_crc = IF key = NoKey THEN topic_crc32[topic] ELSE 0
      /\ d.body.key = key /\ d.body.crc = topic_crc32[topic]
  BY <1>1 DEF make_datagram, encode_header, xxtea_encrypt
<1>4. d.size \in Nat /\ d.size <= MAX_DATAGRAM /\ d.size >= HEADER_LEN
  BY <1>1, <1>2, <1>3 DEF MAX_PAYLOAD, MAX_DATAGRAM, HEADER_LEN
<1>5. ReadInto(d) = d
  BY <1>4 DEF ReadInto, make_datagram, MAX_DATAGRAM
<1>6. decode(d)
  BY <1>3, <1>4 DEF decode, EncModes
<1>7. was_encrypted(d) <=> key # NoKey
  BY <1>3 DEF was_encrypted
<1>8. ASSUME NEW other
      PROVE  RecoveredCrc(d, other) =
               IF key \in {NoKey, other} THEN topic_crc32[topic] ELSE GarbledCrc
  <2>1. d.body = [key |-> key, crc |-> topic_crc32[topic], payload |-> payload]
    BY DEF make_datagram, xxtea_encrypt
  <2>2. QED
    BY <1>3, <1>7, <2>1 DEF RecoveredCrc, xxtea_decrypt
<1>9. QED
  BY <1>4, <1>5, <1>6, <1>7, <1>8
=============================================================================
