---------------------------- MODULE FabricProofs ----------------------------
(***************************************************************************)
(* Publisher, network and listener implement LastValue, for every value of *)
(* the constants, when no two topics share a CRC32.                        *)
(***************************************************************************)
EXTENDS Fabric, NodeProofs

-----------------------------------------------------------------------------
(***************************************************************************)
(* The inductive invariant, in parts.                                      *)
(***************************************************************************)

\* A packet carries the CRC of its topic and a publication sent on it.
Tells(packet, S) ==
  LET d == packet.datagram
      payload == d.body.payload
  IN
  /\ payload.topic \in Topics
  /\ d.body.crc = topic_crc32[payload.topic]
  /\ d.header.enc_mode = "NONE" => d.header.topic_crc = d.body.crc
  /\ payload.pub \in S[payload.topic]

\* So does whatever may still be sent, and whatever is in flight.
TimersTell(S) ==
  /\ \A t \in Topics : indefinite_jobs[t] # NoJob =>
        Tells(indefinite_jobs[t].packet, S)
  /\ \A id \in Crcs : timeouts[id] # NoJob => Tells(timeouts[id].packet, S)
  /\ \A x \in deferred : Tells(x.packet, S)

OutTells(S) == \A k \in DOMAIN out : Tells(out[k], S)

NetworkTells == \A m \in network : Tells(m, sent)

\* sent has the latest publications, and none that is still to come.
SentInv ==
  /\ sent \in [Topics -> SUBSET Publications]
  /\ \A t \in Topics : \A p \in sent[t] : p <= calls_made
  /\ \A t \in Topics : latest[t] = 0 \/ latest[t] \in sent[t]

HeldType == held \in [Topics -> 0..MaxPublishes]

FabricInv ==
  TimersTell(sent) /\ OutTells(sent) /\ NetworkTells /\ SentInv /\ HeldType

-----------------------------------------------------------------------------
(***************************************************************************)
(* The packet publish() makes tells its own publication, once that has     *)
(* been sent.                                                              *)
(***************************************************************************)
LEMMA PublishedTells ==
  ASSUME NEW t \in Topics, NEW p, NEW len \in Lengths, NEW s \in Schemas,
         NEW S, p \in S[t]
  PROVE  Tells(Packet(t, Payload(t, p, len, s), EncodingOf(s)), S)
BY DEF Tells, Packet, Payload, make_datagram, encode_header, xxtea_encrypt

(***************************************************************************)
(* A publication that was sent stays sent.                                 *)
(***************************************************************************)
LEMMA TellsGrows ==
  ASSUME NEW S, NEW R, \A t \in Topics : S[t] \subseteq R[t],
         NEW packet, Tells(packet, S)
  PROVE  Tells(packet, R)
BY DEF Tells

(***************************************************************************)
(* send_datagram_ emits its packet or nothing.                             *)
(***************************************************************************)
LEMMA SendTells ==
  ASSUME NEW packet, NEW ok \in BOOLEAN, send_datagram(packet, ok), NEW S,
         Tells(packet, S)
  PROVE  \A k \in DOMAIN out' : Tells(out'[k], S)
<1>1. CASE out' = <<packet>>
  BY <1>1
<1>2. CASE out' = <<>>
  BY <1>2
<1>3. QED
  BY <1>1, <1>2 DEF send_datagram, Emits

(***************************************************************************)
(* What a publisher's step does to the abstract state: an accepted         *)
(* publish() adds one new publication, and nothing else changes it.        *)
(***************************************************************************)
Accepts(t, pub) ==
  /\ pub = calls_made + 1 /\ calls_made' = pub /\ pub \in Publications
  /\ latest' = [latest EXCEPT ![t] = pub]
  /\ sent' = [sent EXCEPT ![t] = @ \cup {pub}]
  /\ \A p \in Publications : p # pub => count_of'[p] = count_of[p]

(***************************************************************************)
(* Transmit adds an accepted publish() to its topic, and to no other.      *)
(***************************************************************************)
LEMMA AcceptedIsSent ==
  ASSUME TypeOK, SentInv, Transmit, NEW t \in Topics,
         latest' = [latest EXCEPT ![t] = calls_made + 1], calls_made + 1 # 0
  PROVE  sent' = [sent EXCEPT ![t] = @ \cup {calls_made + 1}]
<1>1. sent' = [u \in Topics |-> sent[u] \cup ({latest'[u]} \ {0})]
  BY DEF Transmit
<1>2. \A u \in Topics : u # t => sent'[u] = sent[u]
  BY <1>1 DEF SentInv, TypeOK, HistoryType
<1>3. sent'[t] = sent[t] \cup {calls_made + 1}
  BY <1>1 DEF TypeOK, HistoryType
<1>4. sent \in [Topics -> SUBSET Publications]
  BY DEF SentInv
<1>5. QED
  BY <1>1, <1>2, <1>3, <1>4

(***************************************************************************)
(* Transmit leaves sent alone when no publish() was accepted.              *)
(***************************************************************************)
LEMMA UnsentIsKept ==
  ASSUME TypeOK, SentInv, Transmit, latest' = latest
  PROVE  sent' = sent
<1>1. sent' = [u \in Topics |-> sent[u] \cup ({latest[u]} \ {0})]
  BY DEF Transmit
<1>2. \A u \in Topics : sent'[u] = sent[u]
  BY <1>1 DEF SentInv
<1>3. QED
  BY <1>1, <1>2 DEF SentInv

(***************************************************************************)
(* A step of the publisher sends only what tells, keeps the invariant, and *)
(* accepts at most one publication.                                        *)
(***************************************************************************)
LEMMA PublisherKeeps ==
  ASSUME TypeOK, FabricInv, PublisherStep
  PROVE  /\ FabricInv'
         /\ \/ \E t \in Topics : Accepts(t, calls_made + 1)
            \/ UNCHANGED <<latest, count_of, sent>>
<1> USE DEF TypeOK
<1>0. Transmit /\ [Next]_vars /\ SentInv /\ HeldType'
  BY DEF PublisherStep, Transmit, FabricInv, HeldType
<1>1. ASSUME OutTells(sent)', \A t \in Topics : sent[t] \subseteq sent'[t]
      PROVE  NetworkTells'
  <2>1. \A m \in network : Tells(m, sent')
    BY <1>1, TellsGrows DEF FabricInv, NetworkTells
  <2>2. \A k \in DOMAIN out' : Tells(out'[k], sent')
    BY <1>1 DEF OutTells
  <2>3. network' = network \cup {out'[k] : k \in DOMAIN out'}
    BY <1>0 DEF Transmit
  <2>4. QED
    BY <2>1, <2>2, <2>3 DEF NetworkTells
<1>2. ASSUME latest' = latest, count_of' = count_of,
             calls_made' \in {calls_made, calls_made + 1}
      PROVE  SentInv' /\ sent' = sent
  <2>1. sent' = sent
    BY <1>0, <1>2, UnsentIsKept
  <2>2. \A t \in Topics : \A p \in sent[t] : p <= calls_made'
    BY <1>0, <1>2 DEF SentInv, HistoryType, Publications
  <2>3. QED
    BY <1>0, <1>2, <2>1, <2>2 DEF SentInv
<1>3. ASSUME NEW t \in Topics, NEW len \in Lengths, NEW s \in Schemas,
             NEW c \in Int, PlayStep(t, len, s, c)
      PROVE  /\ FabricInv'
             /\ \/ Accepts(t, calls_made + 1)
                \/ UNCHANGED <<latest, count_of, sent>>
  <2> DEFINE pub == calls_made + 1
             packet == Packet(t, Payload(t, pub, len, s), EncodingOf(s))
  <2>1. calls_made' = pub /\ pub \in Publications /\ calls_made \in Nat
    BY <1>3, NodeAssumption DEF PlayStep, HistoryType, Publications
  <2>2. CASE out' = <<>> /\ UNCHANGED <<timers, latest, accepted, count_of>>
    <3>1. SentInv' /\ sent' = sent
      BY <1>2, <2>1, <2>2
    <3>2. OutTells(sent)'
      BY <2>2 DEF OutTells
    <3>3. TimersTell(sent)'
      BY <2>2, <3>1 DEF FabricInv, TimersTell, timers
    <3>4. QED
      BY <1>0, <1>1, <2>2, <3>1, <3>2, <3>3 DEF FabricInv
  <2>3. CASE /\ send_datagram(packet, TRUE)
             /\ schedule_retransmits(t, packet, c, pub)
             /\ latest' = [latest EXCEPT ![t] = pub]
             /\ count_of' = [count_of EXCEPT ![pub] = c]
    <3>1. sent' = [sent EXCEPT ![t] = @ \cup {pub}]
      <4>1. TypeOK /\ pub # 0
        BY <2>1
      <4>2. QED
        BY <1>0, <2>3, <4>1, AcceptedIsSent
    <3>2. /\ sent' \in [Topics -> SUBSET Publications]
          /\ pub \in sent'[t] /\ \A u \in Topics : sent[u] \subseteq sent'[u]
      BY <1>0, <2>1, <3>1 DEF SentInv
    <3>3. SentInv'
      <4>1. \A u \in Topics : \A p \in sent'[u] : p \in sent[u] \/ p = pub
        BY <1>0, <3>1 DEF SentInv
      <4>2. \A u \in Topics : \A p \in sent[u] : p \in Nat /\ p <= calls_made
        BY <1>0, NodeAssumption DEF SentInv, Publications
      <4>3. \A u \in Topics : \A p \in sent'[u] : p <= calls_made'
        BY <2>1, <4>1, <4>2
      <4>4. \A u \in Topics : latest'[u] = 0 \/ latest'[u] \in sent'[u]
        BY <1>0, <2>3, <3>2 DEF SentInv, HistoryType
      <4>5. QED
        BY <3>2, <4>3, <4>4 DEF SentInv
    <3>4. Tells(packet, sent')
      BY <3>2, PublishedTells
    <3>5. \A q : Tells(q, sent) => Tells(q, sent')
      BY <3>2, TellsGrows
    <3>6. Accepts(t, pub)
      BY <2>1, <2>3, <3>1 DEF Accepts, HistoryType
    <3> HIDE DEF packet, pub
    <3>7. OutTells(sent)'
      <4>1. \A k \in DOMAIN out' : Tells(out'[k], sent')
        BY <2>3, <3>4, SendTells
      <4>2. QED
        BY <4>1 DEF OutTells
    <3>8. topic_crc32[t] \in Crcs
      BY DEF Crcs
    <3>9. ASSUME NEW u \in Topics, indefinite_jobs'[u] # NoJob
          PROVE  Tells(indefinite_jobs'[u].packet, sent')
      <4>1. \/ indefinite_jobs'[u] = indefinite_jobs[u]
            \/ indefinite_jobs'[u].packet = packet
        BY <2>3, <3>9 DEF schedule_retransmits, TimerType
      <4>2. QED
        BY <3>4, <3>5, <3>9, <4>1 DEF FabricInv, TimersTell
    <3>10. ASSUME NEW id \in Crcs, timeouts'[id] # NoJob
           PROVE  Tells(timeouts'[id].packet, sent')
      <4>1. timeouts'[id] = timeouts[id] \/ timeouts'[id].packet = packet
        BY <2>3, <3>8, <3>10
           DEF schedule_retransmits, cancel_indefinite_retransmit, TimerType
      <4>2. QED
        BY <3>4, <3>5, <3>10, <4>1 DEF FabricInv, TimersTell
    <3>11. ASSUME NEW x \in deferred'
           PROVE  Tells(x.packet, sent')
      <4>1. x \in deferred \/ x.packet = packet
        BY <2>3, <3>11 DEF schedule_retransmits
      <4>2. QED
        BY <3>4, <3>5, <4>1 DEF FabricInv, TimersTell
    <3>12. TimersTell(sent)'
      BY <3>9, <3>10, <3>11 DEF TimersTell
    <3>13. QED
      BY <1>0, <1>1, <3>2, <3>3, <3>6, <3>7, <3>12 DEF FabricInv, pub
  <2>4. QED
    BY <1>3, <2>2, <2>3 DEF PlayStep, send_datagram, Emits
<1>4. ASSUME NEW id \in Crcs, FireTimeout(id)
      PROVE  FabricInv' /\ UNCHANGED <<latest, count_of, sent>>
  <2>1. UNCHANGED <<calls_made, latest, count_of>> /\ timeouts[id] # NoJob
    BY <1>4 DEF FireTimeout
  <2>2. timeouts[id] \in Jobs /\ timeouts[id].topic \in Topics
    BY <2>1 DEF TimerType, Jobs
  <2>3. SentInv' /\ sent' = sent
    BY <1>2, <2>1
  <2>4. ASSUME NEW i \in Crcs, timeouts'[i] # NoJob
        PROVE  Tells(timeouts'[i].packet, sent)
    BY <1>4, <2>2, <2>4 DEF FireTimeout, TimerType, FabricInv, TimersTell
  <2>5. TimersTell(sent)'
    BY <1>4, <2>3, <2>4 DEF FireTimeout, FabricInv, TimersTell
  <2>6. PICK ok \in BOOLEAN : send_datagram(timeouts[id].packet, ok)
    BY <1>4 DEF FireTimeout
  <2>7. Tells(timeouts[id].packet, sent)
    BY <2>1 DEF FabricInv, TimersTell
  <2>8. \A k \in DOMAIN out' : Tells(out'[k], sent)
    BY <2>6, <2>7, SendTells
  <2>9. OutTells(sent)'
    BY <2>3, <2>8 DEF OutTells
  <2>10. QED
    BY <1>0, <1>1, <2>1, <2>3, <2>5, <2>9 DEF FabricInv
<1>5. ASSUME NEW x \in deferred, FireDeferred(x)
      PROVE  FabricInv' /\ UNCHANGED <<latest, count_of, sent>>
  <2>1. UNCHANGED <<calls_made, latest, count_of>>
    BY <1>5 DEF FireDeferred
  <2>2. SentInv' /\ sent' = sent
    BY <1>2, <2>1
  <2>3. TimersTell(sent)'
    BY <1>5, <2>2 DEF FireDeferred, FabricInv, TimersTell
  <2>4. PICK ok \in BOOLEAN : send_datagram(x.packet, ok)
    BY <1>5 DEF FireDeferred
  <2>5. Tells(x.packet, sent)
    BY DEF FabricInv, TimersTell
  <2>6. \A k \in DOMAIN out' : Tells(out'[k], sent)
    BY <2>4, <2>5, SendTells
  <2>7. OutTells(sent)'
    BY <2>2, <2>6 DEF OutTells
  <2>8. QED
    BY <1>0, <1>1, <2>1, <2>2, <2>3, <2>7 DEF FabricInv
<1>6. CASE UNCHANGED <<timers, pubHistory>> /\ out' \in {<<>>, out}
  <2>1. SentInv' /\ sent' = sent /\ UNCHANGED <<latest, count_of>>
    BY <1>2, <1>6 DEF pubHistory
  <2>2. TimersTell(sent)'
    BY <1>6, <2>1 DEF timers, FabricInv, TimersTell
  <2>3. OutTells(sent)'
    BY <1>6, <2>1 DEF FabricInv, OutTells
  <2>4. QED
    BY <1>0, <1>1, <2>1, <2>2, <2>3 DEF FabricInv
<1>7. QED
  BY <1>0, <1>3, <1>4, <1>5, <1>6, TimerSteps

(***************************************************************************)
(* The listener hears a datagram on no topic but the one it was published  *)
(* on: neither a shared group nor the blanked CRC of an encrypted header,  *)
(* nor another key, misleads it.                                           *)
(***************************************************************************)
LEMMA HeardOnItsTopic ==
  ASSUME CrcInjective, NEW m, NEW S, Tells(m, S), NEW t \in HeardOn(m)
  PROVE  t = m.datagram.body.payload.topic
<1> DEFINE d == ReadInto(m.datagram)
<1>1. d.header = m.datagram.header /\ d.body = m.datagram.body
  BY DEF ReadInto
<1>2. /\ t \in Topics /\ decode(d)
      /\ topic_crc32[t] = RecoveredCrc(d, listener_key)
  BY DEF HeardOn, Accepted
<1>3. /\ d.body.payload.topic \in Topics
      /\ d.body.crc = topic_crc32[d.body.payload.topic]
      /\ d.header.enc_mode = "NONE" => d.header.topic_crc = d.body.crc
  BY <1>1 DEF Tells
<1>4. d.header.enc_mode \in {"NONE", "XXTEA"}
  BY <1>2 DEF decode, EncModes
<1>5. topic_crc32[t] # GarbledCrc
  BY <1>2, WireAssumption
<1> HIDE DEF d
<1>6. topic_crc32[t] = d.body.crc
  BY <1>2, <1>3, <1>4, <1>5 DEF RecoveredCrc, was_encrypted, xxtea_decrypt
<1>7. QED
  BY <1>1, <1>2, <1>3, <1>6 DEF CrcInjective

(***************************************************************************)
(* The invariant holds of every step of the fabric.                        *)
(***************************************************************************)
LEMMA FabricStep ==
  ASSUME TypeOK, FabricInv, [FabricNext]_fabricVars
  PROVE  FabricInv'
<1> USE DEF FabricInv
<1>1. CASE PublisherStep
  BY <1>1, PublisherKeeps
<1>2. ASSUME UNCHANGED <<vars, sent>>, network' \subseteq network, HeldType'
      PROVE  FabricInv'
  <2>1. UNCHANGED <<indefinite_jobs, timeouts, deferred, out, calls_made,
                    latest, sent>>
    BY <1>2 DEF vars, timers, pubHistory, stepOutput
  <2>2. QED
    BY <1>2, <2>1 DEF TimersTell, OutTells, NetworkTells, SentInv
<1>3. ASSUME NEW m \in network, Deliver(m)
      PROVE  FabricInv'
  <2>1. m.datagram.body.payload.pub \in 0..MaxPublishes
    BY DEF NetworkTells, Tells, SentInv, Publications
  <2>2. HeldType'
    BY <1>3, <2>1 DEF Deliver, HeldType
  <2>3. QED
    BY <1>2, <1>3, <2>2 DEF Deliver
<1>4. ASSUME NEW m \in network, Expire(m)
      PROVE  FabricInv'
  BY <1>2, <1>4 DEF Expire, HeldType
<1>5. CASE Restart
  <2>1. HeldType'
    BY <1>5, NodeAssumption DEF Restart, HeldType
  <2>2. QED
    BY <1>2, <1>5, <2>1 DEF Restart
<1>6. CASE UNCHANGED fabricVars
  BY <1>2, <1>6 DEF fabricVars, fabric, HeldType
<1>7. QED
  BY <1>1, <1>3, <1>4, <1>5, <1>6 DEF FabricNext

-----------------------------------------------------------------------------
\* The abstract variable current, as Abstract maps it.
Current == [t \in Topics |-> IF Indefinite(t) THEN latest[t] ELSE 0]

(***************************************************************************)
(* Every step of the fabric is a step of LastValue or changes nothing it   *)
(* sees: an accepted publish() is Publish, a datagram heard is Hear, a     *)
(* restart is Forget, and resends, losses and all else are stuttering.     *)
(***************************************************************************)
LEMMA StepImplements ==
  ASSUME CrcInjective, TypeOK, FabricInv, [FabricNext]_fabricVars
  PROVE  [Abstract!Next]_(Abstract!vars)
<1>1. CASE PublisherStep
  <2>1. held' = held
    BY <1>1 DEF PublisherStep, Transmit
  <2>2. CASE UNCHANGED <<latest, count_of, sent>>
    BY <2>1, <2>2 DEF Abstract!vars, Indefinite
  <2>3. ASSUME NEW t \in Topics, NEW pub, pub = calls_made + 1, Accepts(t, pub)
        PROVE  Abstract!Next
    <3>1. pub \in Publications /\ calls_made \in Nat
      BY <2>3 DEF Accepts, TypeOK, HistoryType
    <3>2. \A u \in Topics : pub \notin sent[u]
      BY <2>3, <3>1 DEF FabricInv, SentInv
    <3>3. \A u \in Topics : u # t => Current'[u] = Current[u]
      <4> TAKE u \in Topics
      <4> HAVE u # t
      <4>1. latest'[u] = latest[u]
        BY <2>3 DEF Accepts, TypeOK, HistoryType
      <4>2. latest[u] # 0 => latest[u] \in Publications /\ latest[u] # pub
        BY <3>2 DEF FabricInv, SentInv
      <4>3. latest[u] # 0 => count_of'[latest[u]] = count_of[latest[u]]
        BY <2>3, <4>2 DEF Accepts
      <4>4. QED
        BY <4>1, <4>3 DEF Current, Indefinite
    <3>4. Current'[t] \in {pub, 0}
      BY <2>3 DEF Accepts, Current, TypeOK, HistoryType
    <3>5. Current' = [Current EXCEPT ![t] = Current'[t]]
      BY <3>3 DEF Current
    <3>6. sent' = [sent EXCEPT ![t] = @ \cup {pub}]
      BY <2>3 DEF Accepts
    <3>7. Abstract!Publish(t, pub)
      BY <2>1, <3>2, <3>4, <3>5, <3>6 DEF Abstract!Publish, Current
    <3>8. QED
      BY <3>1, <3>7 DEF Abstract!Next
  <2>4. QED
    BY <1>1, <2>2, <2>3, PublisherKeeps
<1>2. ASSUME UNCHANGED <<vars, sent>>
      PROVE  UNCHANGED <<sent, Current>>
  BY <1>2 DEF vars, pubHistory, Current, Indefinite
<1>3. ASSUME NEW m \in network, Deliver(m)
      PROVE  [Abstract!Next]_(Abstract!vars)
  <2> DEFINE payload == m.datagram.body.payload
             t == payload.topic
  <2>1. Tells(m, sent) /\ held \in [Topics -> 0..MaxPublishes]
    BY DEF FabricInv, NetworkTells, HeldType
  <2>2. t \in Topics /\ payload.pub \in sent[t]
    BY <2>1 DEF Tells
  <2>3. HeardOn(m) \subseteq {t}
    BY <2>1, HeardOnItsTopic
  <2>4. held' = [u \in Topics |-> IF u \in HeardOn(m) THEN payload.pub
                                                      ELSE held[u]]
    BY <1>3 DEF Deliver
  <2>5. UNCHANGED <<sent, Current>>
    BY <1>2, <1>3 DEF Deliver
  <2> HIDE DEF payload, t
  <2>6. CASE HeardOn(m) = {}
    <3>1. held' = held
      BY <2>1, <2>4, <2>6
    <3>2. QED
      BY <2>5, <3>1 DEF Abstract!vars, Current
  <2>7. CASE HeardOn(m) = {t}
    <3>1. held' = [held EXCEPT ![t] = payload.pub]
      BY <2>1, <2>4, <2>7
    <3>2. Abstract!Hear(t)
      BY <2>2, <2>5, <3>1 DEF Abstract!Hear, Current
    <3>3. QED
      BY <2>2, <3>2 DEF Abstract!Next
  <2>8. QED
    BY <2>3, <2>6, <2>7
<1>4. ASSUME NEW m \in network, Expire(m)
      PROVE  UNCHANGED Abstract!vars
  BY <1>2, <1>4 DEF Expire, Abstract!vars, Current
<1>5. CASE Restart
  <2>1. Abstract!Forget
    BY <1>2, <1>5 DEF Restart, Abstract!Forget, Current
  <2>2. QED
    BY <2>1 DEF Abstract!Next
<1>6. CASE UNCHANGED fabricVars
  BY <1>2, <1>6 DEF fabricVars, fabric, Abstract!vars, Current
<1>7. QED
  BY <1>1, <1>3, <1>4, <1>5, <1>6 DEF FabricNext

(***************************************************************************)
(* Publisher, network and listener implement LastValue when no two topics  *)
(* share a CRC32: whatever is lost, repeated, overtaken or encrypted,      *)
(* whenever the listener restarts, it holds only what publish() answered   *)
(* true for on that topic.                                                 *)
(***************************************************************************)
THEOREM FabricImplementsLastValue ==
  ASSUME CrcInjective
  PROVE  FabricSpec => ImplementsLastValue
<1>1. FabricInit => Init /\ FabricInv
  BY NodeAssumption DEF FabricInit, Init, FabricInv, TimersTell, OutTells,
                        NetworkTells, SentInv, HeldType
<1>2. FabricInit => Abstract!Init
  BY DEF FabricInit, Init, Abstract!Init, Indefinite
<1>3. [FabricNext]_fabricVars => [Next]_vars
  BY DEF FabricNext, PublisherStep, Deliver, Expire, Restart, fabricVars
<1>4. TypeOK /\ FabricInv /\ [FabricNext]_fabricVars => FabricInv'
  BY FabricStep
<1>5. TypeOK /\ FabricInv /\ [FabricNext]_fabricVars
        => [Abstract!Next]_(Abstract!vars)
  BY StepImplements
<1>6. Spec => []TypeOK
  BY TypeCorrect
<1>7. QED
  BY <1>1, <1>2, <1>3, <1>4, <1>5, <1>6, PTL
     DEF FabricSpec, Spec, ImplementsLastValue, Abstract!Spec
=============================================================================
