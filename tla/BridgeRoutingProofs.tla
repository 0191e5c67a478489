------------------------ MODULE BridgeRoutingProofs ------------------------
(***************************************************************************)
(* Proofs, for every value of the constants, of what the bridge puts on    *)
(* the wire and what it forwards: that the translation is opt-in, and that *)
(* the receive loop serves exactly the entries the YAML file asks for.     *)
(***************************************************************************)
EXTENDS BridgeProofs

-----------------------------------------------------------------------------
(***************************************************************************)
(* The inductive invariant, in parts.                                      *)
(***************************************************************************)

\* What ArrivalAssumption says of a datagram of another node.
Genuine(d) ==
  /\ d.body.payload.topic \in Topics
  /\ d.body.crc = topic_crc32[d.body.payload.topic]
  /\ d.header.enc_mode = "NONE" => d.header.topic_crc = d.body.crc

\* What the bridge itself may make, started with file y.
Own(y, d) == Genuine(d) /\ (~y.json_translation => d.header.encoding = "RAW")

\* Wherever a datagram of the bridge is kept, until it is read back.
PacketInv ==
  /\ handler # Idle => Own(yaml, handler.packet.datagram)
  /\ \A x \in chains \cup finite : Own(yaml, x.packet.datagram)
  /\ \A a \in loopback : Own(yaml, a.datagram)
  /\ out # Nothing => Own(yaml, out.packet.datagram)

\* The routing table holds the entries configured so far, and the receive
\* loop runs only once that is all of them.
RouteInv ==
  /\ \A c \in Crcs, i \in DOMAIN Entries :
       i \in crcToMQTT[c] <=>
         /\ i <= configured /\ Entries[i].direction = "mpubsub_to_mqtt"
         /\ topic_crc32[Entries[i].mpubsub_topic] = c
  /\ rx # "none" => config # NoConfig /\ configured = Len(Entries)
  /\ phase \in {"loading", "opening", "connecting", "configuring"} => rx = "none"
  /\ phase \in {"opening", "connecting", "configuring"} => config # NoConfig
  /\ rx = "none" => buf = Nothing

\* Without json_translation, what is routed is RAW.
RawInv ==
  ~yaml.json_translation /\ todo \cup forwarded # {} => buf.header.encoding = "RAW"

-----------------------------------------------------------------------------
(***************************************************************************)
(* What LoadConfig made of the entries.  An entry's schema is the one of   *)
(* the schemas with that id, which is the only one; without                *)
(* json_translation there is none.                                         *)
(***************************************************************************)
LEMMA SchemaResolved ==
  ASSUME NEW y \in Yamls, ~DefaultsRefuse(y), NEW i \in DOMAIN y.bridges
  PROVE  /\ y.bridges[i].schema = "" <=>
              Resolve(y, y.bridges[i].schema) = RawSchema
         /\ ~y.json_translation => y.bridges[i].schema = ""
         /\ y.bridges[i].schema # "" =>
              \A s : s = Resolve(y, y.bridges[i].schema) <=>
                       \E j \in DOMAIN y.schemas :
                         /\ y.schemas[j].id = y.bridges[i].schema
                         /\ y.schemas[j].schema_id = s
<1> DEFINE id == y.bridges[i].schema
           has(k) == y.schemas[k].id = id
           j0 == CHOOSE k \in DOMAIN y.schemas : has(k)
<1>1. ~y.json_translation => id = ""
  BY DEF DefaultsRefuse, TranslationRefused
<1>2. id = "" => Resolve(y, id) = RawSchema
  BY DEF Resolve
<1>3. y.schemas \in Seq(SchemaFiles)
  BY BridgeAssumption DEF YamlFiles
<1>4. /\ DOMAIN y.schemas = 1..Len(y.schemas) /\ Len(y.schemas) \in Nat
      /\ \A k \in DOMAIN y.schemas : y.schemas[k] \in SchemaFiles
  BY <1>3
<1>5. ASSUME id # ""
      PROVE  /\ Resolve(y, id) # RawSchema
             /\ \A s : s = Resolve(y, id) <=>
                         \E j \in DOMAIN y.schemas :
                           has(j) /\ y.schemas[j].schema_id = s
  <2>1. \E k \in DOMAIN y.schemas : has(k)
    BY <1>5 DEF DefaultsRefuse
  <2>2. j0 \in DOMAIN y.schemas /\ has(j0)
    BY <2>1
  <2>3. \A j, k \in DOMAIN y.schemas : has(j) /\ has(k) => ~(k < j)
    <3> SUFFICES ASSUME NEW j \in DOMAIN y.schemas, NEW k \in DOMAIN y.schemas,
                        has(j), has(k), k < j
                 PROVE  FALSE
      OBVIOUS
    <3>1. k \in 1..(j - 1) /\ y.schemas[k].id = y.schemas[j].id
      BY <1>4
    <3>2. QED
      BY <3>1 DEF DefaultsRefuse
  <2>4. \A j \in DOMAIN y.schemas : has(j) => j = j0
    BY <1>4, <2>2, <2>3
  <2>5. Resolve(y, id) = y.schemas[j0].schema_id
    BY <1>5 DEF Resolve
  <2> HIDE DEF j0
  <2>6. y.schemas[j0] \in SchemaFiles
    BY <1>4, <2>2
  <2>7. Resolve(y, id) # RawSchema
    BY <2>5, <2>6, BridgeAssumption DEF SchemaFiles
  <2> HIDE DEF has
  <2>8. QED
    BY <2>2, <2>4, <2>5, <2>7
<1>6. QED
  BY <1>1, <1>2, <1>5

(***************************************************************************)
(* The entries in force are the file's, with their schemas resolved: raw   *)
(* exactly where the file names none.                                      *)
(***************************************************************************)
LEMMA LoadedRoutes ==
  ASSUME RunType, ConfigInv, config # NoConfig
  PROVE  /\ yaml \in Yamls /\ ~DefaultsRefuse(yaml)
         /\ EncryptionKey = yaml.key
         /\ DOMAIN Entries = DOMAIN yaml.bridges
         /\ \A i \in DOMAIN Entries :
              /\ Entries[i].direction = yaml.bridges[i].direction
              /\ Entries[i].mpubsub_topic = yaml.bridges[i].mpubsub_topic
              /\ Entries[i].require_encryption = yaml.bridges[i].require_encryption
              /\ Entries[i].require_encryption \in BOOLEAN
              /\ Entries[i].schema = Resolve(yaml, yaml.bridges[i].schema)
<1>1. /\ config = applyDefaults(yaml) /\ ~LoadRefuses(yaml) /\ yaml \in Yamls
  BY DEF ConfigInv, RunType
<1>2. EncryptionKey = yaml.key
  BY <1>1, DefaultsKeep DEF EncryptionKey
<1>3. DOMAIN Entries = DOMAIN yaml.bridges
  BY <1>1, LoadedEntries DEF Entries
<1>4. \A i \in DOMAIN Entries :
        /\ Entries[i].direction = yaml.bridges[i].direction
        /\ Entries[i].mpubsub_topic = yaml.bridges[i].mpubsub_topic
        /\ Entries[i].require_encryption = yaml.bridges[i].require_encryption
        /\ Entries[i].schema = Resolve(yaml, yaml.bridges[i].schema)
        /\ yaml.bridges[i] \in EntryFiles
  BY <1>1, <1>3, LoadedEntries DEF Entries
<1>5. QED
  BY <1>1, <1>2, <1>3, <1>4 DEF LoadRefuses, EntryFiles

-----------------------------------------------------------------------------
(***************************************************************************)
(* The routing decision.  By the CRC, a datagram reaches the entries for   *)
(* its own topic, unless it is encrypted with another key.                 *)
(***************************************************************************)
LEMMA CrcOfGenuine ==
  ASSUME CrcInjective, NEW d, Genuine(d), NEW key, DecodeAccepts(d, key),
         NEW t \in Topics
  PROVE  topic_crc32[t] = TopicCRC(d, key) <=>
           t = d.body.payload.topic /\ (was_encrypted(d) => key = d.body.key)
<1>1. d.header.enc_mode \in {"XXTEA", "NONE"}
  BY DEF DecodeAccepts
<1>2. CASE d.header.enc_mode = "NONE"
  BY <1>2 DEF TopicCRC, was_encrypted, Genuine, CrcInjective
<1>3. CASE d.header.enc_mode = "XXTEA" /\ key = d.body.key
  BY <1>3 DEF TopicCRC, xxtea_decrypt, was_encrypted, Genuine, CrcInjective
<1>4. CASE d.header.enc_mode = "XXTEA" /\ key # d.body.key
  BY <1>4, WireAssumption DEF TopicCRC, xxtea_decrypt, was_encrypted
<1>5. QED
  BY <1>1, <1>2, <1>3, <1>4

(***************************************************************************)
(* Once the routing table is complete, looking up the CRC recovered from a *)
(* genuine datagram finds the entries that must forward it, and no other.  *)
(***************************************************************************)
LEMMA RoutesAreExact ==
  ASSUME CrcInjective, TypeOK, ConfigInv, RouteInv, rx # "none",
         NEW d, Genuine(d)
  PROVE  RoutesFor(d) =
           {i \in DOMAIN yaml.bridges : MustForward(yaml.bridges[i], d)}
<1>1. /\ RunType /\ config # NoConfig /\ configured = Len(Entries)
      /\ DOMAIN Entries = 1..Len(Entries) /\ Len(Entries) \in Nat
  BY EntriesShape DEF TypeOK, RouteInv
<1>2. /\ yaml \in Yamls /\ ~DefaultsRefuse(yaml) /\ EncryptionKey = yaml.key
      /\ DOMAIN Entries = DOMAIN yaml.bridges
  BY <1>1, LoadedRoutes
<1>3. ASSUME NEW i \in DOMAIN Entries
      PROVE  i \in RoutesFor(d) <=> MustForward(yaml.bridges[i], d)
  <2> DEFINE e == Entries[i]
             b == yaml.bridges[i]
  <2>1. /\ e.direction = b.direction /\ e.mpubsub_topic = b.mpubsub_topic
        /\ e.require_encryption = b.require_encryption
        /\ b.require_encryption \in BOOLEAN
        /\ e.schema = Resolve(yaml, b.schema)
    BY <1>1, LoadedRoutes
  <2>2. e.direction = "mpubsub_to_mqtt" => e.mpubsub_topic \in Topics
    BY <1>1, LoadedOptions
  <2>3. CASE ~DecodeAccepts(d, yaml.key)
    BY <1>2, <2>3 DEF RoutesFor, MustForward
  <2>4. CASE DecodeAccepts(d, yaml.key) /\ b.direction # "mpubsub_to_mqtt"
    BY <2>1, <2>4 DEF RoutesFor, MustForward, RouteInv
  <2>5. CASE DecodeAccepts(d, yaml.key) /\ b.direction = "mpubsub_to_mqtt"
    <3>1. b.mpubsub_topic \in Topics
      BY <2>1, <2>2, <2>5
    <3>2. (\E c \in Crcs : c = TopicCRC(d, yaml.key) /\ i \in crcToMQTT[c]) <=>
            topic_crc32[b.mpubsub_topic] = TopicCRC(d, yaml.key)
      BY <1>1, <2>1, <2>5, <3>1 DEF RouteInv, Crcs
    <3>3. i \in RoutesFor(d) <=>
            /\ b.mpubsub_topic = d.body.payload.topic
            /\ was_encrypted(d) => yaml.key = d.body.key
            /\ Forwards(e, d)
      BY <1>2, <2>5, <3>1, <3>2, CrcOfGenuine DEF RoutesFor
    <3>4. d.header.encoding \in Encodings
      BY <2>5 DEF DecodeAccepts
    <3>5. /\ b.schema = "" <=> e.schema = RawSchema
          /\ b.schema # "" =>
               (d.body.payload.schema = e.schema <=>
                  \E j \in DOMAIN yaml.schemas :
                    /\ yaml.schemas[j].id = b.schema
                    /\ yaml.schemas[j].schema_id = d.body.payload.schema)
      <4>1. /\ b.schema = "" <=> Resolve(yaml, b.schema) = RawSchema
            /\ b.schema # "" =>
                 \A s : s = Resolve(yaml, b.schema) <=>
                          \E j \in DOMAIN yaml.schemas :
                            /\ yaml.schemas[j].id = b.schema
                            /\ yaml.schemas[j].schema_id = s
        BY <1>2, SchemaResolved
      <4> HIDE DEF e, b
      <4>2. QED
        BY <2>1, <4>1
    <3> HIDE DEF e, b
    <3>6. Forwards(e, d) <=>
            /\ b.require_encryption => was_encrypted(d)
            /\ b.schema = "" <=> d.header.encoding = "RAW"
            /\ b.schema # "" =>
                 /\ d.body.payload.len >= 2 /\ d.body.payload.valid
                 /\ \E j \in DOMAIN yaml.schemas :
                      /\ yaml.schemas[j].id = b.schema
                      /\ yaml.schemas[j].schema_id = d.body.payload.schema
      BY <2>1, <3>4, <3>5 DEF Forwards, Encodings
    <3>7. MustForward(b, d) <=>
            /\ b.mpubsub_topic = d.body.payload.topic
            /\ was_encrypted(d) => yaml.key = d.body.key
            /\ Forwards(e, d)
      BY <2>1, <2>5, <3>6 DEF MustForward, b
    <3>8. QED
      BY <3>3, <3>7 DEF b
  <2>6. QED
    BY <2>3, <2>4, <2>5
<1>4. QED
  BY <1>2, <1>3 DEF RoutesFor

-----------------------------------------------------------------------------
(***************************************************************************)
(* What the bridge sends.  handleMQTTMessage encodes under the topic's     *)
(* CRC, and as protobuf only for an entry with a schema.                   *)
(***************************************************************************)
LEMMA EncodedIsOwn ==
  ASSUME TypeOK, ConfigInv, NEW i \in DOMAIN Entries, NEW m \in MqttMessages,
         handleMQTTMessage(i, m)
  PROVE  Own(yaml, handler'.packet.datagram)
<1> DEFINE e == Entries[i]
           t == MPubsubTopic(e, m)
           payload == [topic |-> t, pub |-> handled + 1, schema |-> e.schema,
                       len |-> IF e.schema # RawSchema THEN m.len + 2 ELSE m.len,
                       valid |-> TRUE]
           encoding == IF e.schema # RawSchema THEN "PROTOBUF" ELSE "RAW"
           d == EncodePacket(t, payload, encoding, EncryptionKey)
<1>1. handler'.packet.datagram = d
  BY DEF handleMQTTMessage
<1>2. RunType /\ config # NoConfig
  BY DEF TypeOK, Entries, NoConfig
<1>3. t \in Topics
  BY <1>2, EntriesShape, BridgeAssumption DEF MPubsubTopic
<1>4. payload.topic = t
  OBVIOUS
<1>5. ~yaml.json_translation => encoding = "RAW"
  BY <1>2, LoadedRoutes, SchemaResolved
<1> HIDE DEF t, payload, encoding
<1>6. /\ d.body.payload = payload /\ d.body.crc = topic_crc32[t]
      /\ d.header.encoding = encoding
      /\ d.header.enc_mode = "NONE" => d.header.topic_crc = topic_crc32[t]
  BY DEF EncodePacket, xxtea_encrypt
<1> HIDE DEF d
<1>7. QED
  BY <1>1, <1>3, <1>4, <1>5, <1>6 DEF Own, Genuine

(***************************************************************************)
(* Sending a packet of the bridge's own adds only such packets to what     *)
(* loops back and to what goes out.                                        *)
(***************************************************************************)
LEMMA SendToSendsOwn ==
  ASSUME NEW by, NEW x, NEW ok \in BOOLEAN, SendTo(by, x, ok),
         PacketInv, Own(yaml, x.packet.datagram)
  PROVE  /\ \A a \in loopback' : Own(yaml, a.datagram)
         /\ out' # Nothing => Own(yaml, out'.packet.datagram)
<1>1. \A a \in loopback' : a \in loopback \/ a = x.packet
  BY DEF SendTo
<1>2. out' # Nothing => out'.packet = x.packet
  BY DEF SendTo
<1>3. QED
  BY <1>1, <1>2 DEF PacketInv

(***************************************************************************)
(* Every step keeps the packets in the bridge's hands its own.             *)
(***************************************************************************)
LEMMA PacketStep ==
  ASSUME TypeOK, ConfigInv, PacketInv, [Next]_vars
  PROVE  PacketInv'
<1>1. ASSUME Quiet, UNCHANGED <<yaml, handler, chains, finite>>
      PROVE  PacketInv'
  BY <1>1 DEF PacketInv, Quiet
<1>2. CASE Load \/ NewBridge \/ Connect \/ Configure \/ StartReceiving \/ Signal
  BY <1>1, <1>2 DEF Load, NewBridge, Connect, Configure, StartReceiving, Signal,
                    setup, retransmits
<1>3. CASE Sweep \/ TearDown \/ ConnectionLost \/ Reconnect
  BY <1>1, <1>3 DEF Sweep, TearDown, ConnectionLost, Reconnect, run, setup,
                    retransmits
<1>4. CASE ReceiveLoop
  BY <1>1, <1>4 DEF ReceiveLoop, RxTop, RxReadError, RxPublish, run, setup,
                    retransmits
<1>5. CASE WriterWrite \/ \E a \in Arrivals \cup loopback : RxRead(a)
  <2>1. /\ out' = Nothing /\ loopback' \subseteq loopback
        /\ UNCHANGED <<yaml, handler, chains, finite>>
    BY <1>5 DEF RxRead, WriterWrite, run, setup, retransmits
  <2>2. QED
    BY <2>1 DEF PacketInv
<1>6. CASE UNCHANGED vars
  BY <1>6 DEF PacketInv, vars, run, setup, retransmits
<1>7. ASSUME NEW i \in DOMAIN Entries, NEW m \in MqttMessages,
             handleMQTTMessage(i, m)
      PROVE  PacketInv'
  <2>1. Own(yaml, handler'.packet.datagram)
    BY <1>7, EncodedIsOwn
  <2>2. /\ out' = Nothing
        /\ UNCHANGED <<yaml, chains, finite, loopback>>
    BY <1>7 DEF handleMQTTMessage, Quiet, run, setup
  <2>3. QED
    BY <2>1, <2>2 DEF PacketInv
<1>8. CASE HandlerSend
  <2>1. handler # Idle /\ HandlerType
    BY <1>8 DEF HandlerSend, Idle, TypeOK
  <2>2. PICK ok \in BOOLEAN : SendTo("handler", handler, ok)
    BY <1>8 DEF HandlerSend
  <2>3. /\ \A a \in loopback' : Own(yaml, a.datagram)
        /\ out' # Nothing => Own(yaml, out'.packet.datagram)
    BY <2>1, <2>2, SendToSendsOwn DEF PacketInv
  <2>4. handler' # Idle => handler'.packet = handler.packet
    BY <1>8, <2>1 DEF HandlerSend, HandlerType
  <2>5. UNCHANGED <<yaml, chains, finite>>
    BY <1>8 DEF HandlerSend, run, setup, retransmits
  <2>6. QED
    BY <2>1, <2>3, <2>4, <2>5 DEF PacketInv
<1>9. CASE startIndefinite \/ scheduleFiniteRetransmits
  <2>1. handler # Idle
    BY <1>9 DEF startIndefinite, scheduleFiniteRetransmits, Idle
  <2>2. /\ handler' = Idle /\ out' = Nothing /\ UNCHANGED <<yaml, loopback>>
    BY <1>9 DEF startIndefinite, scheduleFiniteRetransmits, Quiet, run, setup
  <2>3. \A x \in chains' : x \in chains \/ x.packet = handler.packet
    BY <1>9 DEF startIndefinite, scheduleFiniteRetransmits
  <2>4. \A x \in finite' : x \in finite \/ x.packet = handler.packet
    BY <1>9 DEF startIndefinite, scheduleFiniteRetransmits
  <2>5. QED
    BY <2>1, <2>2, <2>3, <2>4 DEF PacketInv
<1>10. ASSUME NEW x \in chains, Chain(x)
       PROVE  PacketInv'
  <2>1. x \in [at : {"select", "send"}, topic : Topics, pub : Messages,
               packet : {x.packet}]
    BY DEF TypeOK, RetransmitType
  <2>2. \A y \in chains' : y \in chains \/ y.packet = x.packet
    BY <1>10, <2>1 DEF Chain, ChainTick, ChainSend, ChainExit
  <2>3. /\ UNCHANGED <<yaml, handler, finite>>
        /\ Quiet \/ \E ok \in BOOLEAN : SendTo("chain", x, ok)
    BY <1>10 DEF Chain, ChainTick, ChainSend, ChainExit, run, setup
  <2>4. /\ \A a \in loopback' : Own(yaml, a.datagram)
        /\ out' # Nothing => Own(yaml, out'.packet.datagram)
    BY <2>3, SendToSendsOwn DEF PacketInv, Quiet
  <2>5. QED
    BY <2>2, <2>3, <2>4 DEF PacketInv
<1>11. ASSUME NEW x \in finite, FiniteSend(x)
       PROVE  PacketInv'
  <2>1. x \in [pub : Messages, i : 1..(x.count - 1), count : Counts,
               packet : {x.packet}]
    BY DEF TypeOK, RetransmitType
  <2>2. \A y \in finite' : y \in finite \/ y.packet = x.packet
    <3>1. \A y \in finite' : y \in finite \/ y = [x EXCEPT !.i = x.i + 1]
      BY <1>11 DEF FiniteSend
    <3>2. QED
      BY <2>1, <3>1
  <2>3. PICK ok \in BOOLEAN : SendTo("finite", x, ok)
    BY <1>11 DEF FiniteSend
  <2>4. /\ \A a \in loopback' : Own(yaml, a.datagram)
        /\ out' # Nothing => Own(yaml, out'.packet.datagram)
    BY <2>3, SendToSendsOwn DEF PacketInv
  <2>5. UNCHANGED <<yaml, handler, chains>>
    BY <1>11 DEF FiniteSend, run, setup
  <2>6. QED
    BY <2>2, <2>4, <2>5 DEF PacketInv
<1>12. QED
  BY <1>2, <1>3, <1>4, <1>5, <1>6, <1>7, <1>8, <1>9, <1>10, <1>11
     DEF Next, RunStep, Handler

-----------------------------------------------------------------------------
(***************************************************************************)
(* The receive loop.  What it depends on does not change any more once it  *)
(* runs, and only its own steps change what it has to do.                  *)
(***************************************************************************)
LEMMA ReceiverSteps ==
  ASSUME TypeOK, [Next]_vars
  PROVE  \/ Load \/ Configure \/ StartReceiving
         \/ \E i \in DOMAIN Entries : RxPublish(i)
         \/ \E a \in Arrivals \cup loopback : RxRead(a)
         \/ /\ UNCHANGED <<setup, configured, crcToMQTT, todo, buf, forwarded>>
            /\ rx' = rx \/ (rx # "none" /\ rx' # "none")
            /\ \/ phase' = phase
               \/ phase \in {"opening", "connecting"}
               \/ phase' \notin {"loading", "opening", "connecting", "configuring"}
<1>1. CASE NewBridge \/ Connect \/ Signal
  BY <1>1 DEF NewBridge, Connect, Signal, setup, routes, receiver
<1>2. CASE Sweep \/ TearDown
  BY <1>2 DEF Sweep, TearDown, setup, routes, receiver
<1>3. CASE ConnectionLost \/ Reconnect
  BY <1>3 DEF ConnectionLost, Reconnect, run, setup, routes, receiver
<1>4. CASE \E i \in DOMAIN Entries, m \in MqttMessages : handleMQTTMessage(i, m)
  BY <1>4 DEF handleMQTTMessage, run, setup, routes, receiver
<1>5. CASE HandlerSend
  BY <1>5 DEF HandlerSend, run, setup, routes, receiver
<1>6. CASE startIndefinite \/ scheduleFiniteRetransmits
  BY <1>6 DEF startIndefinite, scheduleFiniteRetransmits, run, setup, routes, receiver
<1>7. CASE \E x \in chains : Chain(x)
  BY <1>7 DEF Chain, ChainTick, ChainSend, ChainExit, run, setup, routes, receiver
<1>8. CASE \E x \in finite : FiniteSend(x)
  BY <1>8 DEF FiniteSend, run, setup, routes, receiver
<1>9. CASE RxTop \/ RxReadError
  BY <1>9 DEF RxTop, RxReadError, run, setup, routes
<1>10. CASE WriterWrite
  BY <1>10 DEF WriterWrite, run, setup, routes, receiver
<1>11. CASE UNCHANGED vars
  BY <1>11 DEF vars, run, setup, routes, receiver
<1>12. QED
  BY <1>1, <1>2, <1>3, <1>4, <1>5, <1>6, <1>7, <1>8, <1>9, <1>10, <1>11
     DEF Next, RunStep, Handler, ReceiveLoop

(***************************************************************************)
(* Every step keeps the routing table equal to the entries configured so   *)
(* far, and receiving begins only when that is all of them.                *)
(***************************************************************************)
LEMMA RouteStep ==
  ASSUME TypeOK, ConfigInv, RouteInv, [Next]_vars
  PROVE  RouteInv'
<1>1. CASE Load
  <2>1. /\ config = NoConfig /\ Entries = <<>> /\ rx = "none"
    BY <1>1 DEF Load, ConfigInv, Entries, NoConfig, RouteInv
  <2>2. configured = 0 /\ \A c \in Crcs : crcToMQTT[c] = {}
    BY <2>1 DEF TypeOK, RunType, ClientType
  <2>3. UNCHANGED <<configured, crcToMQTT, rx, buf>>
    BY <1>1 DEF Load, routes, receiver
  <2>4. RunType' /\ DOMAIN Entries' = 1..Len(Entries') /\ Len(Entries') \in Nat
    <3>1. TypeOK'
      BY TypeStep
    <3>2. CASE config' = NoConfig
      BY <3>1, <3>2 DEF TypeOK, Entries, NoConfig
    <3>3. CASE config' = applyDefaults(yaml)
      BY <1>1, <3>1, <3>3, LoadedEntries DEF TypeOK, RunType, Entries, Load
    <3>4. QED
      BY <1>1, <2>1, <3>2, <3>3 DEF Load
  <2>5. \A i \in DOMAIN Entries' : ~(i <= 0)
    BY <2>4
  <2>6. phase' = "opening" => config' # NoConfig
    <3>1. phase' = "opening" => validate(config')
      BY <1>1 DEF Load, LoadRefuses
    <3>2. NoConfig.bridges = <<>>
      BY DEF NoConfig
    <3>3. QED
      BY <3>1, <3>2 DEF validate
  <2>7. phase' \in {"opening", "failed"}
    BY <1>1 DEF Load
  <2>8. QED
    BY <2>1, <2>2, <2>3, <2>5, <2>6, <2>7 DEF RouteInv
<1>2. CASE Configure
  <2> DEFINE i == configured + 1
             e == Entries[i]
  <2>1. /\ UNCHANGED <<config, rx, buf>> /\ Entries' = Entries
        /\ rx = "none" /\ config # NoConfig
    BY <1>2 DEF Configure, setup, receiver, Entries, RouteInv
  <2>2. /\ configured \in Nat /\ i \in DOMAIN Entries
        /\ \A j \in DOMAIN Entries : j \in Nat
    BY <1>2, EntriesShape DEF Configure, TypeOK, RunType
  <2>3. CASE UNCHANGED <<configured, crcToMQTT>>
    BY <2>1, <2>3 DEF RouteInv
  <2>4. CASE /\ e.direction # "mpubsub_to_mqtt" /\ configured' = i
             /\ UNCHANGED crcToMQTT
    <3>1. \A j \in DOMAIN Entries : j <= i <=> j <= configured \/ j = i
      BY <2>2
    <3>2. QED
      BY <2>1, <2>4, <3>1 DEF RouteInv
  <2>5. CASE /\ e.direction = "mpubsub_to_mqtt" /\ configured' = i
             /\ crcToMQTT' = [crcToMQTT EXCEPT
                                ![topic_crc32[e.mpubsub_topic]] = @ \cup {i}]
    <3>1. \A j \in DOMAIN Entries : j <= i <=> j <= configured \/ j = i
      BY <2>2
    <3>2. \A c \in Crcs : crcToMQTT'[c] =
            IF c = topic_crc32[e.mpubsub_topic] THEN crcToMQTT[c] \cup {i}
                                                ELSE crcToMQTT[c]
      BY <2>5 DEF TypeOK, ClientType
    <3> HIDE DEF i
    <3>3. QED
      BY <2>1, <2>5, <3>1, <3>2 DEF RouteInv
  <2>6. QED
    BY <1>2, <2>3, <2>4, <2>5 DEF Configure, routes
<1>3. CASE StartReceiving
  <2>1. /\ UNCHANGED <<config, configured, crcToMQTT>> /\ Entries' = Entries
        /\ rx' = "top" /\ phase' = "running"
        /\ config # NoConfig /\ configured = Len(Entries)
    BY <1>3 DEF StartReceiving, setup, routes, Entries, RouteInv
  <2>2. QED
    BY <2>1 DEF RouteInv
<1>4. CASE (\E i \in DOMAIN Entries : RxPublish(i)) \/
           \E a \in Arrivals \cup loopback : RxRead(a)
  <2>1. /\ UNCHANGED <<config, phase, configured, crcToMQTT>> /\ Entries' = Entries
        /\ rx # "none" /\ rx' # "none"
    BY <1>4 DEF RxPublish, RxRead, run, setup, routes, Entries
  <2>2. QED
    BY <2>1 DEF RouteInv
<1>5. CASE /\ UNCHANGED <<setup, configured, crcToMQTT, todo, buf, forwarded>>
           /\ rx' = rx \/ (rx # "none" /\ rx' # "none")
           /\ \/ phase' = phase
              \/ phase \in {"opening", "connecting"}
              \/ phase' \notin {"loading", "opening", "connecting", "configuring"}
  BY <1>5 DEF RouteInv, setup, Entries
<1>6. QED
  BY <1>1, <1>2, <1>3, <1>4, <1>5, ReceiverSteps

-----------------------------------------------------------------------------
(***************************************************************************)
(* Without json_translation no entry has a schema, so only RAW is routed.  *)
(***************************************************************************)
LEMMA RawStep ==
  ASSUME TypeOK, ConfigInv, RawInv, [Next]_vars
  PROVE  RawInv'
<1>1. CASE Load \/ Configure \/ StartReceiving
  BY <1>1 DEF Load, Configure, StartReceiving, setup, receiver, RawInv
<1>2. ASSUME NEW i \in DOMAIN Entries, RxPublish(i)
      PROVE  RawInv'
  <2>1. /\ todo' \cup forwarded' = todo \cup forwarded /\ UNCHANGED <<yaml, buf>>
    BY <1>2 DEF RxPublish, run, setup
  <2>2. QED
    BY <2>1 DEF RawInv
<1>3. ASSUME NEW a \in Arrivals \cup loopback, RxRead(a)
      PROVE  RawInv'
  <2>1. todo' = RoutesFor(buf') /\ forwarded' = {} /\ yaml' = yaml
    BY <1>3 DEF RxRead, run, setup
  <2>2. ASSUME ~yaml.json_translation, NEW i \in RoutesFor(buf')
        PROVE  buf'.header.encoding = "RAW"
    <3>1. RunType /\ i \in DOMAIN Entries /\ config # NoConfig
      BY <2>2 DEF TypeOK, RoutesFor, Entries, NoConfig
    <3>2. Entries[i].schema = RawSchema
      BY <2>2, <3>1, LoadedRoutes, SchemaResolved
    <3>3. QED
      BY <2>2, <3>2 DEF RoutesFor, Forwards
  <2>3. QED
    BY <2>1, <2>2 DEF RawInv
<1>4. CASE UNCHANGED <<setup, todo, buf, forwarded>>
  BY <1>4 DEF RawInv, setup
<1>5. QED
  BY <1>1, <1>2, <1>3, <1>4, ReceiverSteps

(***************************************************************************)
(* A bridge whose file does not turn json_translation on never sends or    *)
(* forwards anything but RAW, whatever other nodes send it: "keeps the     *)
(* feature opt-in", says config.go.                                        *)
(***************************************************************************)
THEOREM OptInCorrect == Spec => []TranslationIsOptIn
<1>1. Init => PacketInv /\ RawInv
  BY DEF Init, PacketInv, RawInv
<1>2. TypeOK /\ ConfigInv /\ PacketInv /\ RawInv /\ [Next]_vars => PacketInv' /\ RawInv'
  BY PacketStep, RawStep
<1>3. PacketInv /\ RawInv => TranslationIsOptIn
  BY DEF PacketInv, RawInv, TranslationIsOptIn, Own
<1>4. QED
  BY <1>1, <1>2, <1>3, TypeCorrect, PTL DEF Spec

(***************************************************************************)
(* Every datagram read is genuine, a reflected one included, so it is      *)
(* given exactly the entries it must go to, and each is served once.       *)
(***************************************************************************)
LEMMA ForwardStep ==
  ASSUME CrcInjective, TypeOK, ConfigInv, PacketInv, RouteInv, ForwardsExactly,
         [Next]_vars
  PROVE  ForwardsExactly'
<1> DEFINE Due(d) == {i \in DOMAIN yaml.bridges : MustForward(yaml.bridges[i], d)}
<1>1. ASSUME UNCHANGED <<yaml, buf>>, todo' \cup forwarded' = todo \cup forwarded,
             buf # Nothing => todo' \cap forwarded' = {}
      PROVE  ForwardsExactly'
  BY <1>1 DEF ForwardsExactly, MustForward
<1>2. CASE Load \/ Configure \/ StartReceiving
  BY <1>1, <1>2 DEF Load, Configure, StartReceiving, setup, receiver, ForwardsExactly
<1>3. ASSUME NEW i \in DOMAIN Entries, RxPublish(i)
      PROVE  ForwardsExactly'
  <2>1. /\ todo' = todo \ {i} /\ forwarded' = forwarded \cup {i} /\ i \in todo
        /\ UNCHANGED <<yaml, buf>>
    BY <1>3 DEF RxPublish, run, setup
  <2>2. QED
    BY <1>1, <2>1 DEF ForwardsExactly
<1>4. ASSUME NEW a \in Arrivals \cup loopback, RxRead(a)
      PROVE  ForwardsExactly'
  <2>1. /\ buf' = ReadInto(a.datagram) /\ todo' = RoutesFor(buf')
        /\ forwarded' = {} /\ yaml' = yaml /\ rx = "read"
    BY <1>4 DEF RxRead, run, setup
  <2>2. Genuine(a.datagram)
    BY ArrivalAssumption DEF Genuine, PacketInv, Own
  <2>3. Genuine(ReadInto(a.datagram))
    BY <2>2 DEF Genuine, ReadInto
  <2>4. RoutesFor(ReadInto(a.datagram)) = Due(ReadInto(a.datagram))
    BY <2>1, <2>3, RoutesAreExact
  <2>5. \A b, d : MustForward(b, d)' <=> MustForward(b, d)
    BY <2>1 DEF MustForward
  <2>6. QED
    BY <2>1, <2>4, <2>5 DEF ForwardsExactly
<1>5. CASE UNCHANGED <<setup, todo, buf, forwarded>>
  BY <1>1, <1>5 DEF setup, ForwardsExactly
<1>6. QED
  BY <1>2, <1>3, <1>4, <1>5, ReceiverSteps

(***************************************************************************)
(* As long as no two topics share a CRC32, the receive loop serves of      *)
(* every datagram, its own reflected ones included, exactly the entries    *)
(* the YAML file describes: for the datagram's own topic, its encoding and *)
(* its schema, readable with the bridge's key and encrypted if demanded.   *)
(***************************************************************************)
THEOREM RoutingCorrect ==
  ASSUME CrcInjective
  PROVE  Spec => []ForwardsExactly
<1>1. Init => PacketInv /\ RouteInv /\ ForwardsExactly
  <2> SUFFICES ASSUME Init PROVE PacketInv /\ RouteInv /\ ForwardsExactly
    OBVIOUS
  <2>1. Entries = <<>> /\ buf = Nothing /\ rx = "none" /\ phase = "loading"
    BY DEF Init, Entries, NoConfig
  <2>2. QED
    BY <2>1 DEF Init, PacketInv, RouteInv, ForwardsExactly
<1>2. TypeOK /\ ConfigInv /\ PacketInv /\ RouteInv /\ ForwardsExactly /\ [Next]_vars
        => PacketInv' /\ RouteInv' /\ ForwardsExactly'
  BY PacketStep, RouteStep, ForwardStep
<1>3. QED
  BY <1>1, <1>2, TypeCorrect, PTL DEF Spec

=============================================================================
