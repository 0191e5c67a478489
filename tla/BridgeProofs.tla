---------------------------- MODULE BridgeProofs ----------------------------
(***************************************************************************)
(* Proofs, for every value of the constants, of the safety properties of   *)
(* the bridge daemon: types; the chains, their channels and the jobs map;  *)
(* the finite retransmissions; the pace of the chains.                     *)
(***************************************************************************)
EXTENDS BridgeProperties, WireFormatProofs

-----------------------------------------------------------------------------
(***************************************************************************)
(* The inductive invariant, in parts.                                      *)
(***************************************************************************)

\* A configuration that is in use passed LoadConfig; none is before Load.
ConfigInv ==
  /\ config # NoConfig => config = applyDefaults(yaml) /\ ~LoadRefuses(yaml)
  /\ phase = "loading" => config = NoConfig

\* Messages are numbered; the handler works on the newest, whose topic has
\* no chain yet.
HandlerInv ==
  handler # Idle =>
    /\ handler.pub = handled /\ newest[handler.topic] = handled
    /\ indefiniteJobs[handler.topic] = NoChan
    /\ handled \notin closed

NumberInv ==
  /\ \A t \in Topics : newest[t] <= handled
  /\ \A t, u \in Topics : newest[t] = newest[u] => t = u \/ newest[t] = 0
  /\ \A c \in closed : c <= handled
  /\ \A t \in Topics : indefiniteJobs[t] # NoChan => indefiniteJobs[t] = newest[t]

\* The jobs map, the closed channels and the goroutines mirror each other.
ChainInv ==
  /\ NoOrphanChain
  /\ \A t \in Topics : indefiniteJobs[t] \notin closed
  /\ Alive => \A t \in Topics : indefiniteJobs[t] # NoChan =>
                \E x \in chains : x.pub = indefiniteJobs[t]

\* A finite goroutine has made as many sends as were counted, its message
\* has no other, and a message without one is done with.
FiniteInv ==
  /\ \A p \in Messages : p > handled => count_of[p] = 0
  /\ handler # Idle /\ handler.at = "send" => count_of[handler.pub] = 0
  /\ handler # Idle /\ handler.at = "schedule" =>
       /\ count_of[handler.pub] = handler.count /\ emitted[handler.pub] = 1
       /\ handler.pub \notin broken /\ \A x \in finite : x.pub # handler.pub
  /\ \A x \in finite :
       /\ x.count = count_of[x.pub] /\ x.i = emitted[x.pub]
       /\ x.pub \notin broken
       /\ \A y \in finite : y.pub = x.pub => y = x
  /\ \A p \in broken : count_of[p] # 0
  /\ \A p \in Messages :
       \/ count_of[p] = 0
       \/ \E x \in finite : x.pub = p
       \/ handler # Idle /\ handler.at = "schedule" /\ handler.pub = p
       \/ count_of[p] = -1 /\ emitted[p] = 1
       \/ p \in broken /\ emitted[p] < count_of[p]
       \/ p \notin broken /\ emitted[p] = count_of[p]

\* Without promote_qos, what is or will be indefinite has its delay.
PacedInv ==
  ~yaml.promote_qos =>
    /\ phase # "panicked"
    /\ (\/ \E t \in Topics : indefiniteJobs[t] # NoChan
        \/ handler # Idle /\ handler.count = -1) => RetransmitDelay >= 1000

-----------------------------------------------------------------------------
(***************************************************************************)
(* LoadConfig.  The defaults keep the shape of the file: the options       *)
(* without default, and the number and topics of the entries.              *)
(***************************************************************************)
LEMMA DefaultsKeep ==
  ASSUME NEW y \in Yamls
  PROVE  /\ applyDefaults(y).promote_qos = y.promote_qos
         /\ applyDefaults(y).key = y.key
         /\ applyDefaults(y).count = IF y.count = 0 THEN 1 ELSE y.count
         /\ applyDefaults(y).delay = IF y.delay = <<>> THEN 100 ELSE y.delay[1]
         /\ applyDefaults(y).bridges = ResolveEntries(y)
<1>1. y \in YamlFiles(y.key)
  BY BridgeAssumption
<1>2. /\ applyDefaults(y).promote_qos = y.promote_qos
      /\ applyDefaults(y).key = y.key
  BY <1>1 DEF applyDefaults, YamlFiles
<1>3. applyDefaults(y).count = IF y.count = 0 THEN 1 ELSE y.count
  BY <1>1 DEF applyDefaults, YamlFiles
<1>4. applyDefaults(y).delay = IF y.delay = <<>> THEN 100 ELSE y.delay[1]
  BY <1>1 DEF applyDefaults, YamlFiles
<1>5. applyDefaults(y).bridges = ResolveEntries(y)
  BY <1>1 DEF applyDefaults, YamlFiles
<1>6. QED
  BY <1>2, <1>3, <1>4, <1>5

(***************************************************************************)
(* The loaded entries are the file's, in their order, but for the schema.  *)
(***************************************************************************)
LEMMA LoadedEntries ==
  ASSUME NEW y \in Yamls
  PROVE  /\ DOMAIN applyDefaults(y).bridges = 1..Len(applyDefaults(y).bridges)
         /\ Len(applyDefaults(y).bridges) \in Nat
         /\ DOMAIN applyDefaults(y).bridges = DOMAIN y.bridges
         /\ \A i \in DOMAIN y.bridges :
              LET e == applyDefaults(y).bridges[i]
                  b == y.bridges[i]
              IN  /\ e.direction = b.direction /\ e.mqtt_topic = b.mqtt_topic
                  /\ e.mpubsub_topic = b.mpubsub_topic
                  /\ e.require_encryption = b.require_encryption
                  /\ e.schema = Resolve(y, b.schema)
                  /\ b \in EntryFiles
<1>1. y.bridges \in Seq(EntryFiles)
  BY BridgeAssumption DEF YamlFiles
<1> DEFINE bs == y.bridges
           es == ResolveEntries(y)
<1>2. applyDefaults(y).bridges = es
  BY DefaultsKeep
<1>3. DOMAIN es = 1..Len(bs) /\ Len(bs) \in Nat /\ DOMAIN bs = 1..Len(bs)
  BY <1>1 DEF ResolveEntries
<1>4. \A i \in DOMAIN bs : bs[i] \in EntryFiles
  BY <1>1
<1>5. Len(es) = Len(bs)
  BY <1>3 DEF ResolveEntries
<1>6. \A i \in DOMAIN bs :
        /\ es[i].direction = bs[i].direction /\ es[i].mqtt_topic = bs[i].mqtt_topic
        /\ es[i].mpubsub_topic = bs[i].mpubsub_topic
        /\ es[i].require_encryption = bs[i].require_encryption
        /\ es[i].schema = Resolve(y, bs[i].schema)
  BY <1>4 DEF EntryFiles, ResolveEntries
<1> HIDE DEF es
<1>7. QED
  BY <1>2, <1>3, <1>4, <1>5, <1>6

(***************************************************************************)
(* The entries in use are a sequence; their topics are topics or left out. *)
(***************************************************************************)
LEMMA EntriesShape ==
  ASSUME RunType
  PROVE  /\ Len(Entries) \in Nat /\ DOMAIN Entries = 1..Len(Entries)
         /\ \A i \in DOMAIN Entries :
              Entries[i].mpubsub_topic \in Topics \cup {NoTopic}
<1>1. CASE config = NoConfig
  <2>1. Entries = <<>>
    BY <1>1 DEF Entries, NoConfig
  <2>2. QED
    BY <2>1
<1>2. CASE config = applyDefaults(yaml)
  <2>1. yaml \in Yamls
    BY DEF RunType
  <2>2. \A i \in DOMAIN yaml.bridges :
          applyDefaults(yaml).bridges[i].mpubsub_topic \in Topics \cup {NoTopic}
    BY <2>1, LoadedEntries DEF EntryFiles
  <2>3. QED
    BY <1>2, <2>1, <2>2, LoadedEntries DEF Entries
<1>3. QED
  BY <1>1, <1>2 DEF RunType

(***************************************************************************)
(* Once there are entries, the options in use have passed validate().      *)
(***************************************************************************)
LEMMA LoadedOptions ==
  ASSUME RunType, ConfigInv, NEW i \in DOMAIN Entries
  PROVE  /\ config = applyDefaults(yaml) /\ ~LoadRefuses(yaml)
         /\ RetransmitCount \in Counts
         /\ RetransmitCount = -1 => RetransmitDelay >= 1000
         /\ PromoteQoS = yaml.promote_qos /\ PromoteQoS \in BOOLEAN
         /\ Entries[i].direction = "mpubsub_to_mqtt" =>
              Entries[i].mpubsub_topic \in Topics
<1>1. config # NoConfig
  BY DEF Entries, NoConfig
<1>2. config = applyDefaults(yaml) /\ ~LoadRefuses(yaml) /\ yaml \in Yamls
  BY <1>1 DEF ConfigInv, RunType
<1>3. validate(config)
  BY <1>2 DEF LoadRefuses
<1>4. /\ RetransmitCount \in Counts
      /\ RetransmitCount = -1 => RetransmitDelay >= 1000
  BY <1>3 DEF validate, ValidRetransmits, Counts, RetransmitCount, RetransmitDelay
<1>5. PromoteQoS = yaml.promote_qos /\ PromoteQoS \in BOOLEAN
  BY <1>2, DefaultsKeep, BridgeAssumption DEF PromoteQoS, YamlFiles
<1>6. Entries[i].direction = "mpubsub_to_mqtt" => Entries[i].mpubsub_topic # NoTopic
  BY <1>3 DEF validate, Entries
<1>7. QED
  BY <1>2, <1>4, <1>5, <1>6, EntriesShape

(***************************************************************************)
(* effectiveRetransmitCount answers a legal count; without promote_qos it  *)
(* is the configured one.                                                  *)
(***************************************************************************)
LEMMA EffectiveCount ==
  ASSUME RunType, ConfigInv, NEW i \in DOMAIN Entries, NEW q \in 0..2
  PROVE  /\ effectiveRetransmitCount(q) \in Counts
         /\ ~PromoteQoS => effectiveRetransmitCount(q) = RetransmitCount
<1>1. RetransmitCount \in Counts /\ PromoteQoS \in BOOLEAN
  BY LoadedOptions
<1>2. CASE ~PromoteQoS
  BY <1>1, <1>2 DEF effectiveRetransmitCount
<1>3. CASE PromoteQoS /\ q = 0
  BY <1>1, <1>3 DEF effectiveRetransmitCount
<1>4. CASE PromoteQoS /\ q = 1
  BY <1>1, <1>4 DEF effectiveRetransmitCount, Counts
<1>5. CASE PromoteQoS /\ q = 2
  BY <1>1, <1>5 DEF effectiveRetransmitCount, Counts
<1>6. QED
  BY <1>1, <1>2, <1>3, <1>4, <1>5

-----------------------------------------------------------------------------
(***************************************************************************)
(* Type correctness.  A step that changes no more than where main and the  *)
(* goroutines are keeps the parts about everything else.                   *)
(***************************************************************************)
LEMMA KeptTypes ==
  ASSUME TypeOK, UNCHANGED setup
  PROVE  /\ Entries' = Entries
         /\ UNCHANGED <<connected, subs, backlog, routes>> => ClientType'
         /\ UNCHANGED handler => HandlerType'
         /\ UNCHANGED retransmits => RetransmitType'
         /\ UNCHANGED <<receiver, writer>> => ReceiverType'
         /\ UNCHANGED history => HistoryType'
         /\ UNCHANGED <<phase, ctx_done, configured>> => RunType'
<1>1. Entries' = Entries
  BY DEF setup, Entries
<1>2. UNCHANGED <<connected, subs, backlog, routes>> => ClientType'
  BY <1>1 DEF TypeOK, ClientType, routes
<1>3. UNCHANGED handler => HandlerType'
  BY DEF TypeOK, HandlerType
<1>4. UNCHANGED retransmits => RetransmitType'
  BY DEF TypeOK, RetransmitType, retransmits
<1>5. UNCHANGED <<receiver, writer>> => ReceiverType'
  BY <1>1 DEF TypeOK, ReceiverType, receiver
<1>6. UNCHANGED history => HistoryType'
  BY DEF TypeOK, HistoryType, history
<1>7. UNCHANGED <<phase, ctx_done, configured>> => RunType'
  BY <1>1 DEF TypeOK, RunType, setup
<1>8. QED
  BY <1>1, <1>2, <1>3, <1>4, <1>5, <1>6, <1>7

(***************************************************************************)
(* The configuration in use, and the types, are kept by every step.        *)
(***************************************************************************)
LEMMA TypeStep ==
  ASSUME TypeOK, ConfigInv, [Next]_vars
  PROVE  TypeOK' /\ ConfigInv'
<1> USE DEF TypeOK
<1>1. CASE Load
  <2>1. config = NoConfig /\ Entries = <<>>
    BY <1>1 DEF Load, ConfigInv, Entries, NoConfig
  <2>2. yaml' = yaml /\ yaml \in Yamls /\ configured' = configured
    BY <1>1 DEF Load, RunType
  <2>3. configured = 0 /\ subs = {} /\ backlog = {} /\ todo = {} /\ forwarded = {} /\ writer = Nothing
        /\ \A c \in Crcs : crcToMQTT[c] = {}
    BY <2>1 DEF RunType, ClientType, ReceiverType
  <2>4. config' \in {NoConfig, applyDefaults(yaml)} /\ phase' \in Phases
        /\ ctx_done' = ctx_done
    BY <1>1, <2>1 DEF Load, Phases
  <2>5. Len(Entries') \in Nat
    <3>1. CASE config' = NoConfig
      BY <3>1 DEF Entries, NoConfig
    <3>2. CASE config' = applyDefaults(yaml)
      BY <2>2, <3>2, LoadedEntries DEF Entries
    <3>3. QED
      BY <2>4, <3>1, <3>2
  <2>6. RunType'
    BY <2>2, <2>3, <2>4, <2>5 DEF RunType
  <2>7. ClientType'
    BY <1>1, <2>3 DEF Load, ClientType, client, routes
  <2>8. ReceiverType'
    BY <1>1, <2>3 DEF Load, ReceiverType, receiver
  <2>9. HandlerType' /\ RetransmitType' /\ HistoryType'
    BY <1>1 DEF Load, HandlerType, RetransmitType, HistoryType, retransmits, history
  <2>10. ConfigInv'
    BY <1>1, <2>1 DEF Load, ConfigInv
  <2>11. QED
    BY <2>6, <2>7, <2>8, <2>9, <2>10
<1>2. CASE UNCHANGED vars
  BY <1>2, KeptTypes DEF vars, run, setup, client, receiver, ConfigInv
<1>3. ASSUME UNCHANGED setup, phase' # "loading" \/ phase' = phase
      PROVE  ConfigInv'
  BY <1>3 DEF ConfigInv, setup
<1>4. CASE NewBridge \/ Signal
  <2>1. UNCHANGED setup /\ phase' # "loading"
    BY <1>4 DEF NewBridge, Signal
  <2>2. RunType'
    BY <1>4, <2>1, KeptTypes DEF NewBridge, Signal, RunType, Phases, setup
  <2>3. QED
    BY <1>3, <1>4, <2>1, <2>2, KeptTypes DEF NewBridge, Signal, client
<1>5. CASE Connect
  <2>1. UNCHANGED setup /\ phase' # "loading"
    BY <1>5 DEF Connect
  <2>2. RunType'
    BY <1>5, <2>1, KeptTypes DEF Connect, RunType, Phases, setup
  <2>3. ClientType'
    BY <1>5, <2>1, KeptTypes DEF Connect, ClientType, routes
  <2>4. QED
    BY <1>3, <1>5, <2>1, <2>2, <2>3, KeptTypes DEF Connect
<1>6. CASE Configure
  <2>1. UNCHANGED setup /\ Entries' = Entries
    BY <1>6, KeptTypes DEF Configure
  <2>2. phase' \in Phases /\ (phase' # "loading" \/ phase' = phase)
    BY <1>6 DEF Configure, Phases
  <2> DEFINE i == configured + 1
             e == Entries[i]
  <2>3. i \in DOMAIN Entries /\ i \in 0..Len(Entries)
    BY <1>6, EntriesShape DEF Configure, RunType
  <2>4. RunType'
    BY <1>6, <2>1, <2>2, <2>3 DEF Configure, RunType, setup
  <2>5. ClientType'
    <3>1. CASE UNCHANGED <<subs, routes>>
      BY <1>6, <2>1, <3>1, KeptTypes DEF Configure
    <3>2. CASE subs' = subs \cup {i} /\ UNCHANGED routes
      BY <1>6, <2>1, <2>3, <3>2 DEF Configure, ClientType, routes
    <3>3. CASE /\ e.direction = "mpubsub_to_mqtt"
               /\ joined' = joined \cup {topic_to_group[e.mpubsub_topic]}
               /\ crcToMQTT' = [crcToMQTT EXCEPT
                                  ![topic_crc32[e.mpubsub_topic]] = @ \cup {i}]
               /\ UNCHANGED subs
      <4>1. e.mpubsub_topic \in Topics
        BY <2>3, <3>3, LoadedOptions
      <4>2. /\ topic_to_group[e.mpubsub_topic] \in Groups
            /\ topic_crc32[e.mpubsub_topic] \in Crcs
        BY <4>1, BridgeAssumption DEF Crcs
      <4>3. connected' = connected /\ backlog' = backlog
        BY <1>6 DEF Configure
      <4> HIDE DEF e, i
      <4>4. joined' \subseteq Groups
        BY <3>3, <4>2 DEF ClientType
      <4>5. crcToMQTT' \in [Crcs -> SUBSET DOMAIN Entries]
        BY <2>3, <3>3, <4>2 DEF ClientType
      <4>6. QED
        BY <2>1, <3>3, <4>3, <4>4, <4>5 DEF ClientType
    <3>4. QED
      BY <1>6, <3>1, <3>2, <3>3 DEF Configure
  <2>6. QED
    BY <1>3, <1>6, <2>1, <2>2, <2>4, <2>5, KeptTypes DEF Configure
<1>7. CASE StartReceiving
  <2>1. UNCHANGED setup /\ phase' # "loading"
    BY <1>7 DEF StartReceiving
  <2>2. RunType'
    BY <1>7, <2>1, KeptTypes DEF StartReceiving, RunType, Phases, setup
  <2>3. ReceiverType'
    BY <1>7, <2>1, KeptTypes DEF StartReceiving, ReceiverType
  <2>4. QED
    BY <1>3, <1>7, <2>1, <2>2, <2>3, KeptTypes DEF StartReceiving, client
<1>8. CASE Sweep
  <2>1. UNCHANGED setup /\ phase' # "loading"
    BY <1>8 DEF Sweep
  <2>2. RunType'
    BY <1>8, <2>1, KeptTypes DEF Sweep, RunType, Phases, setup
  <2>3. RetransmitType'
    BY <1>8 DEF Sweep, RetransmitType
  <2>4. QED
    BY <1>3, <1>8, <2>1, <2>2, <2>3, KeptTypes DEF Sweep, client
<1>9. CASE TearDown
  <2>1. UNCHANGED setup /\ phase' # "loading"
    BY <1>9 DEF TearDown
  <2>2. RunType'
    BY <1>9, <2>1, KeptTypes DEF TearDown, RunType, Phases, setup
  <2>3. ClientType'
    BY <1>9, <2>1, KeptTypes DEF TearDown, Disconnected, ClientType, client, routes
  <2>4. QED
    BY <1>3, <1>9, <2>1, <2>2, <2>3, KeptTypes DEF TearDown
<1>10. CASE ConnectionLost \/ Reconnect
  <2>1. UNCHANGED run
    BY <1>10 DEF ConnectionLost, Reconnect
  <2>2. ClientType'
    BY <1>10, <2>1, KeptTypes
       DEF ConnectionLost, Reconnect, Disconnected, ClientType, routes, run
  <2>3. QED
    BY <1>3, <1>10, <2>1, <2>2, KeptTypes DEF ConnectionLost, Reconnect, run
<1>11. ASSUME NEW i \in DOMAIN Entries, NEW m \in MqttMessages,
              handleMQTTMessage(i, m)
       PROVE  TypeOK' /\ ConfigInv'
  <2> DEFINE t == MPubsubTopic(Entries[i], m)
             pub == handled + 1
  <2>1. t \in Topics
    BY EntriesShape, BridgeAssumption DEF MPubsubTopic
  <2>2. pub \in Messages /\ pub \in 0..MaxMessages
    BY <1>11, BridgeAssumption DEF handleMQTTMessage, HistoryType, Messages
  <2>3. effectiveRetransmitCount(m.qos) \in Counts
    BY EffectiveCount, BridgeAssumption
  <2>4. /\ UNCHANGED <<run, connected, subs, routes, chains, finite, receiver,
                       writer, count_of, emitted, broken>>
        /\ backlog' \subseteq backlog
        /\ cancelIndefinite(t) /\ handled' = pub
        /\ newest' = [newest EXCEPT ![t] = pub]
        /\ \E packet : handler' = [at |-> "send", topic |-> t, pub |-> pub,
                                   count |-> effectiveRetransmitCount(m.qos),
                                   packet |-> packet]
    BY <1>11 DEF handleMQTTMessage
  <2> HIDE DEF t, pub
  <2>5. HandlerType'
    BY <2>1, <2>2, <2>3, <2>4 DEF HandlerType
  <2>6. RetransmitType'
    BY <2>1, <2>4 DEF RetransmitType, cancelIndefinite
  <2>7. HistoryType'
    BY <2>1, <2>2, <2>4 DEF HistoryType
  <2>8. ClientType'
    BY <2>4, KeptTypes DEF ClientType, run, routes
  <2>9. QED
    BY <1>3, <2>4, <2>5, <2>6, <2>7, <2>8, KeptTypes DEF run
<1>12. CASE HandlerSend
  <2>1. handler # Idle
    BY <1>12 DEF HandlerSend, Idle
  <2>2. HandlerType'
    BY <1>12, <2>1 DEF HandlerSend, HandlerType
  <2>3. handler.pub \in Messages /\ handler.count \in Counts
    BY <2>1 DEF HandlerType
  <2>4. HistoryType'
    <3>1. count_of' \in [Messages -> Counts \cup {0}]
      BY <1>12, <2>3 DEF HandlerSend, HistoryType
    <3>2. emitted \in [Messages -> Nat]
      BY DEF HistoryType
    <3>3. emitted' \in {emitted, [emitted EXCEPT ![handler.pub] = 1]}
      BY <1>12 DEF HandlerSend
    <3>4. emitted' \in [Messages -> Nat]
      BY ONLY <2>3, <3>2, <3>3
    <3>5. QED
      BY <1>12, <3>1, <3>4 DEF HandlerSend, HistoryType
  <2>5. QED
    BY <1>3, <1>12, <2>2, <2>4, KeptTypes DEF HandlerSend, run, client
<1>13. CASE startIndefinite
  <2>1. handler # Idle
    BY <1>13 DEF startIndefinite, Idle
  <2>2. UNCHANGED setup /\ (phase' # "loading" \/ phase' = phase)
    BY <1>13 DEF startIndefinite
  <2>3. RunType'
    BY <1>13, <2>2, KeptTypes DEF startIndefinite, RunType, Phases, setup
  <2>4. HandlerType'
    BY <1>13 DEF startIndefinite, HandlerType
  <2>5. RetransmitType'
    BY <1>13, <2>1 DEF startIndefinite, RetransmitType, HandlerType
  <2>6. QED
    BY <1>3, <1>13, <2>2, <2>3, <2>4, <2>5, KeptTypes DEF startIndefinite, client
<1>14. CASE scheduleFiniteRetransmits
  <2>1. handler # Idle
    BY <1>14 DEF scheduleFiniteRetransmits, Idle
  <2>2. HandlerType'
    BY <1>14 DEF scheduleFiniteRetransmits, HandlerType
  <2>3. RetransmitType'
    BY <1>14, <2>1
       DEF scheduleFiniteRetransmits, RetransmitType, HandlerType, Counts
  <2>4. QED
    BY <1>3, <1>14, <2>2, <2>3, KeptTypes
       DEF scheduleFiniteRetransmits, run, client
<1>15. ASSUME NEW x \in chains, Chain(x)
       PROVE  TypeOK' /\ ConfigInv'
  <2>1. RetransmitType'
    BY <1>15 DEF Chain, ChainTick, ChainSend, ChainExit, RetransmitType
  <2>2. QED
    BY <1>3, <1>15, <2>1, KeptTypes
       DEF Chain, ChainTick, ChainSend, ChainExit, run, client
<1>16. ASSUME NEW x \in finite, FiniteSend(x)
       PROVE  TypeOK' /\ ConfigInv'
  <2>1. x \in [pub : Messages, i : 1..(x.count - 1), count : Counts,
               packet : {x.packet}]
    BY DEF RetransmitType
  <2>2. \A y \in finite' : y \in finite \/
          (x.i + 1 < x.count /\ y = [x EXCEPT !.i = x.i + 1])
    BY <1>16 DEF FiniteSend
  <2>3. RetransmitType'
    BY <1>16, <2>1, <2>2 DEF FiniteSend, RetransmitType, Counts
  <2>4. HistoryType'
    <3>1. x.pub \in Messages
      BY <2>1
    <3>2. emitted \in [Messages -> Nat] /\ emitted[x.pub] \in Nat
      BY <3>1 DEF HistoryType
    <3>3. emitted' \in {emitted, [emitted EXCEPT ![x.pub] = emitted[x.pub] + 1]}
      BY <1>16 DEF FiniteSend
    <3>4. emitted' \in [Messages -> Nat]
      BY ONLY <3>1, <3>2, <3>3
    <3>5. broken' \subseteq Messages
      BY <1>16, <3>1 DEF FiniteSend, HistoryType
    <3>6. QED
      BY <1>16, <3>4, <3>5 DEF FiniteSend, HistoryType
  <2>5. QED
    BY <1>3, <1>16, <2>3, <2>4, KeptTypes DEF FiniteSend, run, client
<1>17. CASE RxTop \/ RxReadError
  <2>1. UNCHANGED run
    BY <1>17 DEF RxTop, RxReadError
  <2>2. ReceiverType'
    BY <1>17, <2>1, KeptTypes DEF RxTop, RxReadError, ReceiverType, run
  <2>3. QED
    BY <1>3, <1>17, <2>1, <2>2, KeptTypes DEF RxTop, RxReadError, run, client
<1>18. ASSUME NEW i \in DOMAIN Entries, RxPublish(i)
       PROVE  TypeOK' /\ ConfigInv'
  <2>1. UNCHANGED run
    BY <1>18 DEF RxPublish
  <2>2. ReceiverType'
    BY <1>18, <2>1, KeptTypes DEF RxPublish, ReceiverType, run
  <2>3. QED
    BY <1>3, <1>18, <2>1, <2>2, KeptTypes DEF RxPublish, run, client
<1>19. ASSUME NEW a \in Arrivals \cup loopback, RxRead(a)
       PROVE  TypeOK' /\ ConfigInv'
  <2>1. UNCHANGED run
    BY <1>19 DEF RxRead
  <2>2. ReceiverType'
    BY <1>19, <2>1, KeptTypes DEF RxRead, ReceiverType, run, RoutesFor
  <2>3. QED
    BY <1>3, <1>19, <2>1, <2>2, KeptTypes DEF RxRead, run, client
<1>20. CASE WriterWrite
  <2>1. UNCHANGED run
    BY <1>20 DEF WriterWrite
  <2>2. ReceiverType'
    BY <1>20, <2>1, KeptTypes DEF WriterWrite, ReceiverType, receiver, run
  <2>3. QED
    BY <1>3, <1>20, <2>1, <2>2, KeptTypes DEF WriterWrite, run, client
<1>21. QED
  BY <1>1, <1>2, <1>4, <1>5, <1>6, <1>7, <1>8, <1>9, <1>10, <1>11, <1>12,
     <1>13, <1>14, <1>15, <1>16, <1>17, <1>18, <1>19, <1>20
     DEF Next, RunStep, Handler, ReceiveLoop

(***************************************************************************)
(* Every variable of the bridge keeps its type, and it runs with nothing   *)
(* but what LoadConfig let through.                                        *)
(***************************************************************************)
THEOREM TypeCorrect == Spec => []TypeOK /\ []ConfigInv
<1>1. Init => TypeOK /\ ConfigInv
  <2> SUFFICES ASSUME Init PROVE TypeOK /\ ConfigInv
    OBVIOUS
  <2>1. Entries = <<>>
    BY DEF Init, Entries, NoConfig
  <2>2. RunType
    <3>1. Len(Entries) = 0 /\ configured = 0
      BY <2>1 DEF Init
    <3>2. phase \in Phases
      BY DEF Init, Phases
    <3>3. yaml \in Yamls /\ config = NoConfig /\ ctx_done \in BOOLEAN
      BY DEF Init
    <3>4. QED
      BY <3>1, <3>2, <3>3 DEF RunType
  <2>3. ClientType /\ ReceiverType
    BY <2>1 DEF Init, ClientType, ReceiverType
  <2>4. HandlerType /\ RetransmitType
    BY DEF Init, HandlerType, RetransmitType
  <2>5. HistoryType
    BY BridgeAssumption DEF Init, HistoryType
  <2>6. QED
    BY <2>2, <2>3, <2>4, <2>5 DEF Init, TypeOK, ConfigInv
<1>2. TypeOK /\ ConfigInv /\ [Next]_vars => TypeOK' /\ ConfigInv'
  BY TypeStep
<1>3. QED
  BY <1>1, <1>2, PTL DEF Spec

-----------------------------------------------------------------------------
(***************************************************************************)
(* The retransmissions.  Only the MQTT callback, the goroutines it started *)
(* and the sweep at shutdown touch them.                                   *)
(***************************************************************************)
LEMMA RetransmitSteps ==
  ASSUME [Next]_vars
  PROVE  \/ \E i \in DOMAIN Entries, m \in MqttMessages : handleMQTTMessage(i, m)
         \/ HandlerSend \/ startIndefinite \/ scheduleFiniteRetransmits \/ Sweep
         \/ \E x \in chains : Chain(x)
         \/ \E x \in finite : FiniteSend(x)
         \/ /\ UNCHANGED <<handler, retransmits, history, yaml>>
            /\ Alive' => Alive
            /\ phase' = "panicked" => phase = "panicked"
            /\ phase # "loading" => UNCHANGED config
<1>1. CASE Load \/ NewBridge
  BY <1>1 DEF Load, NewBridge, Alive, setup
<1>2. CASE Connect \/ Configure \/ StartReceiving
  BY <1>2 DEF Connect, Configure, StartReceiving, Alive, setup
<1>3. CASE Signal
  BY <1>3 DEF Signal, Alive, setup
<1>4. CASE TearDown
  BY <1>4 DEF TearDown, Alive, setup
<1>5. CASE ConnectionLost \/ Reconnect
  BY <1>5 DEF ConnectionLost, Reconnect, Alive, run, setup
<1>6. CASE ReceiveLoop
  BY <1>6 DEF ReceiveLoop, RxTop, RxReadError, RxPublish, Alive, run, setup
<1>7. CASE WriterWrite \/ \E a \in Arrivals \cup loopback : RxRead(a)
  BY <1>7 DEF RxRead, WriterWrite, Alive, run, setup
<1>8. CASE UNCHANGED vars
  BY <1>8 DEF vars, run, setup, Alive
<1>9. QED
  BY <1>1, <1>2, <1>3, <1>4, <1>5, <1>6, <1>7, <1>8 DEF Next, RunStep, Handler

(***************************************************************************)
(* What the callback's first step does: the next number, the topic's chain *)
(* cancelled, a count within what was configured.                          *)
(***************************************************************************)
Accepts(t) ==
  /\ handler = Idle /\ handled + 1 \in Messages
  /\ handler' # Idle /\ handler'.at = "send" /\ handler'.topic = t
  /\ handler'.pub = handled + 1 /\ handler'.count \in Counts
  /\ ~yaml.promote_qos /\ handler'.count = -1 => RetransmitDelay >= 1000
  /\ cancelIndefinite(t)
  /\ handled' = handled + 1 /\ newest' = [newest EXCEPT ![t] = handled + 1]
  /\ UNCHANGED <<run, chains, finite, count_of, emitted, broken>>

(***************************************************************************)
(* A message that handleMQTTMessage encodes is accepted for some topic; an *)
(* indefinite count that QoS promotion did not choose has the delay that   *)
(* validate asks for.                                                      *)
(***************************************************************************)
LEMMA HandleAccepts ==
  ASSUME TypeOK, ConfigInv, NEW i \in DOMAIN Entries, NEW m \in MqttMessages,
         handleMQTTMessage(i, m)
  PROVE  \E t \in Topics : Accepts(t)
<1> DEFINE t == MPubsubTopic(Entries[i], m)
<1>1. RunType /\ handled \in Nat
  BY BridgeAssumption DEF TypeOK, HistoryType
<1>2. t \in Topics
  BY <1>1, EntriesShape, BridgeAssumption DEF MPubsubTopic
<1>3. handled + 1 \in Messages
  BY <1>1, BridgeAssumption DEF handleMQTTMessage, Messages
<1>4. /\ handler' # Idle /\ handler'.at = "send" /\ handler'.topic = t
      /\ handler'.pub = handled + 1
      /\ handler'.count = effectiveRetransmitCount(m.qos)
  BY DEF handleMQTTMessage, Idle
<1>5. /\ effectiveRetransmitCount(m.qos) \in Counts
      /\ ~PromoteQoS => effectiveRetransmitCount(m.qos) = RetransmitCount
  BY <1>1, EffectiveCount, BridgeAssumption
<1>6. ~yaml.promote_qos /\ handler'.count = -1 => RetransmitDelay >= 1000
  BY <1>1, <1>4, <1>5, LoadedOptions
<1>7. /\ handler = Idle /\ cancelIndefinite(t) /\ handled' = handled + 1
      /\ newest' = [newest EXCEPT ![t] = handled + 1]
      /\ UNCHANGED <<run, chains, finite, count_of, emitted, broken>>
  BY DEF handleMQTTMessage
<1> HIDE DEF t
<1>8. QED
  BY <1>2, <1>3, <1>4, <1>5, <1>6, <1>7 DEF Accepts

(***************************************************************************)
(* What the type invariant says of the state that chains are kept in.      *)
(***************************************************************************)
LEMMA RetransmitFacts ==
  ASSUME TypeOK
  PROVE  /\ handled \in Nat /\ \A t \in Topics : newest[t] \in Nat
         /\ \A t \in Topics : indefiniteJobs[t] \in Nat
         /\ closed \subseteq Messages /\ Messages \subseteq Nat \ {0}
         /\ \A x \in chains : x.topic \in Topics /\ x.pub \in Messages
         /\ handler # Idle => /\ handler.topic \in Topics
                              /\ handler.pub \in Messages
<1>1. Messages \subseteq Nat \ {0} /\ handled \in Nat
  BY BridgeAssumption DEF Messages, TypeOK, HistoryType
<1>2. \A t \in Topics : newest[t] \in Nat
  BY BridgeAssumption DEF TypeOK, HistoryType
<1>3. closed \subseteq Messages /\ \A t \in Topics : indefiniteJobs[t] \in Nat
  BY <1>1 DEF TypeOK, RetransmitType, NoChan
<1>4. \A x \in chains : x.topic \in Topics /\ x.pub \in Messages
  BY DEF TypeOK, RetransmitType
<1>5. handler # Idle => handler.topic \in Topics /\ handler.pub \in Messages
  BY DEF TypeOK, HandlerType
<1>6. QED
  BY <1>1, <1>2, <1>3, <1>4, <1>5

(***************************************************************************)
(* Accepting a message closes the channel of the topic's chain, if it has  *)
(* one, and takes it out of the map in the same locked step.               *)
(***************************************************************************)
LEMMA AcceptKeepsChains ==
  ASSUME TypeOK, HandlerInv, NumberInv, ChainInv, NEW t \in Topics, Accepts(t)
  PROVE  HandlerInv' /\ NumberInv' /\ ChainInv'
<1>1. /\ \A u \in Topics : indefiniteJobs'[u] =
             IF u = t THEN NoChan ELSE indefiniteJobs[u]
      /\ \A u \in Topics : newest'[u] = IF u = t THEN handled + 1 ELSE newest[u]
  BY DEF Accepts, cancelIndefinite, TypeOK, RetransmitType, HistoryType
<1>2. closed' = closed \cup ({indefiniteJobs[t]} \ {NoChan})
  BY DEF Accepts, cancelIndefinite
<1>3. handled' = handled + 1 /\ chains' = chains /\ (Alive' <=> Alive)
  BY DEF Accepts, run, Alive
<1>4. \A c \in closed' : c \in Nat /\ c <= handled
  BY <1>2, RetransmitFacts DEF NumberInv
<1>5. HandlerInv'
  BY <1>1, <1>3, <1>4, RetransmitFacts DEF HandlerInv, Accepts
<1>6. NumberInv'
  BY <1>1, <1>3, <1>4, RetransmitFacts DEF NumberInv
<1>7. NoOrphanChain'
  <2> SUFFICES ASSUME NEW x \in chains, x.pub \notin closed'
               PROVE  indefiniteJobs'[x.topic] = x.pub /\ x.pub = newest'[x.topic]
    BY <1>3 DEF NoOrphanChain, Open
  <2>1. indefiniteJobs[x.topic] = x.pub /\ x.pub = newest[x.topic]
    BY <1>2 DEF ChainInv, NoOrphanChain, Open
  <2>2. x.topic # t
    BY <1>2, <2>1, RetransmitFacts DEF NoChan
  <2>3. QED
    BY <1>1, <2>1, <2>2, RetransmitFacts
<1>8. \A u \in Topics : indefiniteJobs'[u] \notin closed'
  BY <1>1, <1>2, RetransmitFacts DEF ChainInv, NumberInv, NoChan
<1>9. Alive' => \A u \in Topics : indefiniteJobs'[u] # NoChan =>
                  \E x \in chains' : x.pub = indefiniteJobs'[u]
  BY <1>1, <1>3 DEF ChainInv
<1>10. QED
  BY <1>5, <1>6, <1>7, <1>8, <1>9 DEF ChainInv

(***************************************************************************)
(* The sweep at shutdown closes every channel the map holds.               *)
(***************************************************************************)
LEMMA SweepKeepsChains ==
  ASSUME TypeOK, HandlerInv, NumberInv, ChainInv, Sweep
  PROVE  HandlerInv' /\ NumberInv' /\ ChainInv'
<1>1. /\ \A t \in Topics : indefiniteJobs'[t] = NoChan
      /\ \A c : c \in closed' <=>
           \/ c \in closed
           \/ \E t \in Topics : indefiniteJobs[t] # NoChan /\ c = indefiniteJobs[t]
      /\ UNCHANGED <<handler, chains, handled, newest>>
  BY DEF Sweep, history
<1>2. HandlerInv'
  BY <1>1, RetransmitFacts DEF HandlerInv, NumberInv
<1>3. NumberInv'
  BY <1>1, RetransmitFacts DEF NumberInv
<1>4. NoOrphanChain'
  <2> SUFFICES ASSUME NEW x \in chains, x.pub \notin closed' PROVE FALSE
    BY <1>1 DEF NoOrphanChain, Open
  <2>1. indefiniteJobs[x.topic] = x.pub
    BY <1>1 DEF ChainInv, NoOrphanChain, Open
  <2>2. QED
    BY <1>1, <2>1, RetransmitFacts DEF NoChan
<1>5. \A t \in Topics : indefiniteJobs'[t] \notin closed'
  BY <1>1, RetransmitFacts DEF NoChan
<1>6. QED
  BY <1>1, <1>2, <1>3, <1>4, <1>5 DEF ChainInv

(***************************************************************************)
(* startIndefinite finds no chain on the topic and installs the handler's  *)
(* publication, which is the newest one of its topic.                      *)
(***************************************************************************)
LEMMA StartKeepsChains ==
  ASSUME TypeOK, HandlerInv, NumberInv, ChainInv, startIndefinite
  PROVE  HandlerInv' /\ NumberInv' /\ ChainInv'
<1> DEFINE x0 == [at |-> "select", topic |-> handler.topic, pub |-> handler.pub,
                  packet |-> handler.packet]
<1>1. handler # Idle /\ handler.topic \in Topics /\ handler.pub = handled
      /\ newest[handler.topic] = handled /\ handled \in Messages
      /\ indefiniteJobs[handler.topic] = NoChan /\ handled \notin closed
  BY RetransmitFacts DEF startIndefinite, Idle, HandlerInv
<1>2. /\ \A t \in Topics : indefiniteJobs'[t] =
             IF t = handler.topic THEN handled ELSE indefiniteJobs[t]
      /\ handler' = Idle /\ UNCHANGED <<closed, handled, newest>>
  BY <1>1 DEF startIndefinite, TypeOK, RetransmitType, history
<1>3. \/ chains' = chains \cup {x0} /\ (Alive' => Alive)
      \/ chains' = chains /\ ~Alive'
  BY DEF startIndefinite, Alive
<1>4. x0.topic = handler.topic /\ x0.pub = handled
  BY <1>1
<1> HIDE DEF x0
<1>5. HandlerInv'
  BY <1>2 DEF HandlerInv
<1>6. NumberInv'
  BY <1>1, <1>2, RetransmitFacts DEF NumberInv
<1>7. NoOrphanChain'
  <2> SUFFICES ASSUME NEW x \in chains \cup {x0}, x.pub \notin closed
               PROVE  indefiniteJobs'[x.topic] = x.pub /\ x.pub = newest[x.topic]
    BY <1>2, <1>3 DEF NoOrphanChain, Open
  <2>1. CASE x = x0
    BY <1>1, <1>2, <1>4, <2>1
  <2>2. CASE x \in chains
    <3>1. indefiniteJobs[x.topic] = x.pub /\ x.pub = newest[x.topic]
      BY <2>2 DEF ChainInv, NoOrphanChain, Open
    <3>2. QED
      BY <1>1, <1>2, <2>2, <3>1, RetransmitFacts DEF NoChan
  <2>3. QED
    BY <2>1, <2>2
<1>8. \A t \in Topics : indefiniteJobs'[t] \notin closed'
  BY <1>1, <1>2 DEF ChainInv
<1>9. Alive' => \A t \in Topics : indefiniteJobs'[t] # NoChan =>
                  \E x \in chains' : x.pub = indefiniteJobs'[t]
  BY <1>2, <1>3, <1>4 DEF ChainInv
<1>10. QED
  BY <1>5, <1>6, <1>7, <1>8, <1>9 DEF ChainInv

(***************************************************************************)
(* A chain's goroutine leaves the map alone, and ends only once its        *)
(* channel is closed or the context is cancelled.                          *)
(***************************************************************************)
LEMMA GoroutineKeepsChains ==
  ASSUME TypeOK, HandlerInv, NumberInv, ChainInv, NEW x \in chains, Chain(x)
  PROVE  HandlerInv' /\ NumberInv' /\ ChainInv'
<1>1. UNCHANGED <<handler, indefiniteJobs, closed, handled, newest>>
      /\ (Alive' <=> Alive)
  BY DEF Chain, ChainTick, ChainSend, ChainExit, history, run, Alive
<1>2. x \in [at : {"select", "send"}, topic : Topics, pub : Messages,
             packet : {x.packet}]
  BY DEF TypeOK, RetransmitType
<1>3. \A y \in chains' : \E z \in chains : z.topic = y.topic /\ z.pub = y.pub
  BY <1>2 DEF Chain, ChainTick, ChainSend, ChainExit
<1>4. \A z \in chains : \/ z.pub \in closed
                        \/ \E y \in chains' : y.pub = z.pub
  <2>1. CASE ChainExit(x)
    BY <2>1 DEF ChainExit
  <2>2. ASSUME NEW at,
               chains' = (chains \ {x}) \cup {[x EXCEPT !.at = at]}
        PROVE  \A z \in chains : \E y \in chains' : y.pub = z.pub
    <3>1. [x EXCEPT !.at = at].pub = x.pub
      BY <1>2
    <3>2. QED
      BY <2>2, <3>1
  <2>3. QED
    BY <2>1, <2>2 DEF Chain, ChainTick, ChainSend
<1>5. HandlerInv' /\ NumberInv'
  BY <1>1 DEF HandlerInv, NumberInv
<1>6. NoOrphanChain'
  BY <1>1, <1>3 DEF ChainInv, NoOrphanChain, Open
<1>7. Alive' => \A t \in Topics : indefiniteJobs'[t] # NoChan =>
                  \E y \in chains' : y.pub = indefiniteJobs'[t]
  BY <1>1, <1>4 DEF ChainInv
<1>8. QED
  BY <1>1, <1>5, <1>6, <1>7 DEF ChainInv

(***************************************************************************)
(* Every step keeps handler, numbers, channels and chains in agreement.    *)
(***************************************************************************)
LEMMA ChainStep ==
  ASSUME TypeOK, ConfigInv, HandlerInv, NumberInv, ChainInv, [Next]_vars
  PROVE  HandlerInv' /\ NumberInv' /\ ChainInv'
<1>1. ASSUME NEW i \in DOMAIN Entries, NEW m \in MqttMessages,
             handleMQTTMessage(i, m)
      PROVE  HandlerInv' /\ NumberInv' /\ ChainInv'
  BY <1>1, HandleAccepts, AcceptKeepsChains
<1>2. ASSUME UNCHANGED <<retransmits, handled, newest>>, Alive' => Alive
      PROVE  NumberInv' /\ ChainInv'
  BY <1>2 DEF NumberInv, ChainInv, NoOrphanChain, Open, retransmits
<1>3. CASE HandlerSend
  <2>1. handler # Idle /\ HandlerType
    BY <1>3 DEF HandlerSend, Idle, TypeOK
  <2>2. \/ handler' = Idle
        \/ handler'.pub = handler.pub /\ handler'.topic = handler.topic
    BY <1>3, <2>1 DEF HandlerSend, HandlerType
  <2>3. UNCHANGED <<retransmits, handled, newest>> /\ (Alive' => Alive)
    BY <1>3 DEF HandlerSend
  <2>4. HandlerInv'
    BY <2>1, <2>2, <2>3 DEF HandlerInv, retransmits
  <2>5. QED
    BY <1>2, <2>3, <2>4
<1>4. CASE scheduleFiniteRetransmits
  <2>1. /\ UNCHANGED <<indefiniteJobs, closed, chains, handled, newest>>
        /\ handler' = Idle /\ (Alive' => Alive)
    BY <1>4 DEF scheduleFiniteRetransmits, history
  <2>2. QED
    BY <2>1 DEF HandlerInv, NumberInv, ChainInv, NoOrphanChain, Open
<1>5. ASSUME NEW x \in finite, FiniteSend(x)
      PROVE  HandlerInv' /\ NumberInv' /\ ChainInv'
  <2>1. /\ UNCHANGED <<handler, indefiniteJobs, closed, chains, handled, newest>>
        /\ Alive' => Alive
    BY <1>5 DEF FiniteSend
  <2>2. QED
    BY <2>1 DEF HandlerInv, NumberInv, ChainInv, NoOrphanChain, Open
<1>6. CASE UNCHANGED <<handler, retransmits, history>> /\ (Alive' => Alive)
  BY <1>2, <1>6 DEF HandlerInv, history, retransmits
<1>7. QED
  BY <1>1, <1>3, <1>4, <1>5, <1>6, RetransmitSteps, SweepKeepsChains,
     StartKeepsChains, GoroutineKeepsChains

(***************************************************************************)
(* No message leaves behind a chain that nobody can cancel: whatever the   *)
(* callback, the chains and the shutdown interleave to, an open chain is   *)
(* the one in the jobs map and resends the newest message of its topic;    *)
(* every channel in the map is open, of one topic, and listened to.        *)
(***************************************************************************)
THEOREM ChainsCorrect == Spec => []NoOrphanChain /\ []JobsAreLive
<1>1. Init => HandlerInv /\ NumberInv /\ ChainInv
  BY DEF Init, HandlerInv, NumberInv, ChainInv, NoOrphanChain, NoChan
<1>2. TypeOK /\ HandlerInv /\ NumberInv /\ ChainInv => NoOrphanChain /\ JobsAreLive
  <2> SUFFICES ASSUME TypeOK, HandlerInv, NumberInv, ChainInv
               PROVE  NoOrphanChain /\ JobsAreLive
    OBVIOUS
  <2>1. closed \cap Jobs = {}
    BY DEF ChainInv, Jobs
  <2>2. \A t, u \in Topics :
          (indefiniteJobs[t] = indefiniteJobs[u] /\ t # u) =>
            indefiniteJobs[t] = NoChan
    BY RetransmitFacts DEF NumberInv, NoChan
  <2>3. Alive => \A c \in Jobs : \E x \in chains : x.pub = c
    BY DEF ChainInv, Jobs
  <2>4. QED
    BY <2>1, <2>2, <2>3 DEF JobsAreLive, ChainInv
<1>3. TypeOK /\ ConfigInv /\ HandlerInv /\ NumberInv /\ ChainInv /\ [Next]_vars
        => HandlerInv' /\ NumberInv' /\ ChainInv'
  BY ChainStep
<1>4. QED
  BY <1>1, <1>2, <1>3, TypeCorrect, PTL DEF Spec

(***************************************************************************)
(* In particular, cancelIndefinite and the sweep at shutdown never close a *)
(* channel twice, and never a channel that no goroutine listens to.        *)
(***************************************************************************)
THEOREM JobsCorrect == Spec => []JobsAreLive
BY ChainsCorrect, PTL

-----------------------------------------------------------------------------
(***************************************************************************)
(* The pace of the chains.  Only startIndefinite can panic, on a delay of  *)
(* 0, and without promote_qos it only runs under a configuration whose     *)
(* count is -1, which validate() accepts only with one second or more.     *)
(***************************************************************************)
LEMMA PacedStep ==
  ASSUME TypeOK, ConfigInv, PacedInv, [Next]_vars
  PROVE  PacedInv'
<1> SUFFICES ASSUME ~yaml'.promote_qos PROVE PacedInv'
  BY DEF PacedInv
<1>1. ASSUME NEW i \in DOMAIN Entries, NEW m \in MqttMessages,
             handleMQTTMessage(i, m)
      PROVE  PacedInv'
  <2>1. PICK t \in Topics : Accepts(t)
    BY <1>1, HandleAccepts
  <2>2. \A u \in Topics : indefiniteJobs'[u] # NoChan => indefiniteJobs[u] # NoChan
    BY <2>1 DEF Accepts, cancelIndefinite, TypeOK, RetransmitType
  <2>3. UNCHANGED <<yaml, config, phase>>
    BY <2>1 DEF Accepts, run, setup
  <2>4. QED
    BY <2>1, <2>2, <2>3 DEF PacedInv, Accepts, RetransmitDelay
<1>2. CASE HandlerSend
  <2>1. handler # Idle /\ HandlerType
    BY <1>2 DEF HandlerSend, Idle, TypeOK
  <2>2. handler' # Idle => handler'.count = handler.count
    BY <1>2, <2>1 DEF HandlerSend, HandlerType
  <2>3. UNCHANGED <<yaml, config, phase, indefiniteJobs>>
    BY <1>2 DEF HandlerSend, run, setup, retransmits
  <2>4. QED
    BY <2>1, <2>2, <2>3 DEF PacedInv, RetransmitDelay
<1>3. CASE startIndefinite
  <2>1. handler # Idle /\ handler.count = -1 /\ UNCHANGED <<yaml, config>>
    BY <1>3 DEF startIndefinite, Idle, setup
  <2>2. phase # "panicked" /\ RetransmitDelay >= 1000
    BY <2>1 DEF PacedInv
  <2>3. phase' = phase
    BY <1>3, <2>2 DEF startIndefinite
  <2>4. QED
    BY <2>1, <2>2, <2>3 DEF PacedInv, RetransmitDelay
<1>4. CASE scheduleFiniteRetransmits
  <2>1. UNCHANGED <<yaml, config, phase, indefiniteJobs>> /\ handler' = Idle
    BY <1>4 DEF scheduleFiniteRetransmits, run, setup
  <2>2. QED
    BY <2>1 DEF PacedInv, RetransmitDelay
<1>5. CASE Sweep
  <2>1. /\ UNCHANGED <<yaml, config, handler>> /\ phase' # "panicked"
        /\ \A t \in Topics : indefiniteJobs'[t] = NoChan
    BY <1>5 DEF Sweep, setup
  <2>2. QED
    BY <2>1 DEF PacedInv, RetransmitDelay
<1>6. ASSUME UNCHANGED <<handler, indefiniteJobs, yaml, config>>,
             phase' = "panicked" => phase = "panicked"
      PROVE  PacedInv'
  BY <1>6 DEF PacedInv, RetransmitDelay
<1>7. ASSUME NEW x \in chains, Chain(x)
      PROVE  PacedInv'
  BY <1>6, <1>7 DEF Chain, ChainTick, ChainSend, ChainExit, run, setup
<1>8. ASSUME NEW x \in finite, FiniteSend(x)
      PROVE  PacedInv'
  BY <1>6, <1>8 DEF FiniteSend, run, setup
<1>9. CASE /\ UNCHANGED <<handler, retransmits, yaml>>
           /\ phase' = "panicked" => phase = "panicked"
           /\ phase # "loading" => UNCHANGED config
  <2>1. CASE phase = "loading"
    <3>1. RetransmitDelay = 0
      BY <2>1 DEF ConfigInv, NoConfig, RetransmitDelay
    <3>2. QED
      BY <1>9, <2>1, <3>1 DEF PacedInv, retransmits
  <2>2. CASE phase # "loading"
    BY <1>6, <1>9, <2>2 DEF retransmits
  <2>3. QED
    BY <2>1, <2>2
<1>10. QED
  BY <1>1, <1>2, <1>3, <1>4, <1>5, <1>7, <1>8, <1>9, RetransmitSteps DEF history

(***************************************************************************)
(* Without promote_qos, no ticker panics, and a chain runs only under a    *)
(* delay of at least one second, whatever the YAML file leaves out.        *)
(***************************************************************************)
THEOREM PaceCorrect == Spec => []IndefiniteIsPaced
<1>1. Init => PacedInv
  BY DEF Init, PacedInv
<1>2. TypeOK /\ ConfigInv /\ PacedInv /\ [Next]_vars => PacedInv'
  BY PacedStep
<1>3. PacedInv => IndefiniteIsPaced
  BY DEF PacedInv, IndefiniteIsPaced, Jobs
<1>4. QED
  BY <1>1, <1>2, <1>3, TypeCorrect, PTL DEF Spec

-----------------------------------------------------------------------------
(***************************************************************************)
(* The finite retransmissions.  What a message without a goroutine must    *)
(* have come to, of FiniteInv's last part.                                 *)
(***************************************************************************)
LEMMA FiniteFacts ==
  ASSUME TypeOK
  PROVE  /\ handled \in Nat /\ Messages \subseteq Nat \ {0} /\ broken \subseteq Messages
         /\ \A p \in Messages : emitted[p] \in Nat /\ count_of[p] \in Counts \cup {0}
         /\ \A x \in finite : /\ x.pub \in Messages /\ x.count \in Counts
                              /\ x.i \in 1..(x.count - 1)
         /\ handler # Idle => /\ handler.pub \in Messages
                              /\ handler.count \in Counts
                              /\ handler.at \in {"send", "schedule"}
<1>1. Messages \subseteq Nat \ {0} /\ handled \in Nat
  BY BridgeAssumption DEF Messages, TypeOK, HistoryType
<1>2. /\ broken \subseteq Messages
      /\ \A p \in Messages : emitted[p] \in Nat /\ count_of[p] \in Counts \cup {0}
  BY DEF TypeOK, HistoryType
<1>3. \A x \in finite : /\ x.pub \in Messages /\ x.count \in Counts
                        /\ x.i \in 1..(x.count - 1)
  BY DEF TypeOK, RetransmitType
<1>4. handler # Idle => /\ handler.pub \in Messages /\ handler.count \in Counts
                        /\ handler.at \in {"send", "schedule"}
  BY DEF TypeOK, HandlerType
<1>5. QED
  BY <1>1, <1>2, <1>3, <1>4

(***************************************************************************)
(* A message just accepted has no count, no resend and no failure yet.     *)
(***************************************************************************)
LEMMA AcceptKeepsFinite ==
  ASSUME TypeOK, FiniteInv, NEW t \in Topics, Accepts(t)
  PROVE  FiniteInv'
<1>1. /\ handled' = handled + 1 /\ handled + 1 \in Messages
      /\ handler' # Idle /\ handler'.at = "send" /\ handler'.pub = handled + 1
      /\ handler = Idle /\ UNCHANGED <<finite, count_of, emitted, broken>>
  BY DEF Accepts
<1>2. /\ \A p \in Messages : p > handled + 1 => count_of[p] = 0
      /\ count_of[handled + 1] = 0
  BY <1>1, FiniteFacts DEF FiniteInv
<1>3. QED
  BY <1>1, <1>2 DEF FiniteInv

(***************************************************************************)
(* The handler's own send opens the account of a publication at one, or    *)
(* gives the publication up.                                               *)
(***************************************************************************)
LEMMA SendKeepsFinite ==
  ASSUME TypeOK, HandlerInv, FiniteInv, HandlerSend
  PROVE  FiniteInv'
<1> DEFINE pub == handler.pub
<1>1. /\ handler # Idle /\ handler.at = "send" /\ pub = handled
      /\ pub \in Messages /\ handler.count \in Counts
  BY FiniteFacts DEF HandlerSend, Idle, HandlerInv
<1>2. UNCHANGED <<finite, handled, broken>>
  BY DEF HandlerSend, retransmits
<1>3. /\ count_of[pub] = 0 /\ pub \notin broken
      /\ \A x \in finite : x.pub # pub
  BY <1>1, FiniteFacts DEF FiniteInv, Counts
<1>4. CASE handler' = Idle /\ UNCHANGED <<count_of, emitted>>
  BY <1>1, <1>2, <1>3, <1>4 DEF FiniteInv
<1>5. CASE /\ handler' = [handler EXCEPT !.at = "schedule"]
           /\ count_of' = [count_of EXCEPT ![handler.pub] = handler.count]
           /\ emitted' = [emitted EXCEPT ![handler.pub] = 1]
  <2>1. /\ handler'.at = "schedule" /\ handler'.pub = pub
        /\ handler'.count = handler.count /\ handler' # Idle
    BY <1>1, <1>5 DEF TypeOK, HandlerType, Idle
  <2>2. /\ \A p \in Messages : count_of'[p] =
             IF p = pub THEN handler.count ELSE count_of[p]
        /\ \A p \in Messages : emitted'[p] = IF p = pub THEN 1 ELSE emitted[p]
    BY <1>5 DEF TypeOK, HistoryType
  <2> HIDE DEF pub
  <2>3. \A p \in Messages : p > handled => count_of'[p] = 0
    BY <1>1, <2>2, FiniteFacts DEF FiniteInv
  <2>4. \A x \in finite : /\ x.count = count_of'[x.pub] /\ x.i = emitted'[x.pub]
                          /\ x.pub \notin broken
                          /\ \A y \in finite : y.pub = x.pub => y = x
    BY <1>3, <2>2, FiniteFacts DEF FiniteInv
  <2>5. \A p \in broken : count_of'[p] # 0
    BY <1>3, <2>2, FiniteFacts DEF FiniteInv
  <2>6. \A p \in Messages :
          \/ p = pub
          \/ count_of'[p] = 0
          \/ \E x \in finite : x.pub = p
          \/ count_of'[p] = -1 /\ emitted'[p] = 1
          \/ p \in broken /\ emitted'[p] < count_of'[p]
          \/ p \notin broken /\ emitted'[p] = count_of'[p]
    BY <1>1, <2>2 DEF FiniteInv, pub
  <2>7. count_of'[pub] = handler.count /\ emitted'[pub] = 1
    BY <1>1, <2>2
  <2>8. QED
    BY <1>1, <1>2, <1>3, <2>1, <2>3, <2>4, <2>5, <2>6, <2>7 DEF FiniteInv
<1>6. QED
  BY <1>4, <1>5 DEF HandlerSend

(***************************************************************************)
(* scheduleFiniteRetransmits starts one goroutine for a count above one    *)
(* and none for a count of one.                                            *)
(***************************************************************************)
LEMMA ScheduleKeepsFinite ==
  ASSUME TypeOK, HandlerInv, FiniteInv, scheduleFiniteRetransmits
  PROVE  FiniteInv'
<1> DEFINE x0 == [pub |-> handler.pub, i |-> 1, count |-> handler.count,
                  packet |-> handler.packet]
<1>1. /\ handler # Idle /\ handler.at = "schedule" /\ handler.count # -1
      /\ handler.pub \in Messages /\ handler.count \in Counts
  BY FiniteFacts DEF scheduleFiniteRetransmits, Idle
<1>2. /\ count_of[handler.pub] = handler.count /\ emitted[handler.pub] = 1
      /\ handler.pub \notin broken /\ \A x \in finite : x.pub # handler.pub
  BY <1>1 DEF FiniteInv
<1>3. handler' = Idle /\ UNCHANGED <<handled, count_of, emitted, broken>>
  BY DEF scheduleFiniteRetransmits, history
<1>4. finite' = IF handler.count > 1 THEN finite \cup {x0} ELSE finite
  BY DEF scheduleFiniteRetransmits
<1>5. x0.pub = handler.pub /\ x0.i = 1 /\ x0.count = handler.count
  OBVIOUS
<1> HIDE DEF x0
<1>6. CASE handler.count > 1
  <2>1. \A x \in finite' : /\ x.count = count_of[x.pub] /\ x.i = emitted[x.pub]
                           /\ x.pub \notin broken
                           /\ \A y \in finite' : y.pub = x.pub => y = x
    BY <1>2, <1>4, <1>5, <1>6 DEF FiniteInv
  <2>2. \A p \in Messages :
          (\/ \E x \in finite : x.pub = p
           \/ p = handler.pub) => \E x \in finite' : x.pub = p
    BY <1>4, <1>5, <1>6
  <2>3. QED
    BY <1>3, <2>1, <2>2 DEF FiniteInv
<1>7. CASE ~(handler.count > 1)
  <2>1. handler.count = 1
    BY <1>1, <1>7 DEF Counts
  <2>2. QED
    BY <1>2, <1>3, <1>4, <1>7, <2>1 DEF FiniteInv
<1>8. QED
  BY <1>6, <1>7

(***************************************************************************)
(* One round of a finite goroutine adds one send and goes on to the next   *)
(* index, or fails and leaves the publication broken.                      *)
(***************************************************************************)
LEMMA GoroutineKeepsFinite ==
  ASSUME TypeOK, FiniteInv, NEW x \in finite, FiniteSend(x)
  PROVE  FiniteInv'
<1> DEFINE x1 == [x EXCEPT !.i = x.i + 1]
<1>1. /\ x \in [pub : Messages, i : 1..(x.count - 1), count : Counts,
                packet : {x.packet}]
      /\ x.pub \in Messages /\ x.count \in Nat /\ x.i \in Nat /\ x.i < x.count
  BY FiniteFacts DEF TypeOK, RetransmitType, Counts
<1>2. /\ x.count = count_of[x.pub] /\ x.i = emitted[x.pub] /\ x.pub \notin broken
      /\ \A y \in finite : y.pub = x.pub => y = x
      /\ handler # Idle /\ handler.at = "schedule" => handler.pub # x.pub
  BY DEF FiniteInv
<1>3. UNCHANGED <<handler, handled, count_of>>
  BY DEF FiniteSend
<1>4. handler # Idle /\ handler.at = "send" => handler.pub # x.pub
  BY <1>1, <1>2 DEF FiniteInv
<1>5. CASE /\ finite' = finite \ {x} /\ broken' = broken \cup {x.pub}
           /\ UNCHANGED emitted
  <2>1. \A y \in finite' : y \in finite /\ y.pub # x.pub
    BY <1>2, <1>5
  <2>2. \A p \in Messages : p # x.pub =>
          ((\E y \in finite : y.pub = p) => \E y \in finite' : y.pub = p)
    BY <1>5
  <2>3. emitted[x.pub] < count_of[x.pub] /\ count_of[x.pub] # 0
    BY <1>1, <1>2
  <2>4. QED
    BY <1>2, <1>3, <1>5, <2>1, <2>2, <2>3 DEF FiniteInv
<1>6. CASE /\ finite' = (finite \ {x}) \cup
                          (IF x.i + 1 < x.count THEN {x1} ELSE {})
           /\ emitted' = [emitted EXCEPT ![x.pub] = emitted[x.pub] + 1]
           /\ UNCHANGED broken
  <2>1. \A p \in Messages :
          emitted'[p] = IF p = x.pub THEN x.i + 1 ELSE emitted[p]
    BY <1>1, <1>2, <1>6 DEF TypeOK, HistoryType
  <2>2. x1.pub = x.pub /\ x1.count = x.count /\ x1.i = x.i + 1
    BY <1>1
  <2> HIDE DEF x1
  <2>3. \A y \in finite' : \/ y \in finite /\ y.pub # x.pub
                           \/ y = x1 /\ x.i + 1 < x.count
    BY <1>2, <1>6
  <2>4. \A y \in finite' : /\ y.count = count_of[y.pub] /\ y.i = emitted'[y.pub]
                           /\ y.pub \notin broken
                           /\ \A z \in finite' : z.pub = y.pub => z = y
    BY <1>1, <1>2, <2>1, <2>2, <2>3, FiniteFacts DEF FiniteInv
  <2>5. \A p \in Messages : p # x.pub =>
          ((\E y \in finite : y.pub = p) => \E y \in finite' : y.pub = p)
    BY <1>6
  <2>6. \/ \E y \in finite' : y.pub = x.pub
        \/ emitted'[x.pub] = count_of[x.pub]
    BY <1>1, <1>2, <1>6, <2>1, <2>2
  <2>7. handler # Idle /\ handler.at = "schedule" =>
          /\ emitted'[handler.pub] = 1
          /\ \A y \in finite' : y.pub # handler.pub
    BY <1>2, <2>1, <2>2, <2>3, FiniteFacts DEF FiniteInv
  <2>8. \A p \in Messages :
          \/ count_of[p] = 0
          \/ \E y \in finite' : y.pub = p
          \/ handler # Idle /\ handler.at = "schedule" /\ handler.pub = p
          \/ count_of[p] = -1 /\ emitted'[p] = 1
          \/ p \in broken /\ emitted'[p] < count_of[p]
          \/ p \notin broken /\ emitted'[p] = count_of[p]
    BY <1>2, <2>1, <2>5, <2>6 DEF FiniteInv
  <2>9. QED
    BY <1>3, <1>6, <2>4, <2>7, <2>8 DEF FiniteInv
<1>7. QED
  BY <1>5, <1>6 DEF FiniteSend

(***************************************************************************)
(* Every step keeps the account of finite resends.                         *)
(***************************************************************************)
LEMMA FiniteStep ==
  ASSUME TypeOK, ConfigInv, HandlerInv, FiniteInv, [Next]_vars
  PROVE  FiniteInv'
<1>1. ASSUME NEW i \in DOMAIN Entries, NEW m \in MqttMessages,
             handleMQTTMessage(i, m)
      PROVE  FiniteInv'
  BY <1>1, HandleAccepts, AcceptKeepsFinite
<1>2. CASE startIndefinite
  <2>1. handler # Idle /\ handler.at = "schedule" /\ handler.count = -1
    BY <1>2 DEF startIndefinite, Idle
  <2>2. handler' = Idle /\ UNCHANGED <<finite, handled, count_of, emitted, broken>>
    BY <1>2 DEF startIndefinite, history
  <2>3. QED
    BY <2>1, <2>2 DEF FiniteInv
<1>3. ASSUME UNCHANGED <<handler, finite, handled, count_of, emitted, broken>>
      PROVE  FiniteInv'
  BY <1>3 DEF FiniteInv
<1>4. CASE Sweep
  BY <1>3, <1>4 DEF Sweep, history
<1>5. ASSUME NEW x \in chains, Chain(x)
      PROVE  FiniteInv'
  BY <1>3, <1>5 DEF Chain, ChainTick, ChainSend, ChainExit, history
<1>6. CASE UNCHANGED <<handler, retransmits, history>>
  BY <1>3, <1>6 DEF retransmits, history
<1>7. QED
  BY <1>1, <1>2, <1>4, <1>5, <1>6, RetransmitSteps, SendKeepsFinite,
     ScheduleKeepsFinite, GoroutineKeepsFinite

(***************************************************************************)
(* The account adds up: what went out and what is left make the count.     *)
(***************************************************************************)
LEMMA FiniteAdds ==
  ASSUME TypeOK, FiniteInv
  PROVE  FiniteAccounting
<1> SUFFICES ASSUME NEW p \in Messages, count_of[p] # 0
             PROVE  IF count_of[p] = -1 THEN emitted[p] = 1 /\ Left(p) = {}
                    ELSE IF p \in broken
                         THEN emitted[p] < count_of[p] /\ Left(p) = {}
                    ELSE \/ Left(p) = {} /\ emitted[p] = count_of[p]
                         \/ Left(p) = {count_of[p] - emitted[p]}
  BY DEF FiniteAccounting
<1> DEFINE Scheduling == handler # Idle /\ handler.at = "schedule" /\ handler.pub = p
           Running == \E x \in finite : x.pub = p
<1>1. Idle.at # "schedule"
  BY DEF Idle
<1>2. ~Running /\ ~(Scheduling /\ handler.count > 1) => Left(p) = {}
  BY <1>1 DEF Left
<1>3. CASE Scheduling /\ handler.count > 1
  <2>1. Left(p) = {handler.count - 1}
    BY <1>3 DEF Left
  <2>2. handler.count = count_of[p] /\ emitted[p] = 1 /\ p \notin broken
    BY <1>3 DEF FiniteInv
  <2>3. QED
    BY <1>3, <2>1, <2>2, FiniteFacts DEF Counts
<1>4. CASE Scheduling /\ ~(handler.count > 1)
  <2>1. /\ handler.count = count_of[p] /\ emitted[p] = 1 /\ p \notin broken
        /\ ~Running
    BY <1>4 DEF FiniteInv
  <2>2. handler.count \in {-1, 1}
    BY <1>4, FiniteFacts DEF Counts
  <2>3. QED
    BY <1>2, <1>4, <2>1, <2>2
<1>5. CASE ~Scheduling /\ Running
  <2>1. PICK x \in finite : x.pub = p
    BY <1>5
  <2>2. /\ x.count = count_of[p] /\ x.i = emitted[p] /\ p \notin broken
        /\ \A y \in finite : y.pub = p => y = x
    BY <2>1 DEF FiniteInv
  <2>3. x.count # -1
    BY FiniteFacts, <2>1
  <2>4. {y \in finite : y.pub = p} = {x}
    BY <2>1, <2>2
  <2>5. Left(p) = {x.count - x.i}
    BY <1>1, <1>5, <2>4 DEF Left
  <2>6. QED
    BY <2>2, <2>3, <2>5
<1>6. CASE ~Scheduling /\ ~Running
  <2>1. Left(p) = {}
    BY <1>2, <1>6
  <2>2. \/ count_of[p] = -1 /\ emitted[p] = 1
        \/ p \in broken /\ emitted[p] < count_of[p]
        \/ p \notin broken /\ emitted[p] = count_of[p]
    BY <1>6 DEF FiniteInv
  <2>3. emitted[p] \in Nat /\ count_of[p] \in Counts
    BY FiniteFacts
  <2>4. QED
    BY <2>1, <2>2, <2>3 DEF Counts
<1>7. QED
  BY <1>3, <1>4, <1>5, <1>6

(***************************************************************************)
(* A message with a finite count is emitted exactly that often unless a    *)
(* resend fails, and never more often; one with an indefinite count never  *)
(* gets a finite goroutine as well.                                        *)
(***************************************************************************)
THEOREM FiniteCorrect == Spec => []FiniteAccounting
<1>1. Init => HandlerInv /\ NumberInv /\ ChainInv /\ FiniteInv
  BY DEF Init, HandlerInv, NumberInv, ChainInv, NoOrphanChain, NoChan, FiniteInv
<1>2. TypeOK /\ ConfigInv /\ HandlerInv /\ NumberInv /\ ChainInv /\ FiniteInv
        /\ [Next]_vars => HandlerInv' /\ NumberInv' /\ ChainInv' /\ FiniteInv'
  BY ChainStep, FiniteStep
<1>3. TypeOK /\ FiniteInv => FiniteAccounting
  BY FiniteAdds
<1>4. QED
  BY <1>1, <1>2, <1>3, TypeCorrect, PTL DEF Spec

=============================================================================
