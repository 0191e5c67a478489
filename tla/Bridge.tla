------------------------------- MODULE Bridge -------------------------------
(***************************************************************************)
(* The MQTT bridge daemon (bridges/mqtt-go/main.go, bridge.go, mcast.go):  *)
(* main, from loading the configuration to the end of Run; the MQTT        *)
(* callback that publishes to multicast; the goroutines it leaves behind   *)
(* to retransmit; the receive loop that forwards multicast to MQTT.  These *)
(* run concurrently, so an action is                                       *)
(* what one goroutine does up to its next touch of shared state: the       *)
(* mutex-protected jobs map, the socket, the MQTT client, the read buffer. *)
(*                                                                         *)
(* External: paho runs the callbacks one at a time (its OrderMatters       *)
(* default), and its writer goroutine puts a PUBLISH on the connection     *)
(* some time after Publish() handed it over.                               *)
(***************************************************************************)
EXTENDS BridgeConfig

CONSTANTS
  Groups, topic_to_group,
  HostGroups,        \* groups other processes of the same host have joined
  Yamls,             \* configuration files the bridge may be started with
  MqttMessages,      \* messages the broker may deliver; len is that of the raw
                     \* payload or, on a schema entry, of its protobuf form
  Arrivals,          \* datagrams other nodes may send, with their group
  MaxMessages        \* bound: MQTT messages handled

NoChan == 0
Messages == 1..MaxMessages

ASSUME BridgeAssumption ==
  /\ topic_to_group \in [Topics -> Groups] /\ HostGroups \subseteq Groups
  /\ WildTopics \subseteq Topics /\ MaxMessages \in Nat
  /\ RawSchema \notin SchemaIds
  /\ \A y \in Yamls : y \in YamlFiles(y.key)
  /\ \A m \in MqttMessages : m.topic \in Topics \ WildTopics /\ m.qos \in 0..2

(***************************************************************************)
(* The other nodes use the CRC of the topic they publish on, in the header *)
(* or inside the ciphertext.  Anything else about a datagram may be wrong. *)
(***************************************************************************)
ASSUME ArrivalAssumption ==
  \A a \in Arrivals :
    /\ a.datagram.body.payload.topic \in Topics
    /\ a.datagram.body.crc = topic_crc32[a.datagram.body.payload.topic]
    /\ a.datagram.header.enc_mode = "NONE" =>
         a.datagram.header.topic_crc = a.datagram.body.crc

VARIABLES
  yaml,            \* the configuration file
  config,          \* what was loaded from it
  phase,           \* how far main has got
  ctx_done,        \* SIGINT or SIGTERM was received
  configured,      \* entries Run has configured
  connected,       \* the MQTT connection is up
  subs,            \* entries the broker holds a subscription for
  backlog,         \* the entry paho still holds a message for, which it read
                   \* before it lost the connection
  joined,          \* groups the multicast socket is in
  crcToMQTT,       \* CRC -> the entries it is routed to
  handler,         \* the MQTT callback: where it is, and what it sends
  indefiniteJobs,  \* topic -> the cancel channel in the map, or NoChan
  closed,          \* cancel channels that have been closed
  chains,          \* goroutines of startIndefinite
  finite,          \* goroutines of scheduleFiniteRetransmits
  rx,              \* where mcastReceiveLoop is
  todo,            \* routes it still has to publish to
  buf,             \* its read buffer: the last datagram read
  loopback,        \* own datagrams the kernel holds for the socket
  writer           \* the PUBLISH paho's writer goroutine holds, or Nothing

\* History: the messages handled, and what the last step put where.
VARIABLES
  handled,    \* number of messages that got as far as cancelIndefinite
  newest,     \* topic -> the last of them, 0 if none
  count_of,   \* message -> its effective count, of those sent
  emitted,    \* message -> successful sends, chains excluded
  broken,     \* messages whose finite retransmission met an error
  forwarded,  \* routes served for the datagram in buf
  out,        \* the datagram the last step sent, by whom
  delivered   \* the PUBLISH the last step wrote to the broker

\* Before it is loaded.
NoConfig == [bridges |-> <<>>, key |-> NoKey, count |-> 0, delay |-> 0,
             promote_qos |-> FALSE]

Entries == config.bridges
EncryptionKey == config.key
RetransmitCount == config.count
RetransmitDelay == config.delay
PromoteQoS == config.promote_qos

setup == <<yaml, config>>
run == <<setup, phase, ctx_done, configured>>
client == <<connected, subs, backlog>>
routes == <<joined, crcToMQTT>>
retransmits == <<indefiniteJobs, closed, chains, finite>>
receiver == <<rx, todo, buf, forwarded>>
history == <<handled, newest, count_of, emitted, broken>>
vars == <<run, client, routes, handler, retransmits, receiver, writer,
          loopback, history, out, delivered>>

Nothing == [by |-> "nobody"]
Idle == [at |-> "idle"]
Crcs == {topic_crc32[t] : t \in Topics}

Init ==
  /\ yaml \in Yamls /\ config = NoConfig
  /\ phase = "loading" /\ ctx_done = FALSE /\ configured = 0
  /\ connected = FALSE /\ subs = {} /\ backlog = {}
  /\ joined = {} /\ crcToMQTT = [c \in Crcs |-> {}]
  /\ handler = Idle
  /\ indefiniteJobs = [t \in Topics |-> NoChan]
  /\ closed = {} /\ chains = {} /\ finite = {}
  /\ rx = "none" /\ todo = {} /\ buf = Nothing /\ writer = Nothing
  /\ loopback = {}
  /\ forwarded = {}
  /\ handled = 0
  /\ newest = [t \in Topics |-> 0]
  /\ count_of = [p \in Messages |-> 0] /\ emitted = [p \in Messages |-> 0]
  /\ broken = {} /\ out = Nothing /\ delivered = Nothing

\* main() has not returned and no goroutine has panicked.
Alive == phase \notin {"done", "failed", "panicked"}
SocketOpen == phase \notin {"closed", "disconnected"}
Quiet == out' = Nothing /\ delivered' = Nothing /\ UNCHANGED loopback

-----------------------------------------------------------------------------
(***************************************************************************)
(* main: the configuration file is read, parsed, completed and validated,  *)
(* then the socket is opened; any error ends the process.                  *)
(***************************************************************************)
Load ==
  /\ phase = "loading"
  /\ \/ phase' = "failed" /\ UNCHANGED config
     \/ ~LoadRefuses(yaml) /\ config' = applyDefaults(yaml) /\ phase' = "opening"
  /\ Quiet
  /\ UNCHANGED <<yaml, ctx_done, configured, client, routes, handler,
                 retransmits, receiver, writer, history>>

NewBridge ==
  /\ phase = "opening" /\ phase' \in {"failed", "connecting"}
  /\ Quiet
  /\ UNCHANGED <<setup, ctx_done, configured, client, routes, handler,
                 retransmits, receiver, writer, history>>

(***************************************************************************)
(* Run.  Any error while connecting or configuring makes it return; after  *)
(* the last entry the receive loop is started and Run waits for the signal.*)
(***************************************************************************)
Connect ==
  /\ phase = "connecting"
  /\ \/ phase' = "failed" /\ UNCHANGED connected
     \/ phase' = "configuring" /\ connected' = TRUE
  /\ Quiet
  /\ UNCHANGED <<setup, ctx_done, configured, subs, backlog, routes, handler,
                 retransmits, receiver, writer, history>>

Configure ==
  /\ phase = "configuring" /\ configured < Len(Entries)
  /\ LET i == configured + 1
         e == Entries[i]
     IN \/ /\ phase' = "failed"
           /\ UNCHANGED <<configured, subs, routes>>
        \/ /\ e.direction = "mqtt_to_mpubsub" /\ connected
           /\ subs' = subs \cup {i} /\ configured' = i
           /\ UNCHANGED <<phase, routes>>
        \/ /\ e.direction = "mpubsub_to_mqtt"
           /\ joined' = joined \cup {topic_to_group[e.mpubsub_topic]}
           /\ crcToMQTT' = [crcToMQTT EXCEPT
                              ![topic_crc32[e.mpubsub_topic]] = @ \cup {i}]
           /\ configured' = i
           /\ UNCHANGED <<phase, subs>>
  /\ Quiet
  /\ UNCHANGED <<setup, ctx_done, connected, backlog, handler, retransmits,
                 receiver, writer, history>>

StartReceiving ==
  /\ phase = "configuring" /\ configured = Len(Entries)
  /\ phase' = "running" /\ rx' = "top"
  /\ Quiet
  /\ UNCHANGED <<setup, ctx_done, configured, client, routes, handler, retransmits,
                 todo, buf, forwarded, writer, history>>

\* SIGINT or SIGTERM, caught from when Run is called.
Signal ==
  /\ Alive /\ ~ctx_done /\ phase \notin {"loading", "opening"}
  /\ ctx_done' = TRUE
  /\ Quiet
  /\ UNCHANGED <<setup, phase, configured, client, routes, handler, retransmits,
                 receiver, writer, history>>

\* Shutdown, in the order of the code: cancel every chain in the map,
Sweep ==
  /\ phase = "running" /\ ctx_done
  /\ phase' = "swept"
  /\ closed' = closed \cup
       {indefiniteJobs[t] : t \in {u \in Topics : indefiniteJobs[u] # NoChan}}
  /\ indefiniteJobs' = [t \in Topics |-> NoChan]
  /\ Quiet
  /\ UNCHANGED <<setup, ctx_done, configured, client, routes, handler, chains, finite,
                 receiver, writer, history>>

(***************************************************************************)
(* The connection ends, and with a clean session the broker's              *)
(* subscriptions.  Before that paho may have read one more message.        *)
(***************************************************************************)
Disconnected ==
  /\ connected' = FALSE /\ subs' = {}
  /\ backlog' \in {backlog} \cup {{i} : i \in subs}

\* close the socket, disconnect from the broker, wait for the receive loop.
TearDown ==
  /\ \/ phase = "swept" /\ phase' = "closed" /\ UNCHANGED client
     \/ phase = "closed" /\ phase' = "disconnected" /\ Disconnected
     \/ phase = "disconnected" /\ rx = "exited" /\ phase' = "done"
        /\ UNCHANGED client
  /\ Quiet
  /\ UNCHANGED <<setup, ctx_done, configured, routes, handler, retransmits, receiver,
                 writer, history>>

(***************************************************************************)
(* External: the connection drops; paho reconnects by itself.              *)
(***************************************************************************)
ConnectionLost ==
  /\ Alive /\ connected /\ Disconnected
  /\ Quiet
  /\ UNCHANGED <<run, routes, handler, retransmits, receiver, writer, history>>

Reconnect ==
  /\ phase \in {"configuring", "running", "swept", "closed"} /\ ~connected
  /\ connected' = TRUE
  /\ Quiet
  /\ UNCHANGED <<run, subs, backlog, routes, handler, retransmits, receiver,
                 writer, history>>

-----------------------------------------------------------------------------
(***************************************************************************)
(* promote_qos: the QoS of a message only raises the count.                *)
(***************************************************************************)
effectiveRetransmitCount(qos) ==
  CASE ~PromoteQoS \/ qos = 0 -> RetransmitCount
    [] PromoteQoS /\ qos = 1  -> IF RetransmitCount \in {-1} \cup 3..255
                                 THEN RetransmitCount ELSE 3
    [] PromoteQoS /\ qos >= 2 -> -1

\* The topic an entry publishes a message under; NoTopic: the message's own.
MPubsubTopic(e, m) ==
  IF e.mpubsub_topic = NoTopic THEN m.topic ELSE e.mpubsub_topic

\* A mutant: a new message does not cancel the topic's chain.
CancelNothing(t) == UNCHANGED <<indefiniteJobs, closed>>

cancelIndefinite(t) ==
  /\ closed' = closed \cup ({indefiniteJobs[t]} \ {NoChan})
  /\ indefiniteJobs' = [indefiniteJobs EXCEPT ![t] = NoChan]

(***************************************************************************)
(* handleMQTTMessage, in three steps.  First it encodes (JSON that does    *)
(* not fit the schema, and a payload that does not fit a datagram, are     *)
(* dropped) and cancels the topic's chain.  The message comes from the     *)
(* broker, or from paho's own queue.                                       *)
(***************************************************************************)
handleMQTTMessage(i, m) ==
  LET e == Entries[i]
      t == MPubsubTopic(e, m)
      typed == e.schema # RawSchema
      payload == [topic |-> t, pub |-> handled + 1, schema |-> e.schema,
                  len |-> IF typed THEN m.len + 2 ELSE m.len, valid |-> TRUE]
  IN
  /\ Alive /\ handler = Idle
  /\ \/ connected /\ i \in subs /\ UNCHANGED backlog
     \/ i \in backlog /\ backlog' = backlog \ {i}
  /\ m.topic \in e.mqtt_topic
  /\ handled < MaxMessages
  /\ typed => m.json
  /\ ~EncodeRefuses(payload, EncryptionKey)
  /\ handler' = [at |-> "send", topic |-> t, pub |-> handled + 1,
                 count |-> effectiveRetransmitCount(m.qos),
                 packet |-> [to |-> topic_to_group[t],
                             datagram |-> EncodePacket(t, payload,
                               IF typed THEN "PROTOBUF" ELSE "RAW",
                               EncryptionKey)]]
  /\ cancelIndefinite(t)
  /\ handled' = handled + 1
  /\ newest' = [newest EXCEPT ![t] = handled + 1]
  /\ Quiet
  /\ UNCHANGED <<run, connected, subs, routes, chains, finite, receiver, writer,
                 count_of, emitted, broken>>

(***************************************************************************)
(* SendTo may fail at any time, and always does on a closed socket.  With  *)
(* IPV6_MULTICAST_LOOP on, the kernel also gives the datagram to this      *)
(* socket if somebody on the host is in the group.                         *)
(***************************************************************************)
SendTo(by, x, ok) ==
  /\ ok => SocketOpen
  /\ out' = IF ok THEN [by |-> by, pub |-> x.pub, packet |-> x.packet]
                  ELSE Nothing
  /\ loopback' = IF ok /\ x.packet.to \in joined \cup HostGroups
                 THEN loopback \cup {x.packet} ELSE loopback
  /\ delivered' = Nothing

\* Then it sends; an error ends it.
HandlerSend ==
  /\ Alive /\ handler.at = "send"
  /\ \/ /\ SendTo("handler", handler, FALSE)
        /\ handler' = Idle
        /\ UNCHANGED <<count_of, emitted>>
     \/ /\ SendTo("handler", handler, TRUE)
        /\ handler' = [handler EXCEPT !.at = "schedule"]
        /\ count_of' = [count_of EXCEPT ![handler.pub] = handler.count]
        /\ emitted' = [emitted EXCEPT ![handler.pub] = 1]
  /\ UNCHANGED <<run, client, routes, retransmits, receiver, writer,
                 handled, newest, broken>>

(***************************************************************************)
(* Last, it leaves the retransmission to a goroutine.  startIndefinite     *)
(* installs a fresh cancel channel; its goroutine begins with              *)
(* time.NewTicker(delay), which panics on 0.                               *)
(***************************************************************************)
startIndefinite ==
  /\ Alive /\ handler.at = "schedule" /\ handler.count = -1
  /\ indefiniteJobs' = [indefiniteJobs EXCEPT ![handler.topic] = handler.pub]
  /\ \/ /\ RetransmitDelay > 0 /\ UNCHANGED phase
        /\ chains' = chains \cup
             {[at |-> "select", topic |-> handler.topic, pub |-> handler.pub,
               packet |-> handler.packet]}
     \/ RetransmitDelay = 0 /\ phase' = "panicked" /\ UNCHANGED chains
  /\ handler' = Idle
  /\ Quiet
  /\ UNCHANGED <<setup, ctx_done, configured, client, routes, closed, finite,
                 receiver, writer, history>>

scheduleFiniteRetransmits ==
  /\ Alive /\ handler.at = "schedule" /\ handler.count # -1
  /\ finite' = IF handler.count > 1
               THEN finite \cup {[pub |-> handler.pub, i |-> 1,
                                  count |-> handler.count,
                                  packet |-> handler.packet]}
               ELSE finite
  /\ handler' = Idle
  /\ Quiet
  /\ UNCHANGED <<run, client, routes, indefiniteJobs, closed, chains,
                 receiver, writer, history>>

(***************************************************************************)
(* The goroutine of startIndefinite: select between the cancel channel and *)
(* the ticker, either of them when both are ready; a failed send is        *)
(* ignored.                                                                *)
(***************************************************************************)
ChainTick(x) ==
  /\ Alive /\ x.at = "select"
  /\ chains' = (chains \ {x}) \cup {[x EXCEPT !.at = "send"]}
  /\ Quiet
  /\ UNCHANGED <<run, client, routes, handler, indefiniteJobs, closed, finite,
                 receiver, writer, history>>

\* A mutant: an error ends the goroutine.
ChainSendUntilError(x) ==
  /\ Alive /\ x.at = "send"
  /\ \E ok \in BOOLEAN :
       /\ SendTo("chain", x, ok)
       /\ chains' = (chains \ {x}) \cup
            (IF ok THEN {[x EXCEPT !.at = "select"]} ELSE {})
  /\ UNCHANGED <<run, client, routes, handler, indefiniteJobs, closed, finite,
                 receiver, writer, history>>

ChainSend(x) ==
  /\ Alive /\ x.at = "send"
  /\ \E ok \in BOOLEAN : SendTo("chain", x, ok)
  /\ chains' = (chains \ {x}) \cup {[x EXCEPT !.at = "select"]}
  /\ UNCHANGED <<run, client, routes, handler, indefiniteJobs, closed, finite,
                 receiver, writer, history>>

\* A mutant: the goroutine looks for its topic in the map instead.
ChainExitWithoutJob(x) ==
  /\ Alive /\ x.at = "select" /\ indefiniteJobs[x.topic] = NoChan
  /\ chains' = chains \ {x}
  /\ Quiet
  /\ UNCHANGED <<run, client, routes, handler, indefiniteJobs, closed, finite,
                 receiver, writer, history>>

ChainExit(x) ==
  /\ Alive /\ x.at = "select" /\ x.pub \in closed
  /\ chains' = chains \ {x}
  /\ Quiet
  /\ UNCHANGED <<run, client, routes, handler, indefiniteJobs, closed, finite,
                 receiver, writer, history>>

\* A mutant: one send too many.
FiniteSendOffByOne(x) ==
  /\ Alive
  /\ \/ /\ SendTo("finite", x, FALSE)
        /\ finite' = finite \ {x} /\ broken' = broken \cup {x.pub}
        /\ UNCHANGED emitted
     \/ /\ SendTo("finite", x, TRUE)
        /\ finite' = (finite \ {x}) \cup
             (IF x.i <= x.count - 1 THEN {[x EXCEPT !.i = @ + 1]} ELSE {})
        /\ emitted' = [emitted EXCEPT ![x.pub] = @ + 1]
        /\ UNCHANGED broken
  /\ UNCHANGED <<run, client, routes, handler, indefiniteJobs, closed, chains,
                 receiver, writer, handled, newest, count_of>>

(***************************************************************************)
(* One iteration of a finite retransmission; an error ends the goroutine.  *)
(***************************************************************************)
FiniteSend(x) ==
  /\ Alive
  /\ \/ /\ SendTo("finite", x, FALSE)
        /\ finite' = finite \ {x} /\ broken' = broken \cup {x.pub}
        /\ UNCHANGED emitted
     \/ /\ SendTo("finite", x, TRUE)
        /\ finite' = (finite \ {x}) \cup
             (IF x.i + 1 < x.count THEN {[x EXCEPT !.i = @ + 1]} ELSE {})
        /\ emitted' = [emitted EXCEPT ![x.pub] = @ + 1]
        /\ UNCHANGED broken
  /\ UNCHANGED <<run, client, routes, handler, indefiniteJobs, closed, chains,
                 receiver, writer, handled, newest, count_of>>

-----------------------------------------------------------------------------
(***************************************************************************)
(* mcastReceiveLoop.  A datagram is decoded and routed by its CRC; a route *)
(* may demand encryption, and takes RAW bodies or those of its schema.     *)
(***************************************************************************)
Forwards(e, d) ==
  /\ e.require_encryption => was_encrypted(d)
  /\ IF e.schema = RawSchema
     THEN d.header.encoding = "RAW"
     ELSE /\ d.header.encoding = "PROTOBUF" /\ d.body.payload.len >= 2
          /\ d.body.payload.schema = e.schema
          /\ d.body.payload.valid        \* ProtoToJSON succeeds

\* A mutant: one entry's require_encryption is not looked at.
RoutesInTheClear(d) ==
  {i \in DOMAIN Entries :
     /\ DecodeAccepts(d, EncryptionKey)
     /\ \E c \in Crcs : c = TopicCRC(d, EncryptionKey) /\ i \in crcToMQTT[c]
     /\ Forwards([Entries[i] EXCEPT !.require_encryption = FALSE], d)}

RoutesFor(d) ==
  {i \in DOMAIN Entries :
     /\ DecodeAccepts(d, EncryptionKey)
     /\ \E c \in Crcs : c = TopicCRC(d, EncryptionKey) /\ i \in crcToMQTT[c]
     /\ Forwards(Entries[i], d)}

\* The loop's test of ctx.Err(), before every Read.
RxTop ==
  /\ Alive /\ rx = "top"
  /\ rx' = IF ctx_done THEN "exited" ELSE "read"
  /\ Quiet
  /\ UNCHANGED <<run, client, routes, handler, retransmits, todo, buf,
                 forwarded, writer, history>>

RxRead(a) ==
  /\ Alive /\ rx = "read" /\ SocketOpen
  /\ a \in loopback \/ (a \in Arrivals /\ a.to \in joined \cup HostGroups)
  /\ loopback' = loopback \ {a}
  /\ buf' = ReadInto(a.datagram)
  /\ todo' = RoutesFor(buf') /\ forwarded' = {}
  /\ rx' = IF todo' = {} THEN "top" ELSE "publish"
  /\ out' = Nothing /\ delivered' = Nothing
  /\ UNCHANGED <<run, client, routes, handler, retransmits, writer, history>>

RxReadError ==
  /\ Alive /\ rx = "read"
  /\ rx' = IF ~SocketOpen \/ ctx_done THEN "exited" ELSE "top"
  /\ Quiet
  /\ UNCHANGED <<run, client, routes, handler, retransmits, todo, buf,
                 forwarded, writer, history>>

\* A mutant: without a connection the loop waits for one.
RxPublishOnceConnected(i) ==
  /\ Alive /\ rx = "publish" /\ i \in todo /\ \A j \in todo : i <= j
  /\ connected /\ writer = Nothing
  /\ writer' = [by |-> "writer", entry |-> i, from |-> buf,
                aliases |-> Entries[i].schema = RawSchema /\ ~was_encrypted(buf)]
  /\ todo' = todo \ {i} /\ forwarded' = forwarded \cup {i}
  /\ rx' = IF todo' = {} THEN "top" ELSE "publish"
  /\ Quiet
  /\ UNCHANGED <<run, client, routes, handler, retransmits, buf, history>>

(***************************************************************************)
(* Publish() on the next route.  A raw route passes a slice of the read    *)
(* buffer, or of the decrypted copy; a schema route passes fresh JSON.     *)
(* Without a connection the message is dropped.                            *)
(***************************************************************************)
RxPublish(i) ==
  /\ Alive /\ rx = "publish" /\ i \in todo /\ \A j \in todo : i <= j
  /\ \/ /\ connected /\ writer = Nothing
        /\ writer' = [by |-> "writer", entry |-> i, from |-> buf,
                      aliases |-> /\ Entries[i].schema = RawSchema
                                  /\ ~was_encrypted(buf)]
     \/ ~connected /\ UNCHANGED writer
  /\ todo' = todo \ {i} /\ forwarded' = forwarded \cup {i}
  /\ rx' = IF todo' = {} THEN "top" ELSE "publish"
  /\ Quiet
  /\ UNCHANGED <<run, client, routes, handler, retransmits, buf, history>>

(***************************************************************************)
(* External: paho's writer puts the PUBLISH on the connection, with the    *)
(* bytes its payload has by then, or the connection is gone.               *)
(***************************************************************************)
WriterWrite ==
  /\ Alive /\ writer # Nothing
  /\ delivered' = IF connected
       THEN [by |-> "writer", entry |-> writer.entry, from |-> writer.from,
             payload |-> IF writer.aliases THEN buf.body.payload
                                           ELSE writer.from.body.payload]
       ELSE Nothing
  /\ writer' = Nothing /\ out' = Nothing /\ UNCHANGED loopback
  /\ UNCHANGED <<run, client, routes, handler, retransmits, receiver, history>>

-----------------------------------------------------------------------------
RunStep == Load \/ NewBridge \/ Connect \/ Configure \/ StartReceiving \/ Sweep \/ TearDown
Handler == HandlerSend \/ startIndefinite \/ scheduleFiniteRetransmits
Chain(x) == ChainTick(x) \/ ChainSend(x) \/ ChainExit(x)
ReceiveLoop ==
  RxTop \/ RxReadError \/ \E i \in DOMAIN Entries : RxPublish(i)

Next ==
  \/ RunStep \/ Signal \/ ConnectionLost \/ Reconnect
  \/ \E i \in DOMAIN Entries, m \in MqttMessages : handleMQTTMessage(i, m)
  \/ Handler
  \/ \E x \in chains : Chain(x)
  \/ \E x \in finite : FiniteSend(x)
  \/ ReceiveLoop \/ \E a \in Arrivals \cup loopback : RxRead(a)
  \/ WriterWrite

Spec == Init /\ [][Next]_vars

(***************************************************************************)
(* Goroutines that can run do run.  Run and the handler wait only for      *)
(* calls that return, with a result or an error.  Two are sure to return   *)
(* only when shut off: Read once the socket is closed, and paho's write,   *)
(* to a broker that may have stopped reading, once the connection is.      *)
(* Tickers tick; when a chain's cancel channel is ready as well, Go's      *)
(* select picks at random, so a closed channel that is met again and again *)
(* is picked at last: strong fairness.                                     *)
(***************************************************************************)
Fairness ==
  /\ WF_vars(RunStep) /\ WF_vars(Handler) /\ WF_vars(~connected /\ WriterWrite)
  /\ WF_vars(RxTop) /\ WF_vars(\E i \in DOMAIN Entries : RxPublish(i))
  /\ WF_vars(~SocketOpen /\ RxReadError)
  /\ \A p \in Messages :
       /\ WF_vars(\E x \in chains : x.pub = p /\ (ChainTick(x) \/ ChainSend(x)))
       /\ SF_vars(\E x \in chains : x.pub = p /\ ChainExit(x))
       /\ WF_vars(\E x \in finite : x.pub = p /\ FiniteSend(x))

FairSpec == Spec /\ Fairness

-----------------------------------------------------------------------------
Counts == {-1} \cup 1..255

Phases == {"loading", "opening", "connecting", "configuring", "running",
           "swept", "closed", "disconnected", "done", "failed", "panicked"}

RunType ==
  /\ yaml \in Yamls /\ config \in {NoConfig, applyDefaults(yaml)}
  /\ phase \in Phases /\ ctx_done \in BOOLEAN
  /\ configured \in 0..Len(Entries)

ClientType ==
  /\ connected \in BOOLEAN
  /\ subs \subseteq DOMAIN Entries /\ backlog \subseteq DOMAIN Entries
  /\ joined \subseteq Groups
  /\ crcToMQTT \in [Crcs -> SUBSET DOMAIN Entries]

HandlerType ==
  handler # Idle =>
    handler \in [at : {"send", "schedule"}, topic : Topics, pub : Messages,
                 count : Counts, packet : {handler.packet}]

\* A finite goroutine that still exists has a send left to make.
RetransmitType ==
  /\ indefiniteJobs \in [Topics -> Messages \cup {NoChan}]
  /\ closed \subseteq Messages
  /\ \A x \in chains : x \in [at : {"select", "send"}, topic : Topics,
                            pub : Messages, packet : {x.packet}]
  /\ \A x \in finite : x \in [pub : Messages, i : 1..(x.count - 1),
                            count : Counts, packet : {x.packet}]

ReceiverType ==
  /\ rx \in {"none", "top", "read", "publish", "exited"}
  /\ todo \subseteq DOMAIN Entries /\ forwarded \subseteq DOMAIN Entries
  /\ writer # Nothing => writer.entry \in DOMAIN Entries

HistoryType ==
  /\ handled \in 0..MaxMessages
  /\ newest \in [Topics -> 0..MaxMessages]
  /\ count_of \in [Messages -> Counts \cup {0}]
  /\ emitted \in [Messages -> Nat] /\ broken \subseteq Messages

(***************************************************************************)
(* Every variable has its type.                                            *)
(***************************************************************************)
TypeOK ==
  /\ RunType /\ ClientType /\ HandlerType /\ RetransmitType /\ ReceiverType
  /\ HistoryType
=============================================================================
