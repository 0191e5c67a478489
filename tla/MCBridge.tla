------------------------------ MODULE MCBridge ------------------------------
(***************************************************************************)
(* Instances of Bridge for TLC: a sending one (no arrivals), and a         *)
(* receiving one, whose bridge may send one MQTT message as well.          *)
(***************************************************************************)
EXTENDS BridgeProperties, TLC

CONSTANTS t1, t2, tw, g1, g2, k1, k2, s1, s2

MCTopics == {t1, t2}
MCGroups == {g1, g2}
MCGroupOf == (t1 :> g1) @@ (t2 :> g2)
DistinctCrcs == (t1 :> 0) @@ (t2 :> 7)

\* The receiving instance has a topic with a wildcard in its name too.
WideTopics == {t1, t2, tw}
WideGroupOf == MCGroupOf @@ (tw :> g2)
WideCrcs == DistinctCrcs @@ (tw :> 8)

Entry(direction, mqtt, topic, require, schema) ==
  [direction |-> direction, mqtt_topic |-> mqtt, mpubsub_topic |-> topic,
   require_encryption |-> require, schema |-> schema]

Schema(id, ok, schema_id) == [id |-> id, ok |-> ok, schema_id |-> schema_id]

Yaml(entries) ==
  [broker |-> "tcp", scope |-> "", hops |-> 0, count |-> 0, delay |-> <<1000>>,
   promote_qos |-> TRUE, key |-> k1, json_translation |-> TRUE,
   schemas |-> <<Schema("temp", TRUE, s1), Schema("other", TRUE, s2)>>,
   bridges |-> entries]

\* A wildcard subscription, and one whose messages all go to t1 as protobuf.
SendYaml ==
  Yaml(<<Entry("mqtt_to_mpubsub", {t1, t2}, NoTopic, FALSE, ""),
         Entry("mqtt_to_mpubsub", {t2}, t1, FALSE, "temp")>>)

\* Indefinite by configuration, at a given pace, for one topic.
IndefiniteYaml(delay) ==
  [Yaml(<<Entry("mqtt_to_mpubsub", {t1}, NoTopic, FALSE, "")>>) EXCEPT
     !.count = -1, !.promote_qos = FALSE, !.delay = delay]

SendYamls ==
  {SendYaml} \cup {IndefiniteYaml(d) : d \in {<<>>, <<-1>>, <<999>>, <<1000>>}}

NoDelayYamls == {[SendYaml EXCEPT !.delay = <<0>>]}

\* Two routes for t1, one of them encrypted only, and a schema route.
ReceiveYaml ==
  Yaml(<<Entry("mpubsub_to_mqtt", {t1}, t1, FALSE, ""),
         Entry("mpubsub_to_mqtt", {t1}, t1, TRUE, ""),
         Entry("mpubsub_to_mqtt", {t2}, t2, FALSE, "temp")>>)

\* t1 bridged both ways, so that the bridge hears itself, under the distinct
\* names on the MQTT side that the documentation advises.
BothWaysYaml ==
  Yaml(<<Entry("mqtt_to_mpubsub", {t1}, NoTopic, FALSE, ""),
         Entry("mpubsub_to_mqtt", {t2}, t1, FALSE, "")>>)

\* Each breaks one rule of LoadConfig.
RefusedYamls ==
  {[ReceiveYaml EXCEPT !.json_translation = FALSE],
   [ReceiveYaml EXCEPT !.key = NoKey], [ReceiveYaml EXCEPT !.broker = ""],
   [ReceiveYaml EXCEPT !.scope = "galaxy"], [ReceiveYaml EXCEPT !.hops = 256],
   [ReceiveYaml EXCEPT !.count = 256], [ReceiveYaml EXCEPT !.bridges = <<>>],
   [ReceiveYaml EXCEPT !.bridges[1].mqtt_topic = {}],
   [ReceiveYaml EXCEPT !.bridges[1].direction = "both"],
   [ReceiveYaml EXCEPT !.bridges[1].mpubsub_topic = NoTopic],
   [ReceiveYaml EXCEPT !.bridges[1].mpubsub_topic = tw],
   [ReceiveYaml EXCEPT !.bridges[3].schema = "missing"],
   [ReceiveYaml EXCEPT !.schemas[1].ok = FALSE],
   [ReceiveYaml EXCEPT !.schemas[2].id = "temp"],
   [BothWaysYaml EXCEPT !.bridges[1].require_encryption = TRUE],
   [BothWaysYaml EXCEPT !.bridges[1].schema = "temp", !.json_translation = FALSE]}

\* Both directions, without what the translation and the key make possible.
PlainYaml ==
  [Yaml(<<Entry("mpubsub_to_mqtt", {t2}, t2, FALSE, ""),
          Entry("mqtt_to_mpubsub", {t1}, NoTopic, FALSE, "")>>) EXCEPT
     !.json_translation = FALSE, !.schemas = <<>>, !.key = NoKey]

ReceiveYamls == {ReceiveYaml, BothWaysYaml, PlainYaml} \cup RefusedYamls

Message(t, qos, len, json) ==
  [topic |-> t, qos |-> qos, len |-> len, json |-> json]

\* With promote_qos and a count of 1: once, three times, indefinitely.
MCMessages ==
  {Message(t1, qos, 10, TRUE) : qos \in 0..2}
    \cup {Message(t2, 2, 10, TRUE), Message(t2, 2, 1214, FALSE)}

OneMessage == {Message(t1, 0, 10, TRUE)}
ResentMessages == {Message(t1, qos, 10, TRUE) : qos \in 1..2}

\* What the bridge may read; pub tells two otherwise equal datagrams apart.
Peer(t, pub, len, schema, encoding, key, valid) ==
  [to |-> topic_to_group[t],
   datagram |-> make_datagram(t,
     [topic |-> t, pub |-> pub, len |-> len, schema |-> schema,
      valid |-> valid], encoding, key)]

MCArrivals ==
  {Peer(t1, pub, 4, RawSchema, "RAW", key, TRUE) :
     pub \in 1..2, key \in {NoKey, k1, k2}}
  \cup {Peer(t2, 1, 4, s, "PROTOBUF", key, TRUE) : s \in {s1, s2},
                                                   key \in {NoKey, k1}}
  \cup {Peer(t2, 1, 4, s1, "PROTOBUF", NoKey, FALSE),
        Peer(t2, 1, 1, s1, "PROTOBUF", NoKey, TRUE),
        Peer(t2, 1, 4, RawSchema, "RAW", NoKey, TRUE)}
=============================================================================
