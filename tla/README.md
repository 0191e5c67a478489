# A TLA+ verification of esphome-mpubsub

`mpubsub` is publish/subscribe over IPv6 UDP multicast for ESPHome nodes: a
topic is hashed to a multicast group, a datagram carries the topic's CRC32, and
there is neither a broker nor an acknowledgement, only optional retransmission.
The repository has a C++ ESPHome component and a Go daemon that bridges
multicast and MQTT. This directory models both, checks them with TLC on small
instances, and proves the main safety properties with TLAPS for every instance.

## 1. Inventory

| Part | State | Operations | Interacts with |
|---|---|---|---|
| Wire format, C++ (`wire_format.*`, `publish`, `on_packet_`) | none | `encode_header`, `decode`, XXTEA body, payload cap | every node; the bridge |
| Wire format, Go (`wire.go`) | none | `EncodePacket`, `DecodePacket` | the bridge |
| `MulticastPubSub`, socket build | socket, subscriptions, jobs of indefinite chains, counters | `setup`, `loop`, `subscribe`, `subscribe_typed`, `publish`, scheduler callbacks | kernel (joins, sends, reads), ESPHome scheduler, user callbacks |
| `PublishAction`, `OnMessageTrigger` | none | `play`, trigger | the component |
| `MulticastPubSub`, ESP8266 build | lwIP pcb, per-subscription `joined` | the same, with deferred MLD joins and a receive callback | lwIP, the netif |
| Bridge daemon (`bridge.go`, `mcast.go`, `main.go`) | routing table, jobs map with its mutex, read buffer, MQTT client | `Run`, MQTT callback, retransmit goroutines, receive loop, shutdown | broker (through paho), multicast socket, signals |
| Bridge configuration (`config.go`) | none after load | defaults, `validate` | decides what the bridge may run with |
| Protobuf and JSON (`proto.go`, `json_proto.go`, `dynamic_message.*`) | none | field encoding and decoding | bodies with a SCHEMA_ID |
| Schema identity (`schema.go`, `proto_emitter.py`) | none | canonical string, SCHEMA_ID | typed subscribers and schema routes |
| ESPHome configuration and code generation (`__init__.py`, `proto_emitter.py`, `sensor.py`) | build time | validators, generated C++ | the component's parameters |
| Sensor platform (`sensor.h`) | last value | payload to float | a callback of the component |
| Topic hashing (`topic_hash.cpp`, `sha256.cpp`) | none | group address, CRC32 | everything |

What is hard in this code, and not reached by its unit tests:

* **Timers against publications.** Chains, finite resends and new publications
  of several topics interleave; sends fail in the middle; a chain is known to
  the jobs map by its topic and to the scheduler by a CRC32.
* **A network without acknowledgements.** Datagrams are lost, repeated and
  overtaken, and listeners restart; retransmission has to bring them round, and
  finite resends of an older value come after a newer one.
* **An interface that comes late and goes away.** On ESP8266 joins are put off
  until it is there, tried once, and remembered in a flag.
* **Goroutines against the MQTT callback and the shutdown.** A chain that has
  ticked cannot be called back; a handler may be anywhere when the signal comes.
* **Two wire codecs and two protobuf readers.** They compute the same limits and
  cut the same bytes in different ways, at every boundary of every width.
* **Registration order.** Several callers share one subscription, before and
  after `setup()`, with different encryption demands.
* **Buffers.** Both receivers read into a buffer of exactly the largest
  datagram; the bridge hands slices of it to another goroutine.

The hazards are listed one by one, at their lines, in `PROJECT.json`.

## 2. Modules

```
WireFormat ─┬─ WireLink ── MCWireLink
            ├─ MpubsubNode ── NodeProperties ─┬─ MCNode
            │                                 ├─ Esp8266Node ── MCEsp8266
            │                                 └─ Fabric ── MCFabric
            │                                      └ implements LastValue
            └─ BridgeConfig ── Bridge ── BridgeProperties ── MCBridge
ProtoCodec ── Translation ── MCTranslation

WireFormatProofs ─┬─ WireLinkProofs
                  ├─ NodeProofs ─┬─ FabricProofs
                  │              └─ Esp8266Proofs
                  └─ BridgeProofs ── BridgeRoutingProofs
TranslationProofs
```

A `...Proofs` module extends the module it is about; BridgeProofs that of the
properties, BridgeProperties.

**WireFormat** has the datagram and both codecs as operators. Lengths are real
byte counts; contents are abstract. A ciphertext is the triple (key, CRC,
payload): decrypting with another key shows `GarbledCrc`, which is the CRC of no
topic. That assumption excludes the one-in-2^32 accident of
`docs/PROTOCOL.md` §3.3. The hashes are arbitrary functions given as constants.

**WireLink** sends one datagram from either implementation, or from a foreign
one, to either implementation, under every combination of keys.

**MpubsubNode** is one node with the socket build. ESPHome is single-threaded,
so a public call, a scheduler callback and a `loop()` are one step each.

| Action | Code |
|---|---|
| `Setup` | `setup()`: no socket; bind failed (`socket_` stays set); joined, each join may fail |
| `subscribe`, `subscribe_typed` | with `find_or_create_subscription`, `late_join` |
| `play` → `publish` → `schedule_retransmits` | `PublishAction::play`, `publish<T>` and `publish_dynamic`; the override's save and restore collapse into the count passed on. The typed forms' own size tests are implied by `publish()`'s |
| `FireTimeout` | the chain's lambda: send, then re-arm whatever job the topic has now |
| `FireDeferred` | the lambda of one finite resend |
| `loop` | drain, `on_packet_`, `deliver_`, `publish_metrics_` |

The scheduler is external: `set_timeout` with an id replaces the pending timeout
of that id; anonymous timeouts fire in due order, which within one delay setting
is the partial order `FireDeferred` states. History variables record the calls
users made and what each step emitted and called, so that the properties can be
stated without the code's own bookkeeping. A `publish()` made inside a callback
is the same as one made right after the `loop()`; a `subscribe()` inside a
callback is not modelled (it may invalidate the iteration in `deliver_`).
A failed component is not looped, but its timeouts may still fire: this allows
more than ESPHome may do, never less.

**Esp8266Node** is the other half of `multicast_pubsub.cpp`, on lwIP's raw API.
`publish`, retransmission and dispatch are the same code in both builds and are
taken from MpubsubNode; the rest differs.

| Action | Code |
|---|---|
| `EspSetup` | `setup()`: a failed `udp_bind` removes the pcb; every `joined` flag is reset |
| `EspSubscribe` | `subscribe`, `subscribe_typed`: a new subscription is left unjoined |
| `EspLoop` | `loop()`: once `netif_default` is set, `join_group_` for each unset flag, which is set whatever the outcome |
| `EspPlay`, `EspFireTimeout`, `EspFireDeferred` | `send_datagram_` fails without an interface |
| `Recv` | `recv_trampoline_`: one datagram, between any two operations |
| `NetifUp`, `NetifDown` | lwIP, external: the interface owns the memberships |

**Fabric** composes the whole of MpubsubNode with a network that loses,
repeats and reorders, and with a listener that runs the receive path and keeps
the last payload of each topic, as the sensor platform does. The listener may
restart. **LastValue** is what the two are meant to be for a subscriber, without
datagrams, keys, CRCs or timers: it holds some value published on the topic, and
in the end the one that stays current. The refinement maps `published` to the
publications `publish()` answered true for, and `current` to the latest one if
its count is -1.

**BridgeConfig** is `LoadConfig`: the defaults and every rule of `applyDefaults`
and `validate`, on YAML files given as records; `Load` takes its result, so the
bridge runs with configurations the loader lets through and no others.

**Bridge** is the daemon. An action is what one goroutine does up to its next
touch of shared state.

| Actions | Code |
|---|---|
| `Load`, `NewBridge` | `main`: read the file, open the socket |
| `Connect`, `Configure`, `StartReceiving`, `Sweep`, `TearDown` | `Run`, in its order |
| `Signal` | SIGINT or SIGTERM cancels the context |
| `handleMQTTMessage`, `HandlerSend`, `startIndefinite`, `scheduleFiniteRetransmits` | the MQTT callback: encode and cancel; send; hand over |
| `ChainTick`, `ChainSend`, `ChainExit` | the goroutine of `startIndefinite` |
| `FiniteSend` | one iteration of `scheduleFiniteRetransmits` |
| `RxTop`, `RxRead`, `RxReadError`, `RxPublish` | `mcastReceiveLoop` |
| `ConnectionLost`, `Reconnect`, `WriterWrite` | paho, external |

Loopback is on (`mcast.go`), so the bridge may read back, once and in any order,
what it sent to a group somebody on its host has joined. paho is modelled from how `bridge.go` uses it: callbacks
run one at a time (`OrderMatters` is left at its default), its writer holds at
most one PUBLISH, a lost connection with a clean session loses the broker's
subscriptions, and the client reconnects by itself. A message that paho had read
before the loss may still be handled after it (`backlog`). The writer may wait
for the broker until the connection is gone; paho's own write timeout is left
out. Publishing without a connection drops the message (QoS 0); the
acknowledgements of higher QoS are left out. A message that does not encode changes nothing and is no step. The
panic of `time.NewTicker(0)`, the first statement of a chain's goroutine, is
merged into `startIndefinite`.

**ProtoCodec** has the bodies of schema routes: varints, zigzag, fixed32 and
length-delimited fields, skipping, the checks of JSON values against types, the
rules of `NewSchema`, and the node's schemaless reader. Widths are constants, so
that whole types can be enumerated. `encoding/json`, base64, UTF-8 repair and
ESPHome's `ProtoVarInt` are external; the last is taken to read what the bridge's
`readVarint` reads, overlong varints included, so the agreement of the two
readers rests on that. The rounding of a float64 to a float32 (`Float32bits`) does
not show: a modelled number within range is exact, and `Fits` leaves the others
out of `RoundTrip`. **Translation** moves a body through it:
from a JSON object (`Translate`), from a node's `DynamicMessage` (`Add`,
`Publish`), or from anywhere (`Arrive`), then through `DecodeProto` one field
per step (`DecodeField`) and out as JSON (`Emit`), which may go round again.

## 3. Runs

| Run | Bounds | Shows |
|---|---|---|
| `wire_link` | every length in 0..24 and 1200..1240, two keys and none, two topics (one with CRC 0), foreign bodies around the buffer size | `SendersAgree`, `PeersUnderstandEachOther`, `AcceptedIsWhole` |
| `node_retransmit` | two topics, three publications, counts 1, 3 and -1, lengths 10 and 1217 with a key (cap 1216), one schema, counters mod 2 | `TypeOK`, `IndefiniteUntilSuperseded`, `SupersededNeverResent`, `FiniteResendsExact`, `EmittedIsGenuine`, `ResendsAreMade`, `ChainNeverDies` |
| `node_dispatch` | two topics, three registrations of two callbacks, two schemas, 12 kinds of datagram, a group joined only by another process | `DispatchIsExact`, `SubscribedMeansJoined` |
| `fabric` | two topics in one group (one with CRC 0), two publications of count 2 or -1, one restart of the listener | `ImplementsLastValue`, `EventuallyCurrent` |
| `esp8266` | two topics, two registrations, one publication, one outage, six kinds of datagram | `DispatchIsExact`, `IndefiniteUntilSuperseded`, `JoinedFlagIsTrue`, `EventuallyJoined` |
| `translation` | 5-bit bytes, "32-bit" integers of 5 bits and "64-bit" ones of 10; ten types, singular and repeated; 16 field lists; every body of up to 4 bytes over 8 byte values; 3 additions; two hops | `TypeOK`, `RoundTrip`, `JsonIsStable`, `ReadersAgree`, `DynamicIsUnderstood`, `DecodeAdvances` |
| `bridge` | two MQTT messages (QoS 0, 1, 2 promoted to 1, 3, -1 sends), several YAML files, a wildcard and a schema entry | `TypeOK`, `NoOrphanChain`, `JobsAreLive`, `FiniteAccounting`, `IndefiniteIsPaced`, `CancelledChainsExit`, `ChainsKeepSending` |
| `bridge_receive` | 19 YAML files, 16 of which each break one rule; three routes, two of them on one topic; 13 datagrams and the bridge's own; one MQTT message (3 or -1 sends) | `ForwardsExactly`, `TranslationIsOptIn`, `ShutdownCompletes` |
| `node_timer_collision` | two topics with one CRC32 | *violates* `IndefiniteUntilSuperseded` |
| `bridge_shutdown` | one message | *violates* `ChainsToldBeforeClose` |
| `bridge_delay` | one message, delay 0 | *violates* `IndefiniteHasDelay` |
| `bridge_alias` | two raw datagrams that differ | *violates* `RawIsVerbatim` |

*Why the bounds are enough.* Topics interact only through shared CRCs and shared
groups, so two are enough for every pairwise effect. Two publications make one
supersede another; in `node_retransmit` a third meets the pending resends of
both. The code looks at no more than one callback, one route and one datagram at
a time, so two of each show interference. One restart and one outage put a reset
in front of, between and after everything else; nothing counts them. The
counters are taken mod 2 so that they wrap; `UINT32_MAX`, the "never published"
value, is `CounterMod - 1`. The codec's arithmetic is uniform in its widths: what
matters is that the 64-bit type is wider than the 32-bit one, does not fill the
longest varint, and exceeds what JSON numbers hold (`Exact`), and the constants
keep that. `MaxPublishes`, `MaxRegistrations`, `MaxBatch`, `MaxMessages`,
`MaxRestarts`, `MaxOutages`, `MaxAdditions` and `MaxHops` are the only bounds
that cut behaviours. The theorems below hold for every value of these constants,
and for every set of topics, keys, lengths and arrivals.

*Deadlock* is not checked: a failed component and an exited daemon stop, and the
wire link and the translation end.

*Fairness.* For the node, weak fairness of each chain timeout and of the finite
resends: ESPHome's scheduler runs whatever is due. Sends may fail for ever, and
no fairness is assumed of users or of the network. The fabric asks more, because
a listener cannot hear what is never delivered: a chain's sends do not fail for
ever, a publication that is in flight again and again is heard again and again
(strong fairness), and no datagram stays in flight for ever. For ESP8266, weak
fairness of `loop()`; the interface may stay away. For the bridge, weak fairness
of goroutines that can run; `Read` is only sure to return once the socket is
closed, and paho's write once the connection is gone; strong fairness of a chain's exit, because Go's `select` chooses
uniformly among ready cases, so a closed channel met infinitely often is chosen.

### What the violated runs show

* `node_timer_collision`: the timeout id is the topic's CRC32, so publishing on
  one topic ends the chain of another with the same CRC. The header says the
  chain lasts "until a new publish() for the same topic supersedes it".
* `bridge_shutdown`: the sweep of the jobs map runs once. A handler that is
  between its send and `startIndefinite` installs a chain after it.
* `bridge_delay`: QoS promotion reaches count -1 with any delay; 0 panics.
* `bridge_alias`: a plaintext raw payload aliases the receive buffer and may be
  overwritten before paho writes it out.

### Seen in the model, without a run of their own

* The header says the chain is cancelled "at the top of publish()"
  (`multicast_pubsub.h`); the code cancels after a successful send. A failed
  publish leaves the old value being resent. The bridge, whose comment says it
  mirrors this, cancels before it sends.
* `bridges/mqtt-go/README.md:56-58` says that the bridge sends RAW only and drops
  incoming PROTOBUF on the way to MQTT. Entries with a schema send PROTOBUF
  (`bridge.go:202`) and forward it as JSON (`bridge.go:378`), and `ForwardsExactly`
  requires it. `TranslationIsOptIn` says when that passage is right: without
  `json_translation`.
* `mcast.go:69-71` ("echoing one direction does not feed back into the other") and
  `bridges/mqtt-go/README.md:66-70` ("it would only matter if you configured a third
  route") say that the bridge's re-receiving its own datagrams has no effect. With
  one topic bridged in both directions, under the distinct MQTT names that
  `README.md:60-63` advises, what it sends for an MQTT message it reads back and
  publishes to MQTT: its datagrams are routed like any other, `ForwardsExactly`
  requires it, and `BothWaysYaml` of `bridge_receive` does it. Whether the echo
  becomes a loop is up to where the broker's topics lead.
* `bridge.go:214-215`: "Any new publish to a topic supersedes a prior indefinite
  chain for that topic, even if the new publish is finite." Closing the chain's
  channel does not stop a goroutine past its `select`, nor for certain one that
  has a tick waiting: the old datagram may go out after the new one. If the new
  one is finite, it may be the last that listeners hear. `CancelledChainsExit`
  says no more than that the chain ends.
* The header says `join_group_` is called from `setup()` and
  `find_or_create_subscription_` on ESP8266; only `loop()` calls it. The flag is
  set even when the join fails, and stays set when the interface goes: those two
  exceptions are in `JoinedFlagIsTrue` and `EventuallyJoined`.
* After a failed bind the socket build keeps its socket, so a failed component
  still sends, and joins groups for later subscriptions. `SubscribedMeansJoined`
  is about a bound socket and says nothing of this state.
* After a finite publication nothing brings an older value's resend back into
  line: a listener may end on the older one. `EventuallyCurrent` is about
  indefinite publications for that reason.
* A lost connection loses the bridge's MQTT subscriptions, and no handler makes
  them again after a reconnect.
* The length rule of `docs/PROTOCOL.md` §4 has the exception that
  `AcceptedIsWhole` states: an over-long datagram is cut to 1232 bytes before its
  length is tested. The "144 bits" a false positive needs (§3.2) are 32 among
  the topics one host subscribes to, since `deliver_` compares the CRC only; this
  is why `DispatchCorrect` needs `CrcInjective`.

## 4. Proofs

| Theorem | Statement | Hypothesis |
|---|---|---|
| `NodeProofs!TypeCorrect` | `Spec => []TypeOK` | |
| `NodeProofs!ChainsCorrect`, `SupersededIsSilent` | `Spec => []IndefiniteUntilSuperseded`, `Spec => []SupersededNeverResent` | `CrcInjective` |
| `NodeProofs!FiniteResendsCorrect` | `Spec => []FiniteResendsExact` | |
| `NodeProofs!EmissionsCorrect` | `Spec => []EmittedIsGenuine` | |
| `NodeProofs!DispatchCorrect` | `Spec => []DispatchIsExact` | `CrcInjective` |
| `NodeProofs!MembershipCorrect` | `Spec => []SubscribedMeansJoined` | |
| `Esp8266Proofs!EspTypeCorrect` | `EspSpec => []TypeOK /\ []SubInv` | |
| `Esp8266Proofs!EspJoinsCorrect` | `EspSpec => []JoinedFlagIsTrue` | |
| `Esp8266Proofs!EspDispatchCorrect` | `EspSpec => []DispatchIsExact` | `CrcInjective` |
| `Esp8266Proofs!EspChainsCorrect` | `EspSpec => [](IndefiniteUntilSuperseded /\ SupersededNeverResent)` | `CrcInjective` |
| `FabricProofs!FabricImplementsLastValue` | `FabricSpec => ImplementsLastValue` | `CrcInjective` |
| `BridgeProofs!TypeCorrect` | `Spec => []TypeOK /\ []ConfigInv` | |
| `BridgeProofs!ChainsCorrect`, `JobsCorrect` | `Spec => []NoOrphanChain /\ []JobsAreLive` | |
| `BridgeProofs!FiniteCorrect` | `Spec => []FiniteAccounting` | |
| `BridgeProofs!PaceCorrect` | `Spec => []IndefiniteIsPaced` | |
| `BridgeRoutingProofs!OptInCorrect` | `Spec => []TranslationIsOptIn` | |
| `BridgeRoutingProofs!RoutingCorrect` | `Spec => []ForwardsExactly` | `CrcInjective` |
| `TranslationProofs!TranslationTypeCorrect` | `Spec => []TypeOK` | |
| `TranslationProofs!DecodeAdvancesAlways` | `Spec => DecodeAdvances` | |
| `TranslationProofs!ReadersAgreeAlways` | `Spec => []ReadersAgree` | |
| `TranslationProofs!DynamicUnderstoodAlways` | `Spec => []DynamicIsUnderstood` | |
| `TranslationProofs!RoundTripAlways` | `Spec => []RoundTrip` | |
| `TranslationProofs!JsonIsStableAlways` | `Spec => []JsonIsStable` | |
| `TranslationProofs!VarintReadsBack`, `ValueReadsBack` | `readVarint` undoes `appendVarint`, and `decodeValue` undoes `appendValue` for every type; `skipField` goes as far | the value is one of its type |
| `WireLinkProofs!SendersAgreeAlways`, `PeersInteroperate`, `LengthsAreChecked` | the three properties of `wire_link` | |
| `WireFormatProofs!RefusalsAgree`, `SameDatagram`, `DatagramIsReadable` | facts about the codecs for every length and key | |

*What is assumed.* Besides the hypotheses of the table, the modules' `ASSUME`s:
the constants have their types (`YamlFiles` for the bridge's files: what
`yaml.Unmarshal` can put into the Go structs); a wrong key shows the CRC of no
topic (`WireAssumption`); other nodes use the CRC of the topic they publish on
(`ArrivalAssumption`: nothing else about a datagram need be right); widths are
related as the real ones are (`CodecAssumption`: a tag fits the 32-bit type, the
64-bit type is a multiple of the 32-bit one and needs the longest varint but
does not exceed it); every float32 is a float64 (`FloatAssumption`); what a node's `add_*` is given is of its C++ type
(`TranslationAssumption`). The real constants satisfy each of them.
`CrcInjective` (no two topics share a CRC32) is not assumed, because nothing in
the code ensures it: it is the hypothesis that `node_timer_collision` shows to be
needed.

*The argument for the node.* None of the properties is inductive alone. The
invariant has these parts, each proved on top of `TypeOK`:

* `Numbered`: publications are numbered by calls, and nothing is scheduled or
  made for one that was not accepted. Without it a fresh publication could find
  resends of its own number.
* `ChainInv`: the timeout table mirrors the jobs map, and the jobs map the
  latest publications. `IndefiniteUntilSuperseded` speaks of the timeouts only;
  `FireTimeout` re-arms from the map, so both are needed.
* `DeferredInv`: a pending resend is determined by its publication and index, so
  firing one removes just that one from `Pending`.
* `GenuineInv`: whatever a job, timeout or resend holds is genuine. With
  `DatagramIsReadable` for the first send it gives `EmittedIsGenuine`.
* `SubInv`: the subscription records are what the registrations add up to. With
  `RecoveredTopic` (the CRC read from a datagram is that of its topic or of
  none) this gives the two directions of `DispatchIsExact`.

*The argument for the fabric.* A step of the fabric is a step of the node or
leaves the node alone, so `TypeCorrect` carries over. `FabricInv` adds: every
packet held by a job, a timeout or a resend, just emitted, or in flight carries
the CRC of its topic and a publication sent on it (`TimersTell`, `OutTells`,
`NetworkTells`), and `sent` has the latest publications and none with a number
still to come (`SentInv`, which makes an accepted `publish()` an abstract
`Publish` of a new value). `HeardOnItsTopic` says that the CRC the listener
recovers leads it to no other topic; with it a delivery is `Hear` or nothing.

*The argument for the link.* `LinkInv`: the wire holds what the C++ encoder makes
of the request, whoever sent it (`SameDatagram`), and the verdict is the C++
receiver's, whoever received it (`ReceiversAgree`).

*The argument for the ESP8266 half.* `SharedSteps` compares the two builds:
`publish()` and the timeouts are steps of the socket half that leave interface
and subscriptions alone, and every other step leaves publications and timers
alone. The invariants of NodeProofs therefore carry over through its step lemmas
instead of being proved again. What is new is the joining: `JoinedFlagIsTrue`
needs `SubInv` (a flag belongs to a subscription somebody asked for) and is
inductive with it.

*The argument for the bridge.* `ConfigInv` says that what runs is what
`LoadConfig` let through. Then, each on top of `TypeOK`:

* `HandlerInv` and `NumberInv`: messages are numbered; the callback in progress
  has the newest, and its topic's chain is already cancelled. Without them a
  chain could be installed over a live one.
* `ChainInv`: a goroutine that is not told to stop is in the jobs map, no channel
  in the map is closed, and each has its goroutine. The three only hold
  together: `startIndefinite` takes a channel that nobody closed (`HandlerInv`),
  `Sweep` closes just what the map holds.
* `FiniteInv`: of each message, either nobody has sent it, or the callback is
  about to hand it over, or one goroutine is at work on it with as many sends as
  were counted, or it is done, or it was broken off before its last send.
* `PacedInv`: without `promote_qos`, what is or will be indefinite came from a
  configuration whose delay `validate` checked.
* `PacketInv`: whatever the bridge holds, sends or reads back from the loopback
  is a datagram of its own key, with the CRC of its topic. `RouteInv`: the
  routing table has the entries configured so far, and the receive loop starts
  after the last. With them `ForwardsExactly` reduces to facts about
  `LoadConfig` (an entry's schema is the only one of its id) and the codec.
  `RawInv`: with the translation off, only raw datagrams are ever forwarded.

*The argument for the codec.* The loops of `proto.go` are recursive functions,
and `ProtoCodec` keeps `RECURSIVE` out. The library's induction theorems have an
operator as parameter and cannot be used, but a set can stand for it:
`LeastElement` (from `WFMin` and `NatLessThanWellFounded`) gives
`IntervalInduction`, and that gives `Recursion` and `StepRecursion`, which say
that a recursive function satisfies its equations. `VarintReadsBack` follows the
bytes of a varint from both ends: `appendVarint` puts the low digit first
(`VarintShape`), the value of a varint is its low digit plus the base times the
value of the rest (`VarintValueCons`), and `MaxVarintLen` digits are enough
(`VarintLength`). The state invariant is `TypeOK` with `i = 0` while the
body is still with its sender, since `Add` and `Arrive` replace the body under
an index. `TurnTypes` bounds one turn of the loop, whatever it reads: hence
`TypeOK` and `DecodeAdvances`. `NextReads` gives `DynamicReader::next` in the
terms of `readVarint` and `skipField`: hence `ReadersAgree`. `ValueReadsBack`
adds the conversions (`ConversionsUndone`: two's complement and zigzag;
`LowerBits`: a negative int32 is sent as 64 bits and cut to 32; `FixedReadsBack`:
fixed32) for every width.

For `DynamicIsUnderstood` the invariant `DynamicInv` says that a body under
construction is laid out in fields (`Laid`), that the decoder is at the beginning
of one or at the end, and that `values` is what the fields before it tell
(`Understood`). `LaidLonger` is the step of `Add`; `TurnReads` and
`TurnUnderstands` are that of the loop, by `VarintReadsBack` for the tag and
`ValueReadsBack` for the value; `UnderstoodMarshals` that of `Emit`. `Power` is
used for `^`, of which the provers know nothing.

*The argument for whole objects.* `RoundTrip` is about what `EncodeProto` writes
for an object. `LaidSchema` shows that this is `Laid` too, for a list of fields
that tells, tag by tag, the elements the object has (`Tells`): the schema is
written field by field (`UptoSteps`), a field element by element (`LaidField`),
and tags are unique. `FittingReadsBack` says of one value that fits its field
that `jsonScalarToGo` makes of it something the field carries, and that
`goScalarToJSON` undoes that (`TextReadsBack` for base64, `TextIsMadeValid` for
UTF-8, `FloatIsFloat64`). The invariant `RoundInv` then has the shape of
`DynamicInv`: while the body is decoded, the decoder is at the beginning of one
of the object's fields and has understood those before (`Decodes`). A turn of
the loop is `TurnUnderstands` again, whose one way to fail, a field of another
type, compatible schemas exclude. At the end `ObjectComesBack` compares what
was gathered with `Shared`, field by field; that an object which fits is not
refused is `FittingObject`.

`JsonIsStable` starts from bytes of any origin. `DecodedIsCarried` says that
whatever `decodeValue` accepts is of its type's range or the infinity
(`VarintIsCarried`, `FloatIsCarried`), and `Collected` that this holds of all
that `DecodeProto` has, with no empty list. What `ProtoToJSON` emits is
therefore `Settled`: it fits its schema but for integers beyond `Exact`
(`CollectedSettles`, `SettledFits`). `StableInv` keeps that for the object at
hand and for the one the body was translated from. A schema shares all of a
settled object with itself (`SharedWithItself`), so `RoundInv` gives the rest.

Proving `TypeOK` corrected the model of base64 text: the characters in even
positions were left unchecked, so that a decoded byte could exceed a byte. The
bodies of the run did not tell. Proving `DynamicIsUnderstood` showed that it had
been stated too widely: it also spoke of the body that results when the bridge's
own JSON is translated back, where integers beyond `Exact` are lost. It is now
about the body the node built, says in addition when such a body may be refused,
and the run has an addition beyond `Exact`.

Proving `RoundTrip` showed that `Fits` had to bound the length of text. A length
is written modulo 2^64, so for text of 2^64 bytes, which only a model has, the
property was false. It also showed why the run's widths matter: a float32 comes
back through JSON only if a float64 holds it, which `FloatAssumption` now says
and TLC evaluates.

*Model-checked only:* liveness (`ResendsAreMade`, `ChainNeverDies`,
`EventuallyCurrent`, `EventuallyJoined`, `CancelledChainsExit`,
`ChainsKeepSending`, `ShutdownCompletes`), which this prover does not do.

## 5. Not modelled, and why

* **ESPHome configuration and code generation** (`__init__.py`,
  `proto_emitter.py`, `sensor.py`): Python that runs at build time, keeps no
  state and emits C++ text. MpubsubNode takes any count and length, so it covers
  whatever these validators let through.
* **SHA-256, CRC32, XXTEA rounds**: bit-level functions, out of TLC's reach.
  They are arbitrary functions or an ideal cipher. The canonical string behind a
  SCHEMA_ID, and its hash, likewise: a SCHEMA_ID is a value schemas have.
* **Time.** Delays order the timeouts and nothing more, so the uint32 product
  `retransmit_delay_ms_ * i` is not modelled.
* **The sensor platform's `%.6g` and `strtof`**; logging.
* **`subscribe()` from inside a callback**, which may reallocate the vector
  `deliver_` iterates over: the model has no addresses.
* **Nested messages** beyond their bytes; the bridge refuses them.
* **Tests and probes** under `tests/`.

## 6. Plan

Modelled: everything above section 5. Proved: every safety property of the
passing runs. What would come next is outside the present tools: the liveness
properties for every value of the constants (a prover with `ENABLED` and
fairness), and the functions of section 5 that are arbitrary here (SHA-256,
CRC32, XXTEA), for which `WireAssumption` and `CrcInjective` stand.

## 7. Running it

```
tlc -workers 2 -config MCNodeRetransmit.cfg MCNode
tlapm NodeProofs.tla
```
