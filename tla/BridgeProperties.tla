-------------------------- MODULE BridgeProperties --------------------------
(***************************************************************************)
(* What the bridge promises: about the retransmission goroutines, about    *)
(* what it forwards, and about shutting down.                              *)
(***************************************************************************)
EXTENDS Bridge

Jobs == {indefiniteJobs[t] : t \in Topics} \ {NoChan}
Open(x) == x.pub \notin closed

(***************************************************************************)
(* A chain that has not been told to stop is the one the jobs map knows    *)
(* for its topic, and resends the newest message handled on it: no message *)
(* leaves behind a goroutine that nobody can cancel any more.              *)
(***************************************************************************)
NoOrphanChain ==
  \A x \in chains : Open(x) =>
    indefiniteJobs[x.topic] = x.pub /\ x.pub = newest[x.topic]

(***************************************************************************)
(* Every channel in the jobs map is open, belongs to one topic, and has a  *)
(* goroutine that listens to it: cancelIndefinite and the shutdown never   *)
(* close a channel twice, which would panic.                               *)
(***************************************************************************)
JobsAreLive ==
  /\ closed \cap Jobs = {}
  /\ \A t, u \in Topics :
       (indefiniteJobs[t] = indefiniteJobs[u] /\ t # u) =>
         indefiniteJobs[t] = NoChan
  /\ Alive => \A c \in Jobs : \E x \in chains : x.pub = c

(***************************************************************************)
(* A message sent with a finite count is emitted exactly that often unless *)
(* a resend failed, never more often, and an indefinite one is never also  *)
(* given to a finite goroutine: at every moment, what was emitted and what *)
(* its goroutine has left add up to the count.                             *)
(***************************************************************************)
Left(p) == IF handler.at = "schedule" /\ handler.pub = p /\ handler.count > 1
           THEN {handler.count - 1}
           ELSE {x.count - x.i : x \in {y \in finite : y.pub = p}}

FiniteAccounting ==
  \A p \in Messages : count_of[p] # 0 =>
    IF count_of[p] = -1 THEN emitted[p] = 1 /\ Left(p) = {}
    ELSE IF p \in broken THEN emitted[p] < count_of[p] /\ Left(p) = {}
    ELSE \/ Left(p) = {} /\ emitted[p] = count_of[p]
         \/ Left(p) = {count_of[p] - emitted[p]}

(***************************************************************************)
(* The routing, stated from the YAML file: of every datagram it reads, its *)
(* own included, the loop serves exactly the entries for the datagram's    *)
(* own topic that want its encoding and schema, can be read with the       *)
(* bridge's key and, if the entry demands it, arrived encrypted with it.   *)
(* Two passages of the documentation disagree with the code, and so with   *)
(* this.  bridges/mqtt-go/README.md:57 has incoming PROTOBUF dropped: that *)
(* is so without json_translation only.  mcast.go:70 and README.md:66 say  *)
(* that hearing its own datagrams does not feed back into MQTT: it does    *)
(* when a topic is bridged in both directions.                             *)
(***************************************************************************)
MustForward(b, d) ==
  /\ b.direction = "mpubsub_to_mqtt" /\ b.mpubsub_topic = d.body.payload.topic
  /\ DecodeAccepts(d, yaml.key)
  /\ IF was_encrypted(d) THEN yaml.key = d.body.key ELSE ~b.require_encryption
  /\ b.schema = "" <=> d.header.encoding = "RAW"
  /\ b.schema # "" =>
       /\ d.body.payload.len >= 2 /\ d.body.payload.valid
       /\ \E j \in DOMAIN yaml.schemas :
            /\ yaml.schemas[j].id = b.schema
            /\ yaml.schemas[j].schema_id = d.body.payload.schema

ForwardsExactly ==
  buf # Nothing =>
    /\ todo \cup forwarded =
         {i \in DOMAIN yaml.bridges : MustForward(yaml.bridges[i], buf)}
    /\ todo \cap forwarded = {}

(***************************************************************************)
(* config.go on json_translation: it "keeps the feature opt-in so a bridge *)
(* binary upgrade can't silently start reinterpreting payloads": without   *)
(* it in the YAML file, all that is sent and all that is forwarded is RAW. *)
(***************************************************************************)
TranslationIsOptIn ==
  ~yaml.json_translation =>
    /\ out # Nothing => out.packet.datagram.header.encoding = "RAW"
    /\ forwarded # {} => buf.header.encoding = "RAW"

(***************************************************************************)
(* Without promote_qos every indefinite chain is paced by at least one     *)
(* second, whatever the YAML file leaves out, and so no ticker panics.     *)
(***************************************************************************)
IndefiniteIsPaced ==
  ~yaml.promote_qos =>
    phase # "panicked" /\ (Jobs # {} => RetransmitDelay >= 1000)

-----------------------------------------------------------------------------
(***************************************************************************)
(* A chain that was cancelled ends.                                        *)
(***************************************************************************)
CancelledChainsExit ==
  \A p \in Messages :
    p \in closed ~> (~Alive \/ \A x \in chains : x.pub # p)

(***************************************************************************)
(* A chain that stays in the map keeps sending while the bridge runs,      *)
(* whatever errors its sends meet.                                         *)
(***************************************************************************)
ChainsKeepSending ==
  \A p \in Messages :
    <>[](Alive /\ p \in Jobs) =>
      []<><<\E x \in chains : x.pub = p /\ ChainSend(x)>>_vars

(***************************************************************************)
(* After SIGINT or SIGTERM, Run returns, although it waits for the receive *)
(* loop: neither a datagram whose routes are still to be published to, nor *)
(* a PUBLISH that a stalled broker does not take, nor a Read that nothing  *)
(* arrives for, nor a retransmission or a handler at work holds it back.   *)
(***************************************************************************)
ShutdownCompletes == ctx_done ~> ~Alive

-----------------------------------------------------------------------------
(***************************************************************************)
(* bridge.go on shutdown: "Tell any indefinite-retransmit goroutines to    *)
(* exit before we tear down the multicast socket they're writing to".      *)
(***************************************************************************)
ChainsToldBeforeClose == ~SocketOpen => \A x \in chains : ~Open(x)

(***************************************************************************)
(* config.go on retransmit_count -1: "Requires RetransmitDelay >= 1s       *)
(* (enforced at config time)".                                             *)
(***************************************************************************)
IndefiniteHasDelay == Jobs # {} => RetransmitDelay >= 1000

(***************************************************************************)
(* bridge.go on a route without schema: it "forwards RAW packets           *)
(* verbatim": the broker gets the payload of the datagram that was routed. *)
(***************************************************************************)
RawIsVerbatim ==
  delivered # Nothing => delivered.payload = delivered.from.body.payload
=============================================================================
