--------------------------- MODULE NodeProperties ---------------------------
(***************************************************************************)
(* What MpubsubNode promises: about retransmission, to the network; about  *)
(* dispatch, to the callbacks; and what the scheduler's fairness adds.     *)
(***************************************************************************)
EXTENDS MpubsubNode

-----------------------------------------------------------------------------
(***************************************************************************)
(* Retransmission chains.  The documentation's promise is about topics;    *)
(* the code keys its timeouts by the topics' CRC32, so the promise needs   *)
(* distinct topics to have distinct CRCs (CrcInjective).                   *)
(***************************************************************************)
Indefinite(t) == latest[t] # 0 /\ count_of[latest[t]] = -1

(***************************************************************************)
(* "Keep retransmitting forever until a new publish() for the same topic   *)
(* supersedes it" (multicast_pubsub.h): as long as the last publication    *)
(* sent on a topic had count -1, its own timeout is armed.  No publication *)
(* on another topic and no failed send ends the chain.                     *)
(***************************************************************************)
IndefiniteUntilSuperseded ==
  \A t \in Topics : Indefinite(t) =>
    /\ timeouts[topic_crc32[t]] # NoJob
    /\ timeouts[topic_crc32[t]].topic = t
    /\ timeouts[topic_crc32[t]].pub = latest[t]

(***************************************************************************)
(* A superseded publication is never resent by a chain: whatever timeout   *)
(* is armed carries the last publication sent on its topic, and that one   *)
(* asked for indefinite retransmission.                                    *)
(***************************************************************************)
SupersededNeverResent ==
  \A id \in Crcs : timeouts[id] # NoJob =>
    /\ Indefinite(timeouts[id].topic)
    /\ timeouts[id].pub = latest[timeouts[id].topic]

(***************************************************************************)
(* A publication sent with a finite count c is followed by exactly c - 1   *)
(* further attempts: each is either still pending or was made, and none is *)
(* lost to, or duplicated by, the publications and chains around it.       *)
(***************************************************************************)
Pending(p) == {x.i : x \in {y \in deferred : y.pub = p}}
Made(p) == {i \in 1..count_of[p] : <<p, i>> \in fired}

FiniteResendsExact ==
  \A p \in Publications :
    /\ Pending(p) \cup Made(p) = 1..(count_of[p] - 1)
    /\ Pending(p) \cap Made(p) = {}

(***************************************************************************)
(* Every datagram the node ever emits, first send or resend, fits the      *)
(* datagram limit, passes decode() at any peer, and carries a publication  *)
(* that publish() answered true for: a refused or failed publish() is      *)
(* never transmitted later.                                                *)
(***************************************************************************)
EmittedIsGenuine ==
  \A k \in DOMAIN out :
    LET d == out[k].datagram IN
    /\ d.size <= MAX_DATAGRAM /\ decode(d)
    /\ d.body.payload.pub \in accepted
    /\ out[k].to = topic_to_group[d.body.payload.topic]

-----------------------------------------------------------------------------
(***************************************************************************)
(* Dispatch, stated from the calls users made and the topics senders used, *)
(* without CRCs or subscription records.  A registration hears a datagram  *)
(* iff it is well formed, was sent on the registration's topic in its      *)
(* encoding and schema, is readable with this node's key, and is encrypted *)
(* if ANY caller ever demanded encryption on that topic.                   *)
(***************************************************************************)
Hears(r, d) ==
  LET payload == d.body.payload IN
  /\ decode(d)
  /\ payload.topic = r.topic
  /\ was_encrypted(d) => encryption_key # NoKey /\ encryption_key = d.body.key
  /\ (\E q \in registered : q.topic = r.topic /\ q.require) => was_encrypted(d)
  /\ IF r.schema = RawSchema
     THEN d.header.encoding = "RAW"
     ELSE /\ d.header.encoding = "PROTOBUF"
          /\ payload.len >= 2 /\ payload.schema = r.schema

(***************************************************************************)
(* Every loop() invokes exactly the callbacks that must hear each datagram *)
(* it drained: none is missed, none hears another topic's, another         *)
(* schema's or an unprotected datagram, whatever order the subscribe()     *)
(* calls, the setup and the datagrams came in.                             *)
(***************************************************************************)
DispatchIsExact ==
  calls = {Call(x[1], x[2].topic, x[2].schema, x[2].cb) :
             x \in {y \in (DOMAIN batch) \X registered :
                      Hears(y[2], ReadInto(batch[y[1]].datagram))}}

(***************************************************************************)
(* Once the socket is bound, every subscribed topic's group is joined,     *)
(* whether it was subscribed before setup() or after it, unless its own    *)
(* IPV6_JOIN_GROUP failed; the socket is in no other group.                *)
(***************************************************************************)
SubscribedMeansJoined ==
  LET wanted == {r.topic : r \in registered} IN
  socket = "bound" =>
    /\ \A t \in wanted \ join_failed : topic_to_group[t] \in groups
    /\ groups \subseteq {topic_to_group[t] : t \in wanted}

-----------------------------------------------------------------------------
(***************************************************************************)
(* Every finite retransmit is eventually attempted.                        *)
(***************************************************************************)
ResendsAreMade ==
  \A p \in Publications :
    (Pending(p) # {}) ~> (Pending(p) = {} /\ Made(p) = 1..(count_of[p] - 1))

(***************************************************************************)
(* A chain that is never superseded resends its topic for ever: failed     *)
(* sends and the other topics' traffic never silence it.                   *)
(***************************************************************************)
ChainSends(t) ==
  \E id \in Crcs : timeouts[id].topic = t /\ FireTimeout(id)

ChainNeverDies ==
  \A t \in Topics :
    <>[]Indefinite(t) => []<><<ChainSends(t)>>_vars
=============================================================================
