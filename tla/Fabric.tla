------------------------------- MODULE Fabric -------------------------------
(***************************************************************************)
(* Two nodes and the network between them.  The publisher is MpubsubNode,  *)
(* whole; the listener runs the receive path of the same component, with a *)
(* raw subscription on every topic that keeps the last payload, as the     *)
(* sensor platform does.  The network (external) loses, repeats and        *)
(* reorders datagrams, and the listener may restart, which empties its     *)
(* memory.  Together they implement LastValue.                             *)
(***************************************************************************)
EXTENDS NodeProperties

CONSTANTS
  listener_key,   \* the listener's key, or NoKey
  MaxRestarts     \* bound: restarts of the listener

VARIABLES
  network,   \* datagrams in flight, with their group
  held,      \* topic -> the publication the listener last heard, 0 if none
  restarts,  \* restarts of the listener so far
  sent       \* history: topic -> the publications publish() answered true for

fabric == <<network, held, restarts, sent>>
fabricVars == <<vars, fabric>>

FabricInit ==
  /\ Init /\ network = {} /\ restarts = 0
  /\ held = [t \in Topics |-> 0] /\ sent = [t \in Topics |-> {}]

\* A step of the publisher; what it emits is in flight.
Transmit ==
  /\ network' = network \cup {out'[k] : k \in DOMAIN out'}
  /\ sent' = [t \in Topics |-> sent[t] \cup ({latest'[t]} \ {0})]
  /\ UNCHANGED <<held, restarts>>

PublisherStep == Next /\ Transmit

(***************************************************************************)
(* The listener reads m, as loop() and on_packet_ do, and deliver_ calls   *)
(* the subscriptions with its CRC.  m may arrive again.                    *)
(***************************************************************************)
HeardOn(m) ==
  LET d == ReadInto(m.datagram) IN
  {t \in Topics : /\ Accepted(d, listener_key)
                  /\ topic_crc32[t] = RecoveredCrc(d, listener_key)
                  /\ d.header.encoding = "RAW"}

Deliver(m) ==
  /\ m \in network
  /\ held' = [t \in Topics |-> IF t \in HeardOn(m)
                               THEN m.datagram.body.payload.pub ELSE held[t]]
  /\ UNCHANGED <<vars, network, restarts, sent>>

\* m was lost, or its last copy has arrived.
Expire(m) ==
  /\ network' = network \ {m}
  /\ UNCHANGED <<vars, held, restarts, sent>>

Restart ==
  /\ restarts < MaxRestarts
  /\ restarts' = restarts + 1 /\ held' = [t \in Topics |-> 0]
  /\ UNCHANGED <<vars, network, sent>>

FabricNext ==
  \/ PublisherStep
  \/ \E m \in network : Deliver(m) \/ Expire(m)
  \/ Restart

(***************************************************************************)
(* The publisher's scheduler runs what is due; a chain's sends and the     *)
(* network do not fail for ever (a publication sent again and again is     *)
(* heard again and again), and no datagram stays in flight for ever.       *)
(***************************************************************************)
Of(p) == {m \in network : m.datagram.body.payload.pub = p}

FabricFairness ==
  /\ WF_fabricVars(PublisherStep /\ \E x \in deferred : FireDeferred(x))
  /\ \A id \in Crcs :
       WF_fabricVars(PublisherStep /\ FireTimeout(id) /\ out' # <<>>)
  /\ \A p \in Publications :
       /\ SF_fabricVars(\E m \in Of(p) : Deliver(m))
       /\ WF_fabricVars(\E m \in Of(p) : Expire(m))

FabricSpec == FabricInit /\ [][FabricNext]_fabricVars /\ FabricFairness

-----------------------------------------------------------------------------
Abstract == INSTANCE LastValue WITH
  Values <- Publications, NoValue <- 0, published <- sent,
  current <- [t \in Topics |-> IF Indefinite(t) THEN latest[t] ELSE 0]

(***************************************************************************)
(* Publisher, network and listener implement LastValue: what the listener  *)
(* holds for a topic was published on that topic by a publish() that       *)
(* answered true, through resends, encryption, a shared group and the      *)
(* blanked CRC; only a publication changes what is current.                *)
(***************************************************************************)
ImplementsLastValue == Abstract!Spec

(***************************************************************************)
(* Indefinite retransmission keeps its promise to listeners: a publication *)
(* that stays current ends up held, and stays held, whatever was lost,     *)
(* whenever the listener restarted, and although finite resends of older   *)
(* publications may be heard after it.                                     *)
(***************************************************************************)
EventuallyCurrent == Abstract!Settles
=============================================================================
