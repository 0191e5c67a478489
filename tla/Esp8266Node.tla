----------------------------- MODULE Esp8266Node -----------------------------
(***************************************************************************)
(* The component on ESP8266 (multicast_pubsub.cpp, the USE_ESP8266 half):  *)
(* lwIP's raw API instead of sockets.  A pcb takes the socket's place; the *)
(* network interface comes up some time after setup(), so groups are       *)
(* joined by loop() and nothing can be sent before; datagrams arrive in a  *)
(* callback of lwIP, one at a time, between any two operations.  What the  *)
(* two halves share (publish, retransmission, dispatch) is MpubsubNode's.  *)
(*                                                                         *)
(* External: the interface, up or down, owns the group memberships, and    *)
(* loses them when it goes.                                                *)
(***************************************************************************)
EXTENDS NodeProperties

CONSTANT MaxOutages    \* bound: times the interface goes away

VARIABLES
  netif,     \* netif_default is set
  joined,    \* the subscriptions whose joined flag is set
  outages,   \* times the interface went away
  orphaned   \* history: topics whose flag was set when it did

esp == <<netif, joined, outages, orphaned>>
espVars == <<vars, esp>>

EspInit ==
  /\ Init
  /\ netif = FALSE /\ joined = {} /\ outages = 0 /\ orphaned = {}

\* setup(): a failed bind removes the pcb; nothing is joined yet.
EspSetup ==
  /\ socket = "none" /\ ~failed
  /\ \/ failed' = TRUE /\ UNCHANGED <<socket, joined>>
     \/ socket' = "bound" /\ joined' = {} /\ UNCHANGED failed
  /\ Emits(<<>>)
  /\ UNCHANGED <<subscriptions, groups, timers, counters, pubHistory,
                 subHistory, netif, outages, orphaned>>

\* A mutant: a new subscription keeps the default of its joined flag, true.
CreatedAsJoined(t) == joined \cup {t}

\* The joined flags after find_or_create_subscription_: a new one is not set.
create_unjoined(t) == joined

\* subscribe() and subscribe_typed().
EspSubscribe(t, schema, cb, require) ==
  /\ MayRegister(t, schema, cb)
  /\ LET sub == find_or_create_subscription(t, require) IN
     subscriptions' = [subscriptions EXCEPT
       ![t] = IF schema = RawSchema
              THEN [sub EXCEPT !.raw_callbacks = @ \cup {cb}]
              ELSE [sub EXCEPT !.typed_callbacks = @ \cup {<<schema, cb>>}]]
  /\ joined' = create_unjoined(t)
  /\ registered' = registered \cup {Registration(t, schema, cb, require)}
  /\ Emits(<<>>)
  /\ UNCHANGED <<socket, failed, groups, timers, counters, pubHistory,
                 join_failed, netif, outages, orphaned>>

\* A mutant: the flags are set although the interface is not there yet.
JoinsDueAnyway(t) == find_subscription(t) /\ t \notin joined

\* Subscriptions loop() sees to: the interface is there, the flag is not set.
joins_due(t) == netif /\ find_subscription(t) /\ t \notin joined

(***************************************************************************)
(* loop(): join_group_ for every subscription due, its flag set whether or *)
(* not mld6_joingroup_netif succeeds (it does not without an interface);   *)
(* then the metrics.                                                       *)
(***************************************************************************)
EspLoop ==
  LET due == {t \in Topics : joins_due(t)} IN
  /\ socket = "bound" /\ ~failed
  /\ joined' = joined \cup due
  /\ \E ok \in SUBSET due :
       /\ netif \/ ok = {}
       /\ groups' = groups \cup {topic_to_group[t] : t \in ok}
       /\ join_failed' = IF netif THEN join_failed \cup (due \ ok)
                                  ELSE join_failed
  /\ last_published_sent' = packets_sent
  /\ last_published_received' = packets_received
  /\ Emits(<<>>)
  /\ UNCHANGED <<socket, failed, subscriptions, timers, packets_sent,
                 packets_received, pubHistory, registered, netif, outages,
                 orphaned>>

\* publish() and send_datagram_: as with a socket, but nothing goes out
\* without an interface.
NeedsNetif == (~netif => out' = <<>>) /\ UNCHANGED esp

EspPlay(t, len, schema, override) == play(t, len, schema, override) /\ NeedsNetif
EspFireTimeout(id) == FireTimeout(id) /\ NeedsNetif
EspFireDeferred(x) == FireDeferred(x) /\ NeedsNetif

\* recv_trampoline_: one datagram, copied into a MAX_DATAGRAM buffer.
Recv(a) ==
  /\ socket = "bound" /\ netif /\ a.to \in groups \cup HostGroups
  /\ batch' = <<a>> /\ out' = <<>>
  /\ calls' = on_packet(1, ReadInto(a.datagram))
  /\ packets_received' = (packets_received + 1) % CounterMod
  /\ UNCHANGED <<node, timers, packets_sent, last_published_sent,
                 last_published_received, pubHistory, subHistory, esp>>

NetifUp ==
  /\ ~netif /\ netif' = TRUE
  /\ Emits(<<>>)
  /\ UNCHANGED <<node, timers, counters, pubHistory, subHistory, joined,
                 outages, orphaned>>

NetifDown ==
  /\ netif /\ outages < MaxOutages
  /\ netif' = FALSE /\ groups' = {} /\ outages' = outages + 1
  /\ orphaned' = orphaned \cup joined
  /\ Emits(<<>>)
  /\ UNCHANGED <<socket, failed, subscriptions, timers, counters, pubHistory,
                 subHistory, joined>>

-----------------------------------------------------------------------------
EspNext ==
  \/ EspSetup \/ EspLoop \/ NetifUp \/ NetifDown
  \/ \E t \in Topics, cb \in Callbacks, require \in BOOLEAN,
       schema \in SchemaIds \cup {RawSchema} : EspSubscribe(t, schema, cb, require)
  \/ \E t \in Topics, len \in Lengths, override \in Overrides :
       EspPlay(t, len, RawSchema, override)
  \/ \E id \in Crcs : EspFireTimeout(id)
  \/ \E x \in deferred : EspFireDeferred(x)
  \/ \E a \in Arrivals : Recv(a)

EspSpec == EspInit /\ [][EspNext]_espVars

\* ESPHome calls loop() again and again.
EspFairSpec == EspSpec /\ WF_espVars(EspLoop)

-----------------------------------------------------------------------------
(***************************************************************************)
(* A subscription whose flag is set can be heard: its group is joined on   *)
(* the present interface, unless mld6_joingroup_netif failed for it or the *)
(* interface it was joined on has gone.  Nobody else's group is joined.    *)
(***************************************************************************)
JoinedFlagIsTrue ==
  /\ \A t \in joined \ (join_failed \cup orphaned) : topic_to_group[t] \in groups
  /\ groups \subseteq {topic_to_group[r.topic] : r \in registered}

(***************************************************************************)
(* Deferred joins happen: if the interface comes up for good, every        *)
(* subscription, made before or after setup() or between two outages, ends *)
(* up in its group, unless its one attempt failed or was on an interface   *)
(* that has gone.                                                          *)
(***************************************************************************)
EventuallyJoined ==
  <>[](socket = "bound" /\ netif) =>
    \A t \in Topics :
      find_subscription(t) ~> \/ topic_to_group[t] \in groups
                              \/ t \in join_failed \cup orphaned
=============================================================================
