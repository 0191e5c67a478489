---------------------------- MODULE MpubsubNode ----------------------------
(***************************************************************************)
(* One ESPHome node running the MulticastPubSub component, socket build    *)
(* (components/mpubsub/multicast_pubsub.{h,cpp}, automation.h).  ESPHome   *)
(* is single-threaded, so every public operation, scheduler callback and   *)
(* loop() call is one step; what interleaves is their order, and what      *)
(* each one leaves for the others: subscriptions, retransmit timers, the   *)
(* jobs map.  Sends, joins and socket calls may fail at any time.          *)
(***************************************************************************)
EXTENDS WireFormat, Sequences, FiniteSets

CONSTANTS
  Groups,            \* IPv6 multicast groups
  topic_to_group,    \* [Topics -> Groups], the SHA-256 prefix of each topic
  HostGroups,        \* groups other processes of the same host have joined
  encryption_key,    \* this node's key, or NoKey
  retransmit_count,  \* the component-level count
  Overrides,         \* per-action counts; NoOverride among them
  NoOverride,
  Lengths,           \* payload lengths published
  SchemaIds,         \* SCHEMA_IDs of the typed messages
  Callbacks,         \* the user's callbacks
  Arrivals,          \* datagrams other nodes may send, with their group
  MaxPublishes,      \* bound: publish() calls
  MaxRegistrations,  \* bound: subscribe() calls
  MaxBatch,          \* bound: datagrams drained by one loop()
  CounterMod         \* 2^w, for the w-bit packet counters

NoJob == [topic |-> "none"]
NoSubscription == [raw_callbacks |-> {}, typed_callbacks |-> {},
                   require_encryption |-> FALSE]
RawSchema == "raw"      \* registered through subscribe(), not subscribe_typed()
Publications == 1..MaxPublishes

ASSUME NodeAssumption ==
  /\ topic_to_group \in [Topics -> Groups]
  /\ HostGroups \subseteq Groups
  /\ NoOverride \notin Int /\ Overrides \subseteq Int \cup {NoOverride}
  /\ retransmit_count \in Int
  /\ Lengths \subseteq Nat
  /\ RawSchema \notin SchemaIds
  /\ "none" \notin Topics
  /\ MaxPublishes \in Nat /\ MaxRegistrations \in Nat /\ MaxBatch \in Nat
  /\ CounterMod \in Nat \ {0}

(***************************************************************************)
(* The other nodes run this code too: the CRC a datagram carries, in its   *)
(* header or inside the ciphertext, is that of the topic it was published  *)
(* on.  Anything else about an arriving datagram may be wrong.             *)
(***************************************************************************)
ASSUME ArrivalAssumption ==
  \A a \in Arrivals :
    /\ a.to \in Groups
    /\ a.datagram.size \in Nat \ {0}     \* read() answering 0 ends the drain
    /\ a.datagram.body.payload.topic \in Topics
    /\ a.datagram.body.payload.len \in Nat
    /\ a.datagram.body.crc = topic_crc32[a.datagram.body.payload.topic]
    /\ a.datagram.header.enc_mode = "NONE" =>
         a.datagram.header.topic_crc = a.datagram.body.crc

VARIABLES
  socket,            \* socket_: "none", "unbound" (bind failed) or "bound"
  failed,            \* mark_failed() was called
  subscriptions,     \* topic -> Subscription, NoSubscription if there is none
  groups,            \* the groups this socket is a member of
  indefinite_jobs,   \* topic -> the chain's closure, or NoJob
  timeouts,          \* scheduler: timeouts with a uint32 id, by id
  deferred,          \* scheduler: anonymous timeouts of finite retransmits
  packets_sent, packets_received,
  last_published_sent, last_published_received

(***************************************************************************)
(* History variables: the publish() and subscribe() calls made so far and  *)
(* what the last step emitted, read and called back.                       *)
(***************************************************************************)
VARIABLES
  calls_made,  \* number of publish() calls
  latest,      \* topic -> the last publish() call for it that was sent
  accepted,    \* the publish() calls that answered true
  count_of,    \* publication -> the count in effect, of those accepted
  fired,       \* <<publication, i>> of the finite retransmits attempted
  beat,        \* parity of the number of chain timeouts run
  registered,  \* every subscribe() and subscribe_typed() call
  join_failed, \* topics whose IPV6_JOIN_GROUP failed
  out,         \* datagrams the last step put on the network
  batch,       \* datagrams the last step read
  calls        \* callbacks the last step invoked

node == <<socket, failed, subscriptions, groups>>
timers == <<indefinite_jobs, timeouts, deferred>>
counters == <<packets_sent, packets_received,
              last_published_sent, last_published_received>>
pubHistory == <<calls_made, latest, accepted, count_of, fired, beat>>
subHistory == <<registered, join_failed>>
stepOutput == <<out, batch, calls>>
vars == <<node, timers, counters, pubHistory, subHistory, stepOutput>>

Crcs == {topic_crc32[t] : t \in Topics}

Init ==
  /\ socket = "none" /\ failed = FALSE
  /\ subscriptions = [t \in Topics |-> NoSubscription] /\ groups = {}
  /\ indefinite_jobs = [t \in Topics |-> NoJob]
  /\ timeouts = [id \in Crcs |-> NoJob]
  /\ deferred = {}
  /\ packets_sent = 0 /\ packets_received = 0
  /\ last_published_sent = CounterMod - 1        \* UINT32_MAX
  /\ last_published_received = CounterMod - 1
  /\ calls_made = 0
  /\ latest = [t \in Topics |-> 0]
  /\ accepted = {} /\ count_of = [p \in Publications |-> 0]
  /\ fired = {} /\ beat = 0
  /\ registered = {} /\ join_failed = {}
  /\ out = <<>> /\ batch = <<>> /\ calls = {}

Emits(ds) == out' = ds /\ batch' = <<>> /\ calls' = {}

-----------------------------------------------------------------------------
\* find_subscription_: a subscription exists once a callback was pushed to it.
find_subscription(t) == subscriptions[t] # NoSubscription

(***************************************************************************)
(* setup(): create the socket, bind it, join the groups of the             *)
(* subscriptions made so far.  A failed bind leaves socket_ set; a failed  *)
(* join is logged and never retried.                                       *)
(***************************************************************************)
Setup ==
  /\ socket = "none" /\ ~failed
  /\ \/ failed' = TRUE /\ UNCHANGED <<socket, groups, join_failed>>
     \/ /\ failed' = TRUE /\ socket' = "unbound"
        /\ UNCHANGED <<groups, join_failed>>
     \/ /\ socket' = "bound" /\ UNCHANGED failed
        /\ \E joined \in SUBSET {t \in Topics : find_subscription(t)} :
              /\ groups' = {topic_to_group[t] : t \in joined}
              /\ join_failed' = {t \in Topics \ joined : find_subscription(t)}
  /\ Emits(<<>>)
  /\ UNCHANGED <<subscriptions, timers, counters, pubHistory, registered>>

\* A mutant: a later caller that does not ask for encryption clears the flag.
OverwriteEncryptionFlag(t, require) ==
  [subscriptions[t] EXCEPT !.require_encryption = require]

(***************************************************************************)
(* find_or_create_subscription_: the flag is OR'd into the subscription,   *)
(* new or not; a new one joins its group at once if there is a socket.     *)
(***************************************************************************)
find_or_create_subscription(t, require) ==
  [subscriptions[t] EXCEPT !.require_encryption = @ \/ require]

\* A mutant: only setup() joins.
JoinOnlyInSetup(t) == UNCHANGED <<groups, join_failed>>

late_join(t) ==
  IF ~find_subscription(t) /\ socket # "none"
  THEN \/ groups' = groups \cup {topic_to_group[t]} /\ UNCHANGED join_failed
       \/ join_failed' = join_failed \cup {t} /\ UNCHANGED groups
  ELSE UNCHANGED <<groups, join_failed>>

Registration(t, schema, cb, require) ==
  [topic |-> t, schema |-> schema, cb |-> cb, require |-> require]

\* Each call registers a callback of its own, at most MaxRegistrations of them.
MayRegister(t, schema, cb) ==
  /\ \A r \in registered : ~(r.topic = t /\ r.schema = schema /\ r.cb = cb)
  /\ Cardinality(registered) < MaxRegistrations

subscribe(t, cb, require) ==
  /\ MayRegister(t, RawSchema, cb)
  /\ LET sub == find_or_create_subscription(t, require)
     IN  subscriptions' = [subscriptions EXCEPT
           ![t] = [sub EXCEPT !.raw_callbacks = @ \cup {cb}]]
  /\ late_join(t)
  /\ registered' = registered \cup {Registration(t, RawSchema, cb, require)}
  /\ Emits(<<>>)
  /\ UNCHANGED <<socket, failed, timers, counters, pubHistory>>

subscribe_typed(t, schema, cb, require) ==
  /\ MayRegister(t, schema, cb)
  /\ LET sub == find_or_create_subscription(t, require)
     IN  subscriptions' = [subscriptions EXCEPT
           ![t] = [sub EXCEPT !.typed_callbacks = @ \cup {<<schema, cb>>}]]
  /\ late_join(t)
  /\ registered' = registered \cup {Registration(t, schema, cb, require)}
  /\ Emits(<<>>)
  /\ UNCHANGED <<socket, failed, timers, counters, pubHistory>>

-----------------------------------------------------------------------------
(***************************************************************************)
(* Retransmission.  A closure captures the datagram and its group.         *)
(***************************************************************************)
Packet(t, payload, encoding) ==
  [to |-> topic_to_group[t],
   datagram |-> make_datagram(t, payload, encoding, encryption_key)]

\* A mutant: the job is erased but its timeout is not cancelled.
CancelForgetsTimeout(t) == timeouts

\* cancel_timeout(topic_crc32(topic)) only if the topic has a job.
cancel_indefinite_retransmit(t) ==
  IF indefinite_jobs[t] = NoJob THEN timeouts
  ELSE [timeouts EXCEPT ![topic_crc32[t]] = NoJob]

\* A mutant: the loop over the further sends starts at 0.
ScheduleFromZero(t, packet, c, pub) ==
  LET fn == [topic |-> t, packet |-> packet, pub |-> pub] IN
  /\ indefinite_jobs' = [indefinite_jobs EXCEPT ![t] = IF c = -1 THEN fn ELSE NoJob]
  /\ timeouts' = IF c = -1 THEN [timeouts EXCEPT ![topic_crc32[t]] = fn]
                 ELSE cancel_indefinite_retransmit(t)
  /\ deferred' = deferred \cup
       {[pub |-> pub, i |-> i, packet |-> packet] : i \in 0..(c - 1)}

(***************************************************************************)
(* schedule_retransmits_: cancel the topic's chain, then start a new one   *)
(* under the id topic_crc32(topic), which replaces a pending timeout with  *)
(* that id, or defer c - 1 further sends.                                  *)
(***************************************************************************)
schedule_retransmits(t, packet, c, pub) ==
  IF c = -1
  THEN LET fn == [topic |-> t, packet |-> packet, pub |-> pub] IN
       /\ indefinite_jobs' = [indefinite_jobs EXCEPT ![t] = fn]
       /\ timeouts' = [cancel_indefinite_retransmit(t) EXCEPT
                          ![topic_crc32[t]] = fn]
       /\ UNCHANGED deferred
  ELSE /\ indefinite_jobs' = [indefinite_jobs EXCEPT ![t] = NoJob]
       /\ timeouts' = cancel_indefinite_retransmit(t)
       /\ deferred' = deferred \cup
            {[pub |-> pub, i |-> i, packet |-> packet] : i \in 1..(c - 1)}

(***************************************************************************)
(* send_datagram_: sendto() succeeds, and is counted, or fails.            *)
(***************************************************************************)
send_datagram(packet, ok) ==
  /\ packets_sent' = IF ok THEN (packets_sent + 1) % CounterMod
                           ELSE packets_sent
  /\ Emits(IF ok THEN <<packet>> ELSE <<>>)
  /\ UNCHANGED <<packets_received, last_published_sent, last_published_received>>

(***************************************************************************)
(* publish(): refused without a socket or when the payload is too long;    *)
(* otherwise sent at once and, if that succeeds, scheduled for             *)
(* retransmission.  c is the value of retransmit_count_ during the call.   *)
(***************************************************************************)
publish(t, payload, encoding, c) ==
  LET pub == payload.pub
      packet == Packet(t, payload, encoding)
  IN
  /\ \/ /\ socket = "none" \/ payload.len > effective_max(encryption_key)
        /\ Emits(<<>>)
        /\ UNCHANGED <<timers, counters, latest, accepted, count_of>>
     \/ /\ socket # "none" /\ payload.len <= effective_max(encryption_key)
        /\ send_datagram(packet, FALSE)
        /\ UNCHANGED <<timers, latest, accepted, count_of>>
     \/ /\ socket # "none" /\ payload.len <= effective_max(encryption_key)
        /\ send_datagram(packet, TRUE)
        /\ schedule_retransmits(t, packet, c, pub)
        /\ latest' = [latest EXCEPT ![t] = pub]
        /\ accepted' = accepted \cup {pub}
        /\ count_of' = [count_of EXCEPT ![pub] = c]
  /\ UNCHANGED <<node, fired, beat, subHistory>>

(***************************************************************************)
(* PublishAction::play and the typed publish: an override replaces the     *)
(* component's count for this call and is undone after it.  A PROTOBUF     *)
(* payload starts with its 2-byte SCHEMA_ID.                               *)
(***************************************************************************)
play(t, len, schema, override) ==
  /\ calls_made < MaxPublishes
  /\ calls_made' = calls_made + 1
  /\ schema # RawSchema => len >= 2
  /\ publish(t,
             [topic |-> t, pub |-> calls_made + 1, len |-> len,
              schema |-> schema],
             IF schema = RawSchema THEN "RAW" ELSE "PROTOBUF",
             IF override = NoOverride THEN retransmit_count ELSE override)

\* A mutant: a failed resend ends the chain.
FireTimeoutUntilError(id) ==
  LET fn == timeouts[id] IN
  /\ fn # NoJob
  /\ \E ok \in BOOLEAN :
       /\ send_datagram(fn.packet, ok)
       /\ timeouts' = [timeouts EXCEPT
                         ![id] = IF ok THEN indefinite_jobs[fn.topic] ELSE NoJob]
  /\ beat' = 1 - beat
  /\ UNCHANGED <<node, indefinite_jobs, deferred, calls_made, latest,
                 accepted, count_of, fired, subHistory>>

(***************************************************************************)
(* The scheduler runs a chain's timeout: resend, then re-arm the topic's   *)
(* current job, if it still has one.                                       *)
(***************************************************************************)
FireTimeout(id) ==
  LET fn == timeouts[id] IN
  /\ fn # NoJob
  /\ \E ok \in BOOLEAN : send_datagram(fn.packet, ok)
  /\ timeouts' = [timeouts EXCEPT ![id] = indefinite_jobs[fn.topic]]
  /\ beat' = 1 - beat
  /\ UNCHANGED <<node, indefinite_jobs, deferred, calls_made, latest,
                 accepted, count_of, fired, subHistory>>

\* A mutant: a failed resend gives up the remaining ones.
FireDeferredUntilError(x) ==
  /\ \A y \in deferred : (y.pub <= x.pub /\ y.i <= x.i) => y = x
  /\ \E ok \in BOOLEAN :
       /\ send_datagram(x.packet, ok)
       /\ deferred' = IF ok THEN deferred \ {x}
                            ELSE {y \in deferred : y.pub # x.pub}
  /\ fired' = fired \cup {<<x.pub, x.i>>}
  /\ UNCHANGED <<node, indefinite_jobs, timeouts, calls_made, latest,
                 accepted, count_of, beat, subHistory>>

(***************************************************************************)
(* The scheduler runs a finite retransmit.  All are due i delays after     *)
(* their publish(), so a timeout waits for those of the same or an earlier *)
(* publish() with no larger i.                                             *)
(***************************************************************************)
FireDeferred(x) ==
  /\ \A y \in deferred : (y.pub <= x.pub /\ y.i <= x.i) => y = x
  /\ \E ok \in BOOLEAN : send_datagram(x.packet, ok)
  /\ deferred' = deferred \ {x}
  /\ fired' = fired \cup {<<x.pub, x.i>>}
  /\ UNCHANGED <<node, indefinite_jobs, timeouts, calls_made, latest,
                 accepted, count_of, beat, subHistory>>

-----------------------------------------------------------------------------
Call(at, t, schema, cb) == [at |-> at, topic |-> t, schema |-> schema, cb |-> cb]

(***************************************************************************)
(* deliver_: the callbacks invoked for the at-th datagram of a batch, on   *)
(* every subscription whose CRC matches.  A raw datagram goes to the raw   *)
(* callbacks, a PROTOBUF one to the typed callbacks of its SCHEMA_ID.      *)
(***************************************************************************)
deliver(at, crc, d) ==
  LET payload == d.body.payload
      Open(t) == /\ topic_crc32[t] = crc
                 /\ subscriptions[t].require_encryption => was_encrypted(d)
  IN  IF d.header.encoding = "RAW"
      THEN {Call(at, x[1], RawSchema, x[2]) :
              x \in {y \in Topics \X Callbacks :
                       Open(y[1]) /\ y[2] \in subscriptions[y[1]].raw_callbacks}}
      ELSE {Call(at, x[1], payload.schema, x[2]) :
              x \in {y \in Topics \X Callbacks :
                       /\ Open(y[1]) /\ payload.len >= 2
                       /\ <<payload.schema, y[2]>>
                            \in subscriptions[y[1]].typed_callbacks}}

\* on_packet_: malformed datagrams, and encrypted ones without a key, go.
on_packet(at, d) ==
  IF Accepted(d, encryption_key)
  THEN deliver(at, RecoveredCrc(d, encryption_key), d)
  ELSE {}

(***************************************************************************)
(* loop(): drain the socket, then publish_metrics_.  The kernel hands over *)
(* datagrams for the groups anyone on the host has joined, in any order    *)
(* and any number of times.  ESPHome does not loop a failed component.     *)
(***************************************************************************)
Batches == UNION {[1..n -> Arrivals] : n \in 0..MaxBatch}

loop(ds) ==
  /\ socket = "bound" /\ ~failed
  /\ \A i \in DOMAIN ds : ds[i].to \in groups \cup HostGroups
  /\ batch' = ds /\ out' = <<>>
  /\ calls' = UNION {on_packet(i, ReadInto(ds[i].datagram)) : i \in DOMAIN ds}
  /\ packets_received' = (packets_received + Len(ds)) % CounterMod
  /\ last_published_received' = packets_received'
  /\ last_published_sent' = packets_sent
  /\ UNCHANGED <<node, timers, packets_sent, pubHistory, subHistory>>

-----------------------------------------------------------------------------
Next ==
  \/ Setup
  \/ \E t \in Topics, cb \in Callbacks, require \in BOOLEAN :
        \/ subscribe(t, cb, require)
        \/ \E schema \in SchemaIds : subscribe_typed(t, schema, cb, require)
  \/ \E t \in Topics, len \in Lengths, override \in Overrides,
       schema \in SchemaIds \cup {RawSchema} : play(t, len, schema, override)
  \/ \E id \in Crcs : FireTimeout(id)
  \/ \E x \in deferred : FireDeferred(x)
  \/ \E ds \in Batches : loop(ds)

Spec == Init /\ [][Next]_vars

(***************************************************************************)
(* ESPHome's scheduler runs every timeout that is due, whatever else the   *)
(* main loop does.                                                         *)
(***************************************************************************)
Fairness ==
  /\ \A id \in Crcs : WF_vars(FireTimeout(id))
  /\ WF_vars(\E x \in deferred : FireDeferred(x))

FairSpec == Spec /\ Fairness

-----------------------------------------------------------------------------
Payloads == [topic : Topics, pub : Publications, len : Lengths,
             schema : SchemaIds \cup {RawSchema}]
Headers == [magic : {"MP"}, version : {1}, encoding : Encodings,
            topic_crc : Nat, payload_len : Nat, enc_mode : EncModes]
Bodies == [key : {encryption_key}, crc : Nat, payload : Payloads]
Packets == [to : Groups,
            datagram : [header : Headers, size : Nat, body : Bodies]]
Jobs == [topic : Topics, packet : Packets, pub : Publications]

Subscriptions == [raw_callbacks : SUBSET Callbacks,
                  typed_callbacks : SUBSET (SchemaIds \X Callbacks),
                  require_encryption : BOOLEAN]
Registrations == [topic : Topics, schema : SchemaIds \cup {RawSchema},
                  cb : Callbacks, require : BOOLEAN]
CounterValues == 0..(CounterMod - 1)

NodeType ==
  /\ socket \in {"none", "unbound", "bound"} /\ failed \in BOOLEAN
  /\ subscriptions \in [Topics -> Subscriptions]
  /\ groups \subseteq Groups

TimerType ==
  /\ indefinite_jobs \in [Topics -> Jobs \cup {NoJob}]
  /\ timeouts \in [Crcs -> Jobs \cup {NoJob}]
  /\ deferred \subseteq [pub : Publications, i : Nat \ {0}, packet : Packets]

CounterType ==
  /\ packets_sent \in CounterValues /\ packets_received \in CounterValues
  /\ last_published_sent \in CounterValues
  /\ last_published_received \in CounterValues

HistoryType ==
  /\ calls_made \in 0..MaxPublishes
  /\ latest \in [Topics -> 0..MaxPublishes]
  /\ accepted \subseteq Publications
  /\ count_of \in [Publications -> Int]
  /\ fired \subseteq Publications \X (Nat \ {0}) /\ beat \in {0, 1}
  /\ registered \subseteq Registrations /\ join_failed \subseteq Topics

OutputType ==
  /\ out \in Seq(Packets)
  /\ batch \in Seq(Arrivals)
  /\ calls \subseteq [at : DOMAIN batch, topic : Topics,
                      schema : SchemaIds \cup {RawSchema}, cb : Callbacks]

(***************************************************************************)
(* Every variable has its type.                                            *)
(***************************************************************************)
TypeOK == NodeType /\ TimerType /\ CounterType /\ HistoryType /\ OutputType
=============================================================================
