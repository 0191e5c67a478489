----------------------------- MODULE NodeProofs -----------------------------
(***************************************************************************)
(* Proofs, for every value of the constants, of the safety properties of   *)
(* MpubsubNode: types; the retransmission chains (when no two topics share *)
(* a CRC32); the finite resends; what is emitted; the dispatch.            *)
(***************************************************************************)
EXTENDS NodeProperties, WireFormatProofs

-----------------------------------------------------------------------------
(***************************************************************************)
(* The inductive invariant, in parts.                                      *)
(***************************************************************************)

\* Publications are numbered by the calls made so far.
Numbered ==
  /\ \A t \in Topics : latest[t] <= calls_made
  /\ \A p \in accepted : p <= calls_made
  /\ \A p \in Publications : p \notin accepted => count_of[p] = 0
  /\ \A x \in deferred : x.pub \in accepted
  /\ \A f \in fired : f[1] \in accepted

\* The timeout table mirrors the jobs map, and the map the publications.
ChainInv ==
  /\ \A t \in Topics : timeouts[topic_crc32[t]] = indefinite_jobs[t]
  /\ \A t \in Topics : indefinite_jobs[t] # NoJob =>
        /\ indefinite_jobs[t].topic = t
        /\ indefinite_jobs[t].pub = latest[t]
        /\ Indefinite(t)
  /\ \A t \in Topics : Indefinite(t) => indefinite_jobs[t] # NoJob

\* A pending resend is identified by its publication and its index.
DeferredInv ==
  \A x, y \in deferred : (x.pub = y.pub /\ x.i = y.i) => x = y

\* What EmittedIsGenuine says of one packet, A being the accepted publications.
GenuineIn(packet, A) ==
  LET d == packet.datagram IN
  /\ d.size <= MAX_DATAGRAM /\ decode(d)
  /\ d.body.payload.pub \in A
  /\ packet.to = topic_to_group[d.body.payload.topic]

\* Whatever may still be sent is genuine.
GenuineInv ==
  /\ \A t \in Topics : indefinite_jobs[t] # NoJob =>
        GenuineIn(indefinite_jobs[t].packet, accepted)
  /\ \A id \in Crcs : timeouts[id] # NoJob =>
        GenuineIn(timeouts[id].packet, accepted)
  /\ \A x \in deferred : GenuineIn(x.packet, accepted)

\* The subscription records are what the registrations add up to.
SubInv ==
  \A t \in Topics :
    /\ \A cb \in Callbacks :
          cb \in subscriptions[t].raw_callbacks
            <=> \E r \in registered : r.topic = t /\ r.schema = RawSchema /\ r.cb = cb
    /\ \A s \in SchemaIds, cb \in Callbacks :
          <<s, cb>> \in subscriptions[t].typed_callbacks
            <=> \E r \in registered : r.topic = t /\ r.schema = s /\ r.cb = cb
    /\ subscriptions[t].require_encryption
            <=> \E r \in registered : r.topic = t /\ r.require

-----------------------------------------------------------------------------
(***************************************************************************)
(* Type correctness.                                                       *)
(***************************************************************************)
Schemas == SchemaIds \cup {RawSchema}
EncodingOf(s) == IF s = RawSchema THEN "RAW" ELSE "PROTOBUF"
Payload(t, p, len, s) == [topic |-> t, pub |-> p, len |-> len, schema |-> s]

(***************************************************************************)
(* The packet publish() makes for any topic, publication number, length    *)
(* and schema of the model is one of Packets.                              *)
(***************************************************************************)
LEMMA PacketType ==
  ASSUME NEW t \in Topics, NEW p \in Publications, NEW len \in Lengths,
         NEW s \in Schemas
  PROVE  Packet(t, Payload(t, p, len, s), EncodingOf(s)) \in Packets
<1> DEFINE payload == Payload(t, p, len, s)
           mode == IF encryption_key # NoKey THEN "XXTEA" ELSE "NONE"
           header == encode_header(topic_crc32[t], EncodingOf(s), payload.len, mode)
<1>1. payload \in Payloads /\ payload.len \in Nat
  BY NodeAssumption DEF Payload, Payloads, Schemas
<1>2. topic_crc32[t] \in Nat /\ topic_to_group[t] \in Groups
  BY WireAssumption, NodeAssumption
<1>3. payload.len % 65536 \in Nat
  BY <1>1
<1>4. header \in Headers
  BY <1>2, <1>3 DEF encode_header, EncodingOf, Headers, Encodings, EncModes
<1>5. xxtea_ciphertext_len(payload.len) \in Nat
  BY <1>1 DEF xxtea_ciphertext_len
<1>6. xxtea_encrypt(encryption_key, topic_crc32[t], payload) \in Bodies
  BY <1>1, <1>2 DEF xxtea_encrypt, Bodies
<1>7. QED
  BY <1>1, <1>2, <1>4, <1>5, <1>6 DEF Packet, make_datagram, Packets, HEADER_LEN

(***************************************************************************)
(* What one play() step does, in terms of its publication number: it is    *)
(* refused, or its send fails, or it is sent and scheduled.                *)
(***************************************************************************)
PlayStep(t, len, s, c) ==
  LET pub == calls_made + 1
      packet == Packet(t, Payload(t, pub, len, s), EncodingOf(s))
  IN
  /\ calls_made < MaxPublishes /\ calls_made' = pub
  /\ \/ /\ Emits(<<>>)
        /\ UNCHANGED <<timers, counters, latest, accepted, count_of>>
     \/ /\ send_datagram(packet, FALSE)
        /\ UNCHANGED <<timers, latest, accepted, count_of>>
     \/ /\ len <= effective_max(encryption_key)
        /\ send_datagram(packet, TRUE)
        /\ schedule_retransmits(t, packet, c, pub)
        /\ latest' = [latest EXCEPT ![t] = pub]
        /\ accepted' = accepted \cup {pub}
        /\ count_of' = [count_of EXCEPT ![pub] = c]
  /\ UNCHANGED <<node, fired, beat, subHistory>>

(***************************************************************************)
(* PublishAction::play and publish() together amount to one PlayStep, with *)
(* the override, or else the component's count, in effect.                 *)
(***************************************************************************)
LEMMA PlayIsPlayStep ==
  ASSUME NEW t \in Topics, NEW len \in Lengths, NEW o \in Overrides,
         NEW s \in Schemas, play(t, len, s, o)
  PROVE  \E c \in Int : PlayStep(t, len, s, c)
<1> DEFINE c == IF o = NoOverride THEN retransmit_count ELSE o
<1>1. c \in Int
  BY NodeAssumption
<1>2. PlayStep(t, len, s, c)
  BY DEF play, publish, PlayStep, Payload, EncodingOf
<1> QED
  BY <1>1, <1>2

(***************************************************************************)
(* A step that reads and sends nothing has well-typed (empty) outputs.     *)
(***************************************************************************)
LEMMA EmptyOutput ==
  ASSUME Emits(<<>>)
  PROVE  OutputType'
BY DEF Emits, OutputType

(***************************************************************************)
(* Sending a packet, or failing to, keeps the counters and outputs typed.  *)
(***************************************************************************)
LEMMA SendType ==
  ASSUME CounterType, NEW packet \in Packets, NEW ok \in BOOLEAN,
         send_datagram(packet, ok)
  PROVE  CounterType' /\ OutputType'
<1>1. (packets_sent + 1) % CounterMod \in CounterValues
  BY NodeAssumption DEF CounterType, CounterValues
<1>2. CounterType'
  BY <1>1 DEF CounterType, send_datagram
<1>3. OutputType'
  BY DEF send_datagram, Emits, OutputType
<1> QED
  BY <1>2, <1>3

(***************************************************************************)
(* Scheduling retransmits keeps the jobs, timeouts and resends typed.      *)
(***************************************************************************)
LEMMA ScheduleType ==
  ASSUME TimerType, NEW t \in Topics, NEW packet \in Packets, NEW c \in Int,
         NEW pub \in Publications, schedule_retransmits(t, packet, c, pub)
  PROVE  TimerType'
<1> DEFINE fn == [topic |-> t, packet |-> packet, pub |-> pub]
<1>1. fn \in Jobs
  BY DEF Jobs
<1>2. topic_crc32[t] \in Crcs
  BY DEF Crcs
<1>3. cancel_indefinite_retransmit(t) \in [Crcs -> Jobs \cup {NoJob}]
  BY <1>2 DEF TimerType, cancel_indefinite_retransmit
<1>4. CASE c = -1
  BY <1>1, <1>2, <1>3, <1>4 DEF TimerType, schedule_retransmits
<1>5. CASE c # -1
  <2>1. ASSUME NEW x \in deferred'
        PROVE  x \in [pub : Publications, i : Nat \ {0}, packet : Packets]
    BY <1>5, <2>1 DEF TimerType, schedule_retransmits
  <2>2. QED
    BY <1>3, <1>5, <2>1 DEF TimerType, schedule_retransmits
<1> QED
  BY <1>4, <1>5

(***************************************************************************)
(* A subscription's step changes one record, the registrations and the     *)
(* memberships, and keeps them typed.                                      *)
(***************************************************************************)
LEMMA LateJoinType ==
  ASSUME NodeType, HistoryType, NEW t \in Topics, late_join(t)
  PROVE  groups' \subseteq Groups /\ join_failed' \subseteq Topics
BY NodeAssumption DEF late_join, NodeType, HistoryType

(***************************************************************************)
(* The callbacks loop() invokes are registered ones, for a datagram of the *)
(* batch it read.                                                          *)
(***************************************************************************)
LEMMA DeliverType ==
  ASSUME NodeType, NEW i, NEW crc, NEW d, NEW k \in deliver(i, crc, d)
  PROVE  k \in [at : {i}, topic : Topics, schema : Schemas, cb : Callbacks]
<1>1. CASE d.header.encoding = "RAW"
  BY <1>1 DEF deliver, Call, Schemas
<1>2. CASE d.header.encoding # "RAW"
  <2>1. PICK y \in Topics \X Callbacks :
          /\ k = Call(i, y[1], d.body.payload.schema, y[2])
          /\ <<d.body.payload.schema, y[2]>>
               \in subscriptions[y[1]].typed_callbacks
    BY <1>2 DEF deliver
  <2>2. d.body.payload.schema \in SchemaIds
    BY <2>1 DEF NodeType, Subscriptions
  <2>3. QED
    BY <2>1, <2>2 DEF Call, Schemas
<1> QED
  BY <1>1, <1>2

(***************************************************************************)
(* A registration changes the record of its topic and no other: a raw one  *)
(* adds a raw callback, a typed one a typed callback.  The records keep    *)
(* their type and stay the sum of the registrations.                       *)
(***************************************************************************)
LEMMA RawRegistration ==
  ASSUME NodeType, HistoryType, NEW t \in Topics, NEW cb \in Callbacks,
         NEW require \in BOOLEAN,
         subscriptions' = [subscriptions EXCEPT
           ![t] = [find_or_create_subscription(t, require) EXCEPT
                     !.raw_callbacks = @ \cup {cb}]],
         registered' = registered \cup {Registration(t, RawSchema, cb, require)}
  PROVE  /\ subscriptions' \in [Topics -> Subscriptions]
         /\ registered' \subseteq Registrations
         /\ SubInv => SubInv'
<1> DEFINE old == subscriptions[t]
           new == subscriptions'[t]
           r == Registration(t, RawSchema, cb, require)
<1>1. subscriptions' \in [Topics -> Subscriptions]
  BY DEF find_or_create_subscription, NodeType, Subscriptions
<1>2. registered' \subseteq Registrations
  BY DEF Registration, HistoryType, Registrations
<1>3. /\ old \in Subscriptions
      /\ new = [[old EXCEPT !.require_encryption = old.require_encryption \/ require]
                  EXCEPT !.raw_callbacks = old.raw_callbacks \cup {cb}]
      /\ \A u \in Topics \ {t} : subscriptions'[u] = subscriptions[u]
  BY DEF find_or_create_subscription, NodeType
<1> HIDE DEF old, new, r
<1>4. /\ new.raw_callbacks = old.raw_callbacks \cup {cb}
      /\ new.typed_callbacks = old.typed_callbacks
      /\ new.require_encryption <=> old.require_encryption \/ require
  BY <1>3 DEF Subscriptions
<1>5. /\ registered' = registered \cup {r}
      /\ r.topic = t /\ r.schema = RawSchema /\ r.cb = cb
      /\ r.require = require
  BY DEF Registration, r
<1>6. SubInv => SubInv'
  BY <1>3, <1>4, <1>5, NodeAssumption DEF SubInv, old, new
<1>7. QED
  BY <1>1, <1>2, <1>6

(***************************************************************************)
(* The same for a callback of one SCHEMA_ID.                               *)
(***************************************************************************)
LEMMA TypedRegistration ==
  ASSUME NodeType, HistoryType, NEW t \in Topics, NEW cb \in Callbacks,
         NEW require \in BOOLEAN, NEW s \in SchemaIds,
         subscriptions' = [subscriptions EXCEPT
           ![t] = [find_or_create_subscription(t, require) EXCEPT
                     !.typed_callbacks = @ \cup {<<s, cb>>}]],
         registered' = registered \cup {Registration(t, s, cb, require)}
  PROVE  /\ subscriptions' \in [Topics -> Subscriptions]
         /\ registered' \subseteq Registrations
         /\ SubInv => SubInv'
<1> DEFINE old == subscriptions[t]
           new == subscriptions'[t]
           r == Registration(t, s, cb, require)
           sub == find_or_create_subscription(t, require)
<1>1. subscriptions' \in [Topics -> Subscriptions]
  <2>1. sub \in Subscriptions
    BY DEF find_or_create_subscription, NodeType, Subscriptions
  <2>2. [sub EXCEPT !.typed_callbacks = @ \cup {<<s, cb>>}] \in Subscriptions
    BY <2>1 DEF Subscriptions
  <2>3. QED
    BY <2>2 DEF NodeType
<1>2. registered' \subseteq Registrations
  BY DEF Registration, HistoryType, Registrations
<1>3. /\ old \in Subscriptions
      /\ new = [[old EXCEPT !.require_encryption = old.require_encryption \/ require]
                  EXCEPT !.typed_callbacks = old.typed_callbacks \cup {<<s, cb>>}]
      /\ \A u \in Topics \ {t} : subscriptions'[u] = subscriptions[u]
  BY DEF find_or_create_subscription, NodeType
<1> HIDE DEF old, new, r
<1>4. /\ new.raw_callbacks = old.raw_callbacks
      /\ new.typed_callbacks = old.typed_callbacks \cup {<<s, cb>>}
      /\ new.require_encryption <=> old.require_encryption \/ require
  BY <1>3 DEF Subscriptions
<1>5. /\ registered' = registered \cup {r}
      /\ r.topic = t /\ r.schema = s /\ r.cb = cb
      /\ r.require = require
  BY DEF Registration, r
<1>6. SubInv => SubInv'
  BY <1>3, <1>4, <1>5, NodeAssumption DEF SubInv, old, new
<1>7. QED
  BY <1>1, <1>2, <1>6

(***************************************************************************)
(* Each operation, timeout and loop() keeps every variable's type.         *)
(***************************************************************************)
LEMMA TypeStep ==
  ASSUME TypeOK, [Next]_vars
  PROVE  TypeOK'
<1> USE DEF TypeOK
<1>1. CASE Setup
  <2>1. groups' \subseteq Groups /\ join_failed' \subseteq Topics
    BY <1>1, NodeAssumption DEF Setup, NodeType, HistoryType
  <2>2. NodeType'
    BY <1>1, <2>1 DEF Setup, NodeType
  <2>3. TimerType' /\ CounterType'
    BY <1>1 DEF Setup, TimerType, CounterType, timers, counters
  <2>4. HistoryType'
    BY <1>1, <2>1 DEF Setup, HistoryType, pubHistory
  <2>5. OutputType'
    BY <1>1, EmptyOutput DEF Setup
  <2>6. QED
    BY <2>2, <2>3, <2>4, <2>5
<1>2. ASSUME NEW t \in Topics, NEW cb \in Callbacks, NEW require \in BOOLEAN,
             subscribe(t, cb, require)
      PROVE  TypeOK'
  <2>1. groups' \subseteq Groups /\ join_failed' \subseteq Topics
    BY <1>2, LateJoinType DEF subscribe
  <2>2. /\ subscriptions' \in [Topics -> Subscriptions]
        /\ registered' \subseteq Registrations
    BY <1>2, RawRegistration DEF subscribe
  <2>3. NodeType' /\ HistoryType'
    BY <1>2, <2>1, <2>2 DEF subscribe, NodeType, HistoryType, pubHistory
  <2>4. TimerType' /\ CounterType'
    BY <1>2 DEF subscribe, TimerType, CounterType, timers, counters
  <2>5. OutputType'
    BY <1>2, EmptyOutput DEF subscribe
  <2>6. QED
    BY <2>3, <2>4, <2>5
<1>3. ASSUME NEW t \in Topics, NEW cb \in Callbacks, NEW require \in BOOLEAN,
             NEW s \in SchemaIds, subscribe_typed(t, s, cb, require)
      PROVE  TypeOK'
  <2>1. groups' \subseteq Groups /\ join_failed' \subseteq Topics
    BY <1>3, LateJoinType DEF subscribe_typed
  <2>2. /\ subscriptions' \in [Topics -> Subscriptions]
        /\ registered' \subseteq Registrations
    BY <1>3, TypedRegistration DEF subscribe_typed
  <2>3. NodeType' /\ HistoryType'
    BY <1>3, <2>1, <2>2
       DEF subscribe_typed, NodeType, HistoryType, pubHistory
  <2>4. TimerType' /\ CounterType'
    BY <1>3 DEF subscribe_typed, TimerType, CounterType, timers, counters
  <2>5. OutputType'
    BY <1>3, EmptyOutput DEF subscribe_typed
  <2>6. QED
    BY <2>3, <2>4, <2>5
<1>4. ASSUME NEW t \in Topics, NEW len \in Lengths, NEW o \in Overrides,
             NEW s \in Schemas, play(t, len, s, o)
      PROVE  TypeOK'
  <2>1. PICK c \in Int : PlayStep(t, len, s, c)
    BY <1>4, PlayIsPlayStep
  <2> DEFINE pub == calls_made + 1
             packet == Packet(t, Payload(t, pub, len, s), EncodingOf(s))
  <2>2. pub \in Publications /\ calls_made' = pub /\ pub \in 0..MaxPublishes
    BY <2>1, NodeAssumption DEF PlayStep, HistoryType, Publications
  <2>3. packet \in Packets
    BY <2>2, PacketType
  <2>4. NodeType'
    BY <2>1 DEF PlayStep, NodeType, node
  <2>5. HistoryType'
    BY <2>1, <2>2 DEF PlayStep, HistoryType, subHistory
  <2>6. TimerType'
    BY <2>1, <2>2, <2>3, ScheduleType DEF PlayStep, TimerType, timers
  <2>7. CounterType' /\ OutputType'
    BY <2>1, <2>3, SendType, EmptyOutput DEF PlayStep, CounterType, counters
  <2>8. QED
    BY <2>4, <2>5, <2>6, <2>7
<1>5. ASSUME NEW id \in Crcs, FireTimeout(id)
      PROVE  TypeOK'
  <2>1. timeouts[id] \in Jobs
    BY <1>5 DEF FireTimeout, TimerType
  <2>2. timeouts[id].packet \in Packets /\ timeouts[id].topic \in Topics
    BY <2>1 DEF Jobs
  <2>3. PICK ok \in BOOLEAN : send_datagram(timeouts[id].packet, ok)
    BY <1>5 DEF FireTimeout
  <2>4. CounterType' /\ OutputType'
    BY <2>2, <2>3, SendType
  <2>5. TimerType'
    BY <1>5, <2>2 DEF FireTimeout, TimerType
  <2>6. NodeType' /\ HistoryType'
    BY <1>5 DEF FireTimeout, NodeType, HistoryType, node, subHistory
  <2>7. QED
    BY <2>4, <2>5, <2>6
<1>6. ASSUME NEW x \in deferred, FireDeferred(x)
      PROVE  TypeOK'
  <2>1. x.packet \in Packets /\ x.pub \in Publications /\ x.i \in Nat \ {0}
    BY DEF TimerType
  <2>2. PICK ok \in BOOLEAN : send_datagram(x.packet, ok)
    BY <1>6 DEF FireDeferred
  <2>3. CounterType' /\ OutputType'
    BY <2>1, <2>2, SendType
  <2>4. TimerType'
    BY <1>6 DEF FireDeferred, TimerType
  <2>5. NodeType' /\ HistoryType'
    BY <1>6, <2>1 DEF FireDeferred, NodeType, HistoryType, node, subHistory
  <2>6. QED
    BY <2>3, <2>4, <2>5
<1>7. ASSUME NEW ds \in Batches, loop(ds)
      PROVE  TypeOK'
  <2>1. PICK n \in 0..MaxBatch : ds \in [1..n -> Arrivals]
    BY DEF Batches
  <2>2. ds \in Seq(Arrivals) /\ Len(ds) \in Nat
    BY <2>1, NodeAssumption
  <2>3. ASSUME NEW k \in calls'
        PROVE  k \in [at : DOMAIN ds, topic : Topics, schema : Schemas,
                      cb : Callbacks]
    <3>1. PICK i \in DOMAIN ds : k \in on_packet(i, ReadInto(ds[i].datagram))
      BY <1>7, <2>3 DEF loop
    <3> DEFINE d == ReadInto(ds[i].datagram)
               crc == RecoveredCrc(d, encryption_key)
    <3>2. k \in deliver(i, crc, d)
      BY <3>1 DEF on_packet
    <3>3. k \in [at : {i}, topic : Topics, schema : Schemas, cb : Callbacks]
      BY <3>2, DeliverType
    <3>4. QED
      BY <3>3
  <2>4. OutputType'
    BY <1>7, <2>2, <2>3 DEF loop, OutputType, Schemas
  <2>5. (packets_received + Len(ds)) % CounterMod \in CounterValues
    BY <2>2, NodeAssumption DEF CounterType, CounterValues
  <2>6. CounterType'
    BY <1>7, <2>5 DEF loop, CounterType
  <2>7. NodeType' /\ TimerType' /\ HistoryType'
    BY <1>7 DEF loop, NodeType, TimerType, HistoryType, node, timers,
                pubHistory, subHistory
  <2>8. QED
    BY <2>4, <2>6, <2>7
<1>8. CASE UNCHANGED vars
  BY <1>8 DEF vars, node, timers, counters, pubHistory, subHistory,
              stepOutput, NodeType, TimerType, CounterType, HistoryType,
              OutputType
<1>9. QED
  BY <1>1, <1>2, <1>3, <1>4, <1>5, <1>6, <1>7, <1>8 DEF Next, Schemas

(***************************************************************************)
(* Every variable starts with its type.                                    *)
(***************************************************************************)
LEMMA TypeInitial == Init => TypeOK
<1> SUFFICES ASSUME Init PROVE TypeOK
  OBVIOUS
<1>1. NodeType
  BY DEF Init, NodeType, NoSubscription, Subscriptions
<1>2. TimerType
  BY DEF Init, TimerType
<1>3. CounterType
  BY NodeAssumption DEF Init, CounterType, CounterValues
<1>4. HistoryType
  BY NodeAssumption DEF Init, HistoryType
<1>5. OutputType
  BY DEF Init, OutputType
<1>6. QED
  BY <1>1, <1>2, <1>3, <1>4, <1>5 DEF TypeOK

(***************************************************************************)
(* Every variable keeps its type, whatever order the operations, timeouts  *)
(* and datagrams come in.                                                  *)
(***************************************************************************)
THEOREM TypeCorrect == Spec => []TypeOK
<1>1. TypeOK /\ [Next]_vars => TypeOK'
  BY TypeStep
<1>2. QED
  BY <1>1, TypeInitial, PTL DEF Spec

-----------------------------------------------------------------------------
(***************************************************************************)
(* The steps that touch a timer or a publication: all others leave both    *)
(* alone.                                                                  *)
(***************************************************************************)
LEMMA TimerSteps ==
  ASSUME [Next]_vars
  PROVE  \/ \E t \in Topics, len \in Lengths, s \in Schemas, c \in Int :
              PlayStep(t, len, s, c)
         \/ \E id \in Crcs : FireTimeout(id)
         \/ \E x \in deferred : FireDeferred(x)
         \/ UNCHANGED <<timers, pubHistory>> /\ out' \in {<<>>, out}
<1>1. ASSUME NEW t \in Topics, NEW len \in Lengths, NEW o \in Overrides,
             NEW s \in Schemas, play(t, len, s, o)
      PROVE  \E c \in Int : PlayStep(t, len, s, c)
  BY <1>1, PlayIsPlayStep
<1>2. CASE Setup
  BY <1>2 DEF Setup, Emits
<1>3. ASSUME NEW t \in Topics, NEW cb \in Callbacks, NEW require \in BOOLEAN,
             subscribe(t, cb, require)
      PROVE  UNCHANGED <<timers, pubHistory>> /\ out' \in {<<>>, out}
  BY <1>3 DEF subscribe, Emits
<1>4. ASSUME NEW t \in Topics, NEW cb \in Callbacks, NEW require \in BOOLEAN,
             NEW s \in SchemaIds, subscribe_typed(t, s, cb, require)
      PROVE  UNCHANGED <<timers, pubHistory>> /\ out' \in {<<>>, out}
  BY <1>4 DEF subscribe_typed, Emits
<1>5. ASSUME NEW ds \in Batches, loop(ds)
      PROVE  UNCHANGED <<timers, pubHistory>> /\ out' \in {<<>>, out}
  BY <1>5 DEF loop
<1>6. CASE UNCHANGED vars
  BY <1>6 DEF vars, stepOutput
<1>7. QED
  BY <1>1, <1>2, <1>3, <1>4, <1>5, <1>6 DEF Next, Schemas

(***************************************************************************)
(* Publication numbers are fresh: a play() step uses one no topic, resend  *)
(* or accepted publication has.                                            *)
(***************************************************************************)
LEMMA NumberedStep ==
  ASSUME TypeOK, Numbered, [Next]_vars
  PROVE  Numbered'
<1> USE DEF TypeOK
<1>1. ASSUME NEW t \in Topics, NEW len \in Lengths, NEW s \in Schemas,
             NEW c \in Int, PlayStep(t, len, s, c)
      PROVE  Numbered'
  <2> DEFINE pub == calls_made + 1
             packet == Packet(t, Payload(t, pub, len, s), EncodingOf(s))
  <2>1. calls_made' = pub /\ pub \in Publications /\ calls_made \in Nat
    BY <1>1, NodeAssumption DEF PlayStep, HistoryType, Publications
  <2>2. fired' = fired
    BY <1>1 DEF PlayStep
  <2>3. CASE UNCHANGED <<timers, latest, accepted, count_of>>
    BY <2>1, <2>2, <2>3 DEF Numbered, HistoryType, timers, Publications
  <2>4. CASE /\ schedule_retransmits(t, packet, c, pub)
             /\ latest' = [latest EXCEPT ![t] = pub]
             /\ accepted' = accepted \cup {pub}
             /\ count_of' = [count_of EXCEPT ![pub] = c]
    <3>1. \A x \in deferred' : x \in deferred \/ x.pub = pub
      BY <2>4 DEF schedule_retransmits
    <3>2. \A u \in Topics : latest'[u] <= pub
      BY <2>1, <2>4 DEF Numbered, HistoryType
    <3>3. \A p \in accepted' : p <= pub
      BY <2>1, <2>4 DEF Numbered, HistoryType, Publications
    <3>4. \A p \in Publications : p \notin accepted' => count_of'[p] = 0
      BY <2>4 DEF Numbered, HistoryType
    <3>5. QED
      BY <2>1, <2>2, <2>4, <3>1, <3>2, <3>3, <3>4 DEF Numbered
  <2>5. QED
    BY <1>1, <2>3, <2>4 DEF PlayStep
<1>2. ASSUME NEW id \in Crcs, FireTimeout(id)
      PROVE  Numbered'
  BY <1>2 DEF FireTimeout, Numbered
<1>3. ASSUME NEW x \in deferred, FireDeferred(x)
      PROVE  Numbered'
  BY <1>3 DEF FireDeferred, Numbered
<1>4. CASE UNCHANGED <<timers, pubHistory>>
  BY <1>4 DEF timers, pubHistory, Numbered
<1>5. QED
  BY <1>1, <1>2, <1>3, <1>4, TimerSteps

(***************************************************************************)
(* When no two topics share a CRC32, the table of timeouts mirrors the map *)
(* of jobs after every step: publish() replaces both entries of its topic  *)
(* and no other, and a timeout re-arms what it found.                      *)
(***************************************************************************)
LEMMA ChainStep ==
  ASSUME CrcInjective, TypeOK, Numbered, ChainInv, [Next]_vars
  PROVE  ChainInv'
<1> USE DEF TypeOK
<1>1. ASSUME NEW t \in Topics, NEW len \in Lengths, NEW s \in Schemas,
             NEW c \in Int, PlayStep(t, len, s, c)
      PROVE  ChainInv'
  <2> DEFINE pub == calls_made + 1
             packet == Packet(t, Payload(t, pub, len, s), EncodingOf(s))
             fn == [topic |-> t, packet |-> packet, pub |-> pub]
  <2>1. pub \in Publications /\ pub # 0 /\ \A u \in Topics : latest[u] # pub
    BY <1>1, NodeAssumption DEF PlayStep, HistoryType, Publications, Numbered
  <2>2. CASE UNCHANGED <<timers, latest, accepted, count_of>>
    BY <2>2 DEF ChainInv, Indefinite, timers
  <2>3. CASE /\ schedule_retransmits(t, packet, c, pub)
             /\ latest' = [latest EXCEPT ![t] = pub]
             /\ count_of' = [count_of EXCEPT ![pub] = c]
    <3> DEFINE job == IF c = -1 THEN fn ELSE NoJob
    <3>1. fn # NoJob
      BY NodeAssumption DEF NoJob
    <3>2. indefinite_jobs' = [indefinite_jobs EXCEPT ![t] = job]
      BY <2>3 DEF schedule_retransmits
    <3>3. \A u \in Topics : timeouts'[topic_crc32[u]] = indefinite_jobs'[u]
      <4>1. topic_crc32[t] \in Crcs
        BY DEF Crcs
      <4>2. timeouts' = [timeouts EXCEPT ![topic_crc32[t]] = job]
        BY <2>3, <4>1 DEF schedule_retransmits, cancel_indefinite_retransmit,
                          TimerType, ChainInv
      <4>3. ASSUME NEW u \in Topics
            PROVE  timeouts'[topic_crc32[u]] = indefinite_jobs'[u]
        <5>1. CASE u = t
          BY <3>2, <4>1, <4>2, <5>1 DEF TimerType
        <5>2. CASE u # t
          <6>1. topic_crc32[u] # topic_crc32[t] /\ topic_crc32[u] \in Crcs
            BY <5>2 DEF CrcInjective, Crcs
          <6>2. QED
            BY <3>2, <4>2, <5>2, <6>1 DEF TimerType, ChainInv
        <5>3. QED
          BY <5>1, <5>2
      <4>4. QED
        BY <4>3
    <3>4. \A u \in Topics : Indefinite(u)' <=>
            IF u = t THEN c = -1 ELSE Indefinite(u)
      BY <2>1, <2>3 DEF Indefinite, HistoryType, Publications
    <3>5. \A u \in Topics : indefinite_jobs'[u] # NoJob =>
             /\ indefinite_jobs'[u].topic = u
             /\ indefinite_jobs'[u].pub = latest'[u]
             /\ Indefinite(u)'
      <4>1. ASSUME NEW u \in Topics, indefinite_jobs'[u] # NoJob
            PROVE  /\ indefinite_jobs'[u].topic = u
                   /\ indefinite_jobs'[u].pub = latest'[u]
                   /\ Indefinite(u)'
        <5>1. CASE u = t
          BY <2>3, <3>2, <3>4, <4>1, <5>1 DEF TimerType, HistoryType
        <5>2. CASE u # t
          BY <2>3, <3>2, <3>4, <4>1, <5>2 DEF TimerType, HistoryType, ChainInv
        <5>3. QED
          BY <5>1, <5>2
      <4>2. QED
        BY <4>1
    <3>6. \A u \in Topics : Indefinite(u)' => indefinite_jobs'[u] # NoJob
      BY <3>1, <3>2, <3>4 DEF TimerType, ChainInv
    <3>7. QED
      BY <3>3, <3>5, <3>6 DEF ChainInv
  <2>4. QED
    BY <1>1, <2>2, <2>3 DEF PlayStep
<1>2. ASSUME NEW id \in Crcs, FireTimeout(id)
      PROVE  ChainInv'
  <2>1. PICK t \in Topics : id = topic_crc32[t]
    BY DEF Crcs
  <2>2. timeouts[id] = indefinite_jobs[t] /\ timeouts[id].topic = t
    BY <1>2, <2>1 DEF ChainInv, FireTimeout
  <2>3. timeouts' = timeouts
    BY <1>2, <2>2 DEF FireTimeout, TimerType
  <2>4. QED
    BY <1>2, <2>3 DEF FireTimeout, ChainInv, Indefinite
<1>3. ASSUME NEW x \in deferred, FireDeferred(x)
      PROVE  ChainInv'
  BY <1>3 DEF FireDeferred, ChainInv, Indefinite
<1>4. CASE UNCHANGED <<timers, pubHistory>>
  BY <1>4 DEF timers, pubHistory, ChainInv, Indefinite
<1>5. QED
  BY <1>1, <1>2, <1>3, <1>4, TimerSteps

(***************************************************************************)
(* That mirroring is what the promises about chains come to.               *)
(***************************************************************************)
LEMMA ChainsMirror == ChainInv => IndefiniteUntilSuperseded /\ SupersededNeverResent
<1> SUFFICES ASSUME ChainInv
             PROVE  IndefiniteUntilSuperseded /\ SupersededNeverResent
  OBVIOUS
<1>1. IndefiniteUntilSuperseded
  BY DEF ChainInv, IndefiniteUntilSuperseded
<1>2. SupersededNeverResent
  BY DEF ChainInv, SupersededNeverResent, Crcs
<1>3. QED
  BY <1>1, <1>2

(***************************************************************************)
(* For topics with distinct CRC32s: the chain of a topic runs exactly from *)
(* the publication that asked for it to the next one that is sent.         *)
(***************************************************************************)
THEOREM ChainsCorrect ==
  ASSUME CrcInjective
  PROVE  Spec => [](IndefiniteUntilSuperseded /\ SupersededNeverResent)
<1>1. Init => Numbered /\ ChainInv
  <2> SUFFICES ASSUME Init PROVE Numbered /\ ChainInv
    OBVIOUS
  <2>1. Numbered
    BY DEF Init, Numbered
  <2>2. ChainInv
    BY DEF Init, ChainInv, Indefinite, Crcs
  <2>3. QED
    BY <2>1, <2>2
<1>2. TypeOK /\ Numbered /\ ChainInv /\ [Next]_vars => Numbered' /\ ChainInv'
  BY NumberedStep, ChainStep
<1>3. ChainInv => IndefiniteUntilSuperseded /\ SupersededNeverResent
  BY ChainsMirror
<1>4. QED
  BY <1>1, <1>2, <1>3, TypeCorrect, PTL DEF Spec

(***************************************************************************)
(* In particular, no timeout ever carries a publication that a later one   *)
(* on its topic has superseded.                                            *)
(***************************************************************************)
THEOREM SupersededIsSilent ==
  ASSUME CrcInjective
  PROVE  Spec => []SupersededNeverResent
BY ChainsCorrect, PTL

-----------------------------------------------------------------------------
(***************************************************************************)
(* Finite resends.  An index is pending for a publication iff some         *)
(* anonymous timeout holds it.                                             *)
(***************************************************************************)
LEMMA PendingMembers ==
  \A p, i : i \in Pending(p) <=> \E x \in deferred : x.pub = p /\ x.i = i
BY DEF Pending

(***************************************************************************)
(* The same, after a step.                                                 *)
(***************************************************************************)
LEMMA PendingMembersNext ==
  \A p, i : i \in Pending(p)' <=> \E x \in deferred' : x.pub = p /\ x.i = i
BY DEF Pending

(***************************************************************************)
(* Every step keeps the account of each publication's resends: publish()   *)
(* opens it, each timeout moves one index from pending to made.            *)
(***************************************************************************)
LEMMA FiniteStep ==
  ASSUME TypeOK, Numbered, DeferredInv, FiniteResendsExact, [Next]_vars
  PROVE  DeferredInv' /\ FiniteResendsExact'
<1> USE DEF TypeOK
<1> DEFINE Exact(p) == /\ Pending(p) \cup Made(p) = 1..(count_of[p] - 1)
                       /\ Pending(p) \cap Made(p) = {}
<1>1. ASSUME NEW t \in Topics, NEW len \in Lengths, NEW s \in Schemas,
             NEW c \in Int, PlayStep(t, len, s, c)
      PROVE  DeferredInv' /\ FiniteResendsExact'
  <2> DEFINE pub == calls_made + 1
             packet == Packet(t, Payload(t, pub, len, s), EncodingOf(s))
  <2>1. /\ pub \in Publications /\ pub \notin accepted
        /\ \A x \in deferred : x.pub # pub
        /\ \A f \in fired : f[1] # pub
    BY <1>1, NodeAssumption DEF PlayStep, HistoryType, Publications, Numbered
  <2>2. fired' = fired
    BY <1>1 DEF PlayStep
  <2>3. CASE UNCHANGED <<timers, latest, accepted, count_of>>
    BY <2>2, <2>3 DEF DeferredInv, FiniteResendsExact, Pending, Made, timers
  <2>4. CASE /\ schedule_retransmits(t, packet, c, pub)
             /\ count_of' = [count_of EXCEPT ![pub] = c]
    <3>1. deferred' = deferred \cup
            {[pub |-> pub, i |-> i, packet |-> packet] : i \in 1..(c - 1)}
      BY <2>4 DEF schedule_retransmits
    <3>2. DeferredInv'
      BY <2>1, <3>1 DEF DeferredInv
    <3>3. ASSUME NEW p \in Publications
          PROVE  Exact(p)'
      <4>1. CASE p = pub
        <5>1. count_of'[p] = c
          BY <2>4, <4>1 DEF HistoryType
        <5>2. Made(p)' = {}
          BY <2>1, <2>2, <4>1 DEF Made
        <5>3. \A i : i \in Pending(p)' <=> i \in 1..(c - 1)
          <6>1. ASSUME NEW i \in 1..(c - 1)
                PROVE  i \in Pending(p)'
            <7> DEFINE x == [pub |-> pub, i |-> i, packet |-> packet]
            <7>1. x \in deferred'
              BY <3>1
            <7>2. x.pub = p /\ x.i = i
              BY <4>1
            <7> HIDE DEF x
            <7>3. QED
              BY <7>1, <7>2, PendingMembersNext
          <6>2. ASSUME NEW i, i \in Pending(p)'
                PROVE  i \in 1..(c - 1)
            <7>1. PICK x \in deferred' : x.pub = p /\ x.i = i
              BY <6>2, PendingMembersNext
            <7>2. QED
              BY <2>1, <3>1, <4>1, <7>1
          <6>3. QED
            BY <6>1, <6>2
        <5>4. QED
          BY <5>1, <5>2, <5>3
      <4>2. CASE p # pub
        <5>1. count_of'[p] = count_of[p]
          BY <2>4, <4>2 DEF HistoryType
        <5>2. Made(p)' = Made(p)
          BY <2>2, <5>1 DEF Made
        <5>3. \A i : i \in Pending(p)' <=> i \in Pending(p)
          BY <3>1, <4>2, PendingMembers, PendingMembersNext
        <5>4. QED
          BY <5>1, <5>2, <5>3 DEF FiniteResendsExact
      <4>3. QED
        BY <4>1, <4>2
    <3>4. QED
      BY <3>2, <3>3 DEF FiniteResendsExact
  <2>5. QED
    BY <1>1, <2>3, <2>4 DEF PlayStep
<1>2. ASSUME NEW id \in Crcs, FireTimeout(id)
      PROVE  DeferredInv' /\ FiniteResendsExact'
  BY <1>2 DEF FireTimeout, DeferredInv, FiniteResendsExact, Pending, Made
<1>3. ASSUME NEW x \in deferred, FireDeferred(x)
      PROVE  DeferredInv' /\ FiniteResendsExact'
  <2>1. /\ deferred' = deferred \ {x} /\ fired' = fired \cup {<<x.pub, x.i>>}
        /\ count_of' = count_of
    BY <1>3 DEF FireDeferred
  <2>2. DeferredInv'
    BY <2>1 DEF DeferredInv
  <2>3. x.pub \in Publications /\ x.i \in Nat
    BY DEF TimerType
  <2>4. ASSUME NEW p \in Publications
        PROVE  Exact(p)'
    <3>1. CASE p = x.pub
      <4>1. x.i \in Pending(p) /\ x.i \notin Made(p) /\ x.i \in 1..(count_of[p] - 1)
        BY <3>1, PendingMembers DEF FiniteResendsExact
      <4>2. \A i : i \in Pending(p)' <=> i \in Pending(p) /\ i # x.i
        BY <2>1, <3>1, PendingMembers, PendingMembersNext DEF DeferredInv
      <4>3. count_of[p] \in Int
        BY DEF HistoryType
      <4>4. \A i : i \in Made(p)' <=> i \in Made(p) \/ i = x.i
        BY <2>1, <3>1, <4>1, <4>3 DEF Made
      <4>5. QED
        BY <2>1, <4>1, <4>2, <4>4 DEF FiniteResendsExact
    <3>2. CASE p # x.pub
      <4>1. \A i : i \in Pending(p)' <=> i \in Pending(p)
        BY <2>1, <3>2, PendingMembers, PendingMembersNext
      <4>2. Made(p)' = Made(p)
        BY <2>1, <3>2 DEF Made
      <4>3. QED
        BY <2>1, <4>1, <4>2 DEF FiniteResendsExact
    <3>3. QED
      BY <3>1, <3>2
  <2>5. QED
    BY <2>2, <2>4 DEF FiniteResendsExact
<1>4. CASE UNCHANGED <<timers, pubHistory>>
  BY <1>4 DEF timers, pubHistory, DeferredInv, FiniteResendsExact, Pending, Made
<1>5. QED
  BY <1>1, <1>2, <1>3, <1>4, TimerSteps

(***************************************************************************)
(* A publication sent with count c is resent exactly c - 1 times, pending  *)
(* attempts included, whatever CRCs the topics have and whatever else is   *)
(* published meanwhile.                                                    *)
(***************************************************************************)
THEOREM FiniteResendsCorrect == Spec => []FiniteResendsExact
<1>1. Init => Numbered /\ DeferredInv /\ FiniteResendsExact
  <2> SUFFICES ASSUME Init PROVE Numbered /\ DeferredInv /\ FiniteResendsExact
    OBVIOUS
  <2>1. Numbered /\ DeferredInv
    BY DEF Init, Numbered, DeferredInv
  <2>2. ASSUME NEW p \in Publications
        PROVE  Pending(p) = {} /\ Made(p) = {} /\ 1..(count_of[p] - 1) = {}
    BY DEF Init, Pending, Made
  <2>3. QED
    BY <2>1, <2>2 DEF FiniteResendsExact
<1>2. /\ TypeOK /\ Numbered /\ DeferredInv /\ FiniteResendsExact
      /\ [Next]_vars
      => Numbered' /\ DeferredInv' /\ FiniteResendsExact'
  BY NumberedStep, FiniteStep
<1>3. QED
  BY <1>1, <1>2, TypeCorrect, PTL DEF Spec

-----------------------------------------------------------------------------
(***************************************************************************)
(* What may be sent.  A packet that passed publish()'s length test is well *)
(* formed and carries its own publication.                                 *)
(***************************************************************************)
LEMMA PublishedIsGenuine ==
  ASSUME NEW t \in Topics, NEW A, NEW p \in A, NEW len \in Lengths,
         NEW s \in Schemas, len <= effective_max(encryption_key)
  PROVE  GenuineIn(Packet(t, Payload(t, p, len, s), EncodingOf(s)), A)
<1> DEFINE payload == Payload(t, p, len, s)
           d == make_datagram(t, payload, EncodingOf(s), encryption_key)
<1>1. /\ payload.len = len /\ payload.pub = p /\ payload.topic = t
      /\ len \in Nat /\ EncodingOf(s) \in Encodings
  BY NodeAssumption DEF Payload, EncodingOf, Encodings
<1>2. d.size <= MAX_DATAGRAM /\ decode(d)
  BY <1>1, DatagramIsReadable
<1>3. d.body.payload = payload
  BY DEF make_datagram, xxtea_encrypt
<1>4. /\ Packet(t, payload, EncodingOf(s)).datagram = d
      /\ Packet(t, payload, EncodingOf(s)).to = topic_to_group[t]
  BY DEF Packet
<1>5. QED
  BY <1>1, <1>2, <1>3, <1>4 DEF GenuineIn

(***************************************************************************)
(* More accepted publications leave a genuine packet genuine.              *)
(***************************************************************************)
LEMMA GenuineGrows ==
  ASSUME NEW A, NEW B, A \subseteq B, NEW packet, GenuineIn(packet, A)
  PROVE  GenuineIn(packet, B)
BY DEF GenuineIn

(***************************************************************************)
(* send_datagram_ emits its packet or nothing.                             *)
(***************************************************************************)
LEMMA SendGenuine ==
  ASSUME NEW packet, NEW ok \in BOOLEAN, send_datagram(packet, ok),
         GenuineIn(packet, accepted')
  PROVE  EmittedIsGenuine'
<1>1. CASE out' = <<packet>>
  BY <1>1 DEF EmittedIsGenuine, GenuineIn
<1>2. CASE out' = <<>>
  BY <1>2 DEF EmittedIsGenuine
<1>3. QED
  BY <1>1, <1>2 DEF send_datagram, Emits

(***************************************************************************)
(* Nothing that was refused or failed is ever scheduled or sent.           *)
(***************************************************************************)
LEMMA GenuineStep ==
  ASSUME TypeOK, GenuineInv, EmittedIsGenuine, [Next]_vars
  PROVE  GenuineInv' /\ EmittedIsGenuine'
<1> USE DEF TypeOK
<1>1. ASSUME NEW t \in Topics, NEW len \in Lengths, NEW s \in Schemas,
             NEW c \in Int, PlayStep(t, len, s, c)
      PROVE  GenuineInv' /\ EmittedIsGenuine'
  <2> DEFINE pub == calls_made + 1
             packet == Packet(t, Payload(t, pub, len, s), EncodingOf(s))
  <2>1. CASE out' = <<>> /\ UNCHANGED <<timers, accepted>>
    BY <2>1 DEF timers, GenuineInv, EmittedIsGenuine
  <2>2. CASE /\ len <= effective_max(encryption_key)
             /\ send_datagram(packet, TRUE)
             /\ schedule_retransmits(t, packet, c, pub)
             /\ accepted' = accepted \cup {pub}
    <3>1. \A q : GenuineIn(q, accepted) => GenuineIn(q, accepted')
      BY <2>2, GenuineGrows
    <3>2. GenuineIn(packet, accepted')
      <4>1. pub \in accepted'
        BY <2>2
      <4>2. QED
        BY <2>2, <4>1, PublishedIsGenuine
    <3> HIDE DEF packet, pub
    <3>3. EmittedIsGenuine'
      BY <2>2, <3>2, SendGenuine
    <3>4. topic_crc32[t] \in Crcs
      BY DEF Crcs
    <3>5. ASSUME NEW u \in Topics, indefinite_jobs'[u] # NoJob
          PROVE  GenuineIn(indefinite_jobs'[u].packet, accepted')
      <4>1. \/ indefinite_jobs'[u] = indefinite_jobs[u]
            \/ indefinite_jobs'[u].packet = packet
        BY <2>2, <3>5 DEF schedule_retransmits, TimerType
      <4>2. QED
        BY <3>1, <3>2, <3>5, <4>1 DEF GenuineInv
    <3>6. ASSUME NEW id \in Crcs, timeouts'[id] # NoJob
          PROVE  GenuineIn(timeouts'[id].packet, accepted')
      <4>1. timeouts'[id] = timeouts[id] \/ timeouts'[id].packet = packet
        BY <2>2, <3>4, <3>6
           DEF schedule_retransmits, cancel_indefinite_retransmit, TimerType
      <4>2. QED
        BY <3>1, <3>2, <3>6, <4>1 DEF GenuineInv
    <3>7. ASSUME NEW x \in deferred'
          PROVE  GenuineIn(x.packet, accepted')
      <4>1. x \in deferred \/ x.packet = packet
        BY <2>2, <3>7 DEF schedule_retransmits
      <4>2. QED
        BY <3>1, <3>2, <4>1 DEF GenuineInv
    <3>8. QED
      BY <3>3, <3>5, <3>6, <3>7 DEF GenuineInv
  <2>3. QED
    BY <1>1, <2>1, <2>2 DEF PlayStep, send_datagram, Emits
<1>2. ASSUME NEW id \in Crcs, FireTimeout(id)
      PROVE  GenuineInv' /\ EmittedIsGenuine'
  <2>1. accepted' = accepted /\ timeouts[id] # NoJob
    BY <1>2 DEF FireTimeout
  <2>2. timeouts[id] \in Jobs /\ timeouts[id].topic \in Topics
    BY <2>1 DEF TimerType, Jobs
  <2>3. ASSUME NEW i \in Crcs, timeouts'[i] # NoJob
        PROVE  GenuineIn(timeouts'[i].packet, accepted')
    BY <1>2, <2>1, <2>2, <2>3 DEF FireTimeout, TimerType, GenuineInv
  <2>4. GenuineInv'
    BY <1>2, <2>1, <2>3 DEF FireTimeout, GenuineInv
  <2>5. PICK ok \in BOOLEAN : send_datagram(timeouts[id].packet, ok)
    BY <1>2 DEF FireTimeout
  <2>6. GenuineIn(timeouts[id].packet, accepted')
    BY <2>1 DEF GenuineInv
  <2>7. QED
    BY <2>4, <2>5, <2>6, SendGenuine
<1>3. ASSUME NEW x \in deferred, FireDeferred(x)
      PROVE  GenuineInv' /\ EmittedIsGenuine'
  <2>1. accepted' = accepted
    BY <1>3 DEF FireDeferred
  <2>2. GenuineInv'
    BY <1>3, <2>1 DEF FireDeferred, GenuineInv
  <2>3. PICK ok \in BOOLEAN : send_datagram(x.packet, ok)
    BY <1>3 DEF FireDeferred
  <2>4. GenuineIn(x.packet, accepted')
    BY <2>1 DEF GenuineInv
  <2>5. QED
    BY <2>2, <2>3, <2>4, SendGenuine
<1>4. CASE UNCHANGED <<timers, pubHistory>> /\ out' \in {<<>>, out}
  BY <1>4 DEF timers, pubHistory, GenuineInv, EmittedIsGenuine
<1>5. QED
  BY <1>1, <1>2, <1>3, <1>4, TimerSteps

(***************************************************************************)
(* Every datagram the node emits is well formed, within the limit, and the *)
(* datagram of a publish() that answered true.                             *)
(***************************************************************************)
THEOREM EmissionsCorrect == Spec => []EmittedIsGenuine
<1>1. Init => GenuineInv /\ EmittedIsGenuine
  BY DEF Init, GenuineInv, EmittedIsGenuine
<1>2. TypeOK /\ GenuineInv /\ EmittedIsGenuine /\ [Next]_vars
        => GenuineInv' /\ EmittedIsGenuine'
  BY GenuineStep
<1>3. QED
  BY <1>1, <1>2, TypeCorrect, PTL DEF Spec

-----------------------------------------------------------------------------
(***************************************************************************)
(* Dispatch.  Only subscribe() and subscribe_typed() change the            *)
(* subscriptions, and each keeps them the sum of the calls made.           *)
(***************************************************************************)
LEMMA SubStep ==
  ASSUME TypeOK, SubInv, [Next]_vars
  PROVE  SubInv'
<1>1. ASSUME NEW t \in Topics, NEW cb \in Callbacks, NEW require \in BOOLEAN,
             subscribe(t, cb, require)
      PROVE  SubInv'
  BY <1>1, RawRegistration DEF subscribe, TypeOK
<1>2. ASSUME NEW t \in Topics, NEW cb \in Callbacks, NEW require \in BOOLEAN,
             NEW s \in SchemaIds, subscribe_typed(t, s, cb, require)
      PROVE  SubInv'
  BY <1>2, TypedRegistration DEF subscribe_typed, TypeOK
<1>3. ASSUME NEW t \in Topics, NEW len \in Lengths, NEW o \in Overrides,
             NEW s \in SchemaIds \cup {RawSchema}, play(t, len, s, o)
      PROVE  UNCHANGED <<subscriptions, registered>>
  BY <1>3 DEF play, publish, node, subHistory
<1>4. CASE UNCHANGED <<subscriptions, registered>>
  BY <1>4 DEF SubInv
<1>5. QED
  BY <1>1, <1>2, <1>3, <1>4
     DEF Next, Setup, FireTimeout, FireDeferred, loop, node, subHistory, vars

(***************************************************************************)
(* Of an accepted datagram, the CRC on_packet_ recovers is that of the     *)
(* sender's topic, unless the keys differ; then it is that of no topic.    *)
(***************************************************************************)
LEMMA RecoveredTopic ==
  ASSUME CrcInjective, NEW a \in Arrivals, NEW t \in Topics,
         decode(ReadInto(a.datagram))
  PROVE  LET d == ReadInto(a.datagram) IN
         topic_crc32[t] = RecoveredCrc(d, encryption_key)
           <=> /\ d.body.payload.topic = t
               /\ was_encrypted(d) => encryption_key = d.body.key
<1> DEFINE d == ReadInto(a.datagram)
<1>1. d.header = a.datagram.header /\ d.body = a.datagram.body
  BY DEF ReadInto
<1>2. /\ d.body.payload.topic \in Topics
      /\ d.body.crc = topic_crc32[d.body.payload.topic]
      /\ d.header.enc_mode = "NONE" => d.header.topic_crc = d.body.crc
  BY <1>1, ArrivalAssumption
<1>3. d.header.enc_mode \in {"NONE", "XXTEA"}
  BY DEF decode, EncModes
<1>4. topic_crc32[t] = d.body.crc <=> d.body.payload.topic = t
  BY <1>2 DEF CrcInjective
<1>5. topic_crc32[t] # GarbledCrc
  BY WireAssumption
<1> HIDE DEF d
<1>6. QED
  BY <1>2, <1>3, <1>4, <1>5 DEF RecoveredCrc, was_encrypted, xxtea_decrypt, d

(***************************************************************************)
(* The callbacks on_packet_ invokes for one datagram are those of the      *)
(* registrations that must hear it.                                        *)
(***************************************************************************)
LEMMA OnPacketExact ==
  ASSUME TypeOK, SubInv, CrcInjective
  PROVE  \A a \in Arrivals : \A i, k :
           k \in on_packet(i, ReadInto(a.datagram))
             <=> \E r \in registered :
                   /\ Hears(r, ReadInto(a.datagram))
                   /\ k = Call(i, r.topic, r.schema, r.cb)
<1> SUFFICES ASSUME NEW a \in Arrivals, NEW i, NEW k
             PROVE  k \in on_packet(i, ReadInto(a.datagram))
                      <=> \E r \in registered :
                            /\ Hears(r, ReadInto(a.datagram))
                            /\ k = Call(i, r.topic, r.schema, r.cb)
  OBVIOUS
<1> DEFINE d == ReadInto(a.datagram)
           payload == d.body.payload
           crc == RecoveredCrc(d, encryption_key)
           Open(t) == /\ topic_crc32[t] = crc
                      /\ subscriptions[t].require_encryption => was_encrypted(d)
<1>1. \A r \in registered :
        /\ r.topic \in Topics /\ r.cb \in Callbacks
        /\ r.schema \in SchemaIds \/ r.schema = RawSchema
  BY DEF TypeOK, HistoryType, Registrations
<1>2. \A t \in Topics :
        subscriptions[t].typed_callbacks \subseteq SchemaIds \X Callbacks
  BY DEF TypeOK, NodeType, Subscriptions
<1>3. CASE ~Accepted(d, encryption_key)
  BY <1>3 DEF on_packet, Accepted, Hears
<1>4. CASE Accepted(d, encryption_key)
  <2>1. /\ decode(d)
        /\ was_encrypted(d) => encryption_key # NoKey
        /\ d.header.encoding \in {"RAW", "PROTOBUF"}
    BY <1>4 DEF Accepted, decode, Encodings
  <2>2. \A t \in Topics :
          topic_crc32[t] = crc
            <=> /\ payload.topic = t
                /\ was_encrypted(d) => encryption_key = d.body.key
    BY <2>1, RecoveredTopic
  <2>3. \A t \in Topics : subscriptions[t].require_encryption
          <=> \E q \in registered : q.topic = t /\ q.require
    BY DEF SubInv
  <2>4. k \in on_packet(i, d) <=> k \in deliver(i, crc, d)
    BY <1>4 DEF on_packet
  <2> HIDE DEF d, payload, crc
  <2>5. CASE d.header.encoding = "RAW"
    <3>1. k \in deliver(i, crc, d)
            <=> \E t \in Topics, cb \in Callbacks :
                  /\ Open(t) /\ cb \in subscriptions[t].raw_callbacks
                  /\ k = Call(i, t, RawSchema, cb)
      <4> DEFINE Heard == {y \in Topics \X Callbacks :
                    Open(y[1]) /\ y[2] \in subscriptions[y[1]].raw_callbacks}
      <4>1. deliver(i, crc, d) = {Call(i, x[1], RawSchema, x[2]) : x \in Heard}
        BY <2>5 DEF deliver
      <4>2. ASSUME NEW x \in Heard
            PROVE  /\ x[1] \in Topics /\ x[2] \in Callbacks /\ Open(x[1])
                   /\ x[2] \in subscriptions[x[1]].raw_callbacks
        OBVIOUS
      <4>3. ASSUME NEW t \in Topics, NEW cb \in Callbacks, Open(t),
                   cb \in subscriptions[t].raw_callbacks
            PROVE  \E x \in Heard : x[1] = t /\ x[2] = cb
        BY <4>3, <<t, cb>> \in Heard
      <4> HIDE DEF Heard, Open
      <4>4. QED
        BY <4>1, <4>2, <4>3
    <3>2. ASSUME NEW r \in registered
          PROVE  Hears(r, d) <=> r.schema = RawSchema /\ Open(r.topic)
      BY <1>1, <2>1, <2>2, <2>3, <2>5 DEF Hears, payload
    <3>3. QED
      BY <1>1, <2>4, <3>1, <3>2 DEF SubInv, d
  <2>6. CASE d.header.encoding = "PROTOBUF"
    <3>1. k \in deliver(i, crc, d)
            <=> \E t \in Topics, cb \in Callbacks :
                  /\ Open(t) /\ payload.len >= 2
                  /\ <<payload.schema, cb>> \in subscriptions[t].typed_callbacks
                  /\ k = Call(i, t, payload.schema, cb)
      <4> DEFINE Heard == {y \in Topics \X Callbacks :
                    /\ Open(y[1]) /\ payload.len >= 2
                    /\ <<payload.schema, y[2]>>
                         \in subscriptions[y[1]].typed_callbacks}
      <4>1. deliver(i, crc, d)
              = {Call(i, x[1], payload.schema, x[2]) : x \in Heard}
        BY <2>6 DEF deliver, payload
      <4>2. ASSUME NEW x \in Heard
            PROVE  /\ x[1] \in Topics /\ x[2] \in Callbacks /\ Open(x[1])
                   /\ payload.len >= 2
                   /\ <<payload.schema, x[2]>>
                        \in subscriptions[x[1]].typed_callbacks
        OBVIOUS
      <4>3. ASSUME NEW t \in Topics, NEW cb \in Callbacks, Open(t),
                   payload.len >= 2,
                   <<payload.schema, cb>> \in subscriptions[t].typed_callbacks
            PROVE  \E x \in Heard : x[1] = t /\ x[2] = cb
        BY <4>3, <<t, cb>> \in Heard
      <4> HIDE DEF Heard, Open
      <4>4. k \in deliver(i, crc, d)
              <=> \E x \in Heard : k = Call(i, x[1], payload.schema, x[2])
        BY <4>1
      <4>5. ASSUME NEW t \in Topics, NEW cb \in Callbacks, Open(t),
                   payload.len >= 2, k = Call(i, t, payload.schema, cb),
                   <<payload.schema, cb>> \in subscriptions[t].typed_callbacks
            PROVE  k \in deliver(i, crc, d)
        BY <4>3, <4>4, <4>5
      <4>6. QED
        BY <4>2, <4>4, <4>5
    <3>2. ASSUME NEW r \in registered
          PROVE  Hears(r, d) <=> /\ r.schema # RawSchema /\ Open(r.topic)
                                 /\ payload.len >= 2 /\ payload.schema = r.schema
      BY <1>1, <2>1, <2>2, <2>3, <2>6 DEF Hears, payload
    <3>3. \A t \in Topics, cb \in Callbacks :
            <<payload.schema, cb>> \in subscriptions[t].typed_callbacks
              <=> /\ payload.schema \in SchemaIds
                  /\ \E r \in registered :
                       r.topic = t /\ r.schema = payload.schema /\ r.cb = cb
      BY <1>2 DEF SubInv
    <3> HIDE DEF Open
    <3>4. k \in deliver(i, crc, d)
            <=> \E r \in registered :
                  Hears(r, d) /\ k = Call(i, r.topic, r.schema, r.cb)
      <4>1. ASSUME NEW t \in Topics, NEW cb \in Callbacks, Open(t),
                   payload.len >= 2,
                   <<payload.schema, cb>> \in subscriptions[t].typed_callbacks
            PROVE  \E r \in registered :
                     /\ Hears(r, d) /\ r.topic = t
                     /\ r.schema = payload.schema /\ r.cb = cb
        <5>1. PICK r \in registered :
                r.topic = t /\ r.schema = payload.schema /\ r.cb = cb
          BY <3>3, <4>1
        <5>2. r.schema # RawSchema
          BY <3>3, <4>1, <5>1, NodeAssumption
        <5>3. QED
          BY <3>2, <4>1, <5>1, <5>2
      <4>2. ASSUME NEW r \in registered, Hears(r, d)
            PROVE  /\ r.topic \in Topics /\ r.cb \in Callbacks
                   /\ Open(r.topic) /\ payload.len >= 2
                   /\ r.schema = payload.schema
                   /\ <<payload.schema, r.cb>>
                        \in subscriptions[r.topic].typed_callbacks
        BY <1>1, <3>2, <3>3, <4>2
      <4>3. ASSUME k \in deliver(i, crc, d)
            PROVE  \E r \in registered :
                     Hears(r, d) /\ k = Call(i, r.topic, r.schema, r.cb)
        <5>1. PICK t \in Topics, cb \in Callbacks :
                /\ Open(t) /\ payload.len >= 2
                /\ <<payload.schema, cb>> \in subscriptions[t].typed_callbacks
                /\ k = Call(i, t, payload.schema, cb)
          BY <3>1, <4>3
        <5>2. QED
          BY <4>1, <5>1
      <4>4. ASSUME NEW r \in registered, Hears(r, d),
                   k = Call(i, r.topic, r.schema, r.cb)
            PROVE  k \in deliver(i, crc, d)
        BY <3>1, <4>2, <4>4
      <4>5. QED
        BY <4>3, <4>4
    <3>5. QED
      BY <2>4, <3>4 DEF d
  <2>7. QED
    BY <2>1, <2>5, <2>6
<1>5. QED
  BY <1>3, <1>4

(***************************************************************************)
(* Handing a batch to on_packet_, one datagram after the other, calls back *)
(* exactly the registrations that must hear them.                          *)
(***************************************************************************)
LEMMA BatchExact ==
  ASSUME TypeOK, SubInv, CrcInjective, NEW ds,
         \A i \in DOMAIN ds : ds[i] \in Arrivals,
         batch' = ds, registered' = registered,
         calls' = UNION {on_packet(i, ReadInto(ds[i].datagram)) : i \in DOMAIN ds}
  PROVE  DispatchIsExact'
<1>1. ASSUME NEW k
      PROVE  k \in calls' <=> \E i \in DOMAIN ds, r \in registered :
               /\ Hears(r, ReadInto(ds[i].datagram))
               /\ k = Call(i, r.topic, r.schema, r.cb)
  <2>1. k \in calls' <=> \E i \in DOMAIN ds :
          k \in on_packet(i, ReadInto(ds[i].datagram))
    OBVIOUS
  <2>2. ASSUME NEW i \in DOMAIN ds
        PROVE  k \in on_packet(i, ReadInto(ds[i].datagram))
                 <=> \E r \in registered :
                       /\ Hears(r, ReadInto(ds[i].datagram))
                       /\ k = Call(i, r.topic, r.schema, r.cb)
    <3> DEFINE a == ds[i]
    <3>1. a \in Arrivals
      OBVIOUS
    <3> HIDE DEF a
    <3>2. k \in on_packet(i, ReadInto(a.datagram))
            <=> \E r \in registered :
                  /\ Hears(r, ReadInto(a.datagram))
                  /\ k = Call(i, r.topic, r.schema, r.cb)
      <4>1. \A j, c :
              c \in on_packet(j, ReadInto(a.datagram))
                <=> \E r \in registered :
                      /\ Hears(r, ReadInto(a.datagram))
                      /\ c = Call(j, r.topic, r.schema, r.cb)
        BY <3>1, OnPacketExact
      <4>2. QED
        BY <4>1
    <3>3. QED
      BY <3>2 DEF a
  <2>3. QED
    BY <2>1, <2>2
<1>2. calls' = {Call(x[1], x[2].topic, x[2].schema, x[2].cb) :
                  x \in {y \in (DOMAIN ds) \X registered :
                           Hears(y[2], ReadInto(ds[y[1]].datagram))}}
  <2> DEFINE Heard == {y \in (DOMAIN ds) \X registered :
                         Hears(y[2], ReadInto(ds[y[1]].datagram))}
  <2>1. ASSUME NEW x \in Heard
        PROVE  /\ x[1] \in DOMAIN ds /\ x[2] \in registered
               /\ Hears(x[2], ReadInto(ds[x[1]].datagram))
    OBVIOUS
  <2>2. ASSUME NEW i \in DOMAIN ds, NEW r \in registered,
               Hears(r, ReadInto(ds[i].datagram))
        PROVE  \E x \in Heard : x[1] = i /\ x[2] = r
    BY <2>2, <<i, r>> \in Heard
  <2> HIDE DEF Heard
  <2>3. calls' = {Call(x[1], x[2].topic, x[2].schema, x[2].cb) : x \in Heard}
    BY <1>1, <2>1, <2>2
  <2>4. QED
    BY <2>3 DEF Heard
<1>3. QED
  BY <1>2 DEF DispatchIsExact, Hears

(***************************************************************************)
(* A step reads nothing and calls nothing back, or is a loop(), or         *)
(* stutters.                                                               *)
(***************************************************************************)
LEMMA DispatchSteps ==
  ASSUME [Next]_vars
  PROVE  \/ batch' = <<>> /\ calls' = {}
         \/ \E ds \in Batches : loop(ds)
         \/ UNCHANGED vars
<1>1. ASSUME NEW t \in Topics, NEW len \in Lengths, NEW o \in Overrides,
             NEW s \in SchemaIds \cup {RawSchema}, play(t, len, s, o)
      PROVE  batch' = <<>> /\ calls' = {}
  BY <1>1 DEF play, publish, send_datagram, Emits
<1>2. ASSUME NEW id \in Crcs, FireTimeout(id)
      PROVE  batch' = <<>> /\ calls' = {}
  BY <1>2 DEF FireTimeout, send_datagram, Emits
<1>3. ASSUME NEW x \in deferred, FireDeferred(x)
      PROVE  batch' = <<>> /\ calls' = {}
  BY <1>3 DEF FireDeferred, send_datagram, Emits
<1>4. QED
  BY <1>1, <1>2, <1>3 DEF Next, Setup, subscribe, subscribe_typed, Emits

(***************************************************************************)
(* Each loop() calls back exactly the registrations that must hear the     *)
(* datagrams it drained.                                                   *)
(***************************************************************************)
LEMMA DispatchStep ==
  ASSUME TypeOK, SubInv, CrcInjective, DispatchIsExact, [Next]_vars
  PROVE  DispatchIsExact'
<1>1. CASE batch' = <<>> /\ calls' = {}
  BY <1>1 DEF DispatchIsExact
<1>2. ASSUME NEW ds \in Batches, loop(ds)
      PROVE  DispatchIsExact'
  <2>1. /\ batch' = ds /\ registered' = registered
        /\ calls' = UNION {on_packet(i, ReadInto(ds[i].datagram)) :
                             i \in DOMAIN ds}
    BY <1>2 DEF loop, subHistory
  <2>2. \A i \in DOMAIN ds : ds[i] \in Arrivals
    BY DEF Batches
  <2>3. QED
    BY <2>1, <2>2, BatchExact
<1>3. CASE UNCHANGED vars
  BY <1>3 DEF vars, stepOutput, subHistory, DispatchIsExact, Hears
<1>4. QED
  BY <1>1, <1>2, <1>3, DispatchSteps

(***************************************************************************)
(* Without CRC32 collisions, a callback hears exactly the datagrams sent   *)
(* on its topic, in its schema and with the protection asked for, however  *)
(* subscribe() calls, setup() and arrivals interleave.                     *)
(***************************************************************************)
THEOREM DispatchCorrect ==
  ASSUME CrcInjective
  PROVE  Spec => []DispatchIsExact
<1>1. Init => SubInv /\ DispatchIsExact
  BY DEF Init, SubInv, NoSubscription, DispatchIsExact
<1>2. TypeOK /\ SubInv /\ DispatchIsExact /\ [Next]_vars
        => SubInv' /\ DispatchIsExact'
  BY SubStep, DispatchStep
<1>3. QED
  BY <1>1, <1>2, TypeCorrect, PTL DEF Spec

-----------------------------------------------------------------------------
(***************************************************************************)
(* Membership.  find_subscription_ finds exactly the topics somebody       *)
(* registered for, so that setup() and a late registration between them    *)
(* join every group.                                                       *)
(***************************************************************************)
LEMMA FoundIsRegistered ==
  ASSUME TypeOK, SubInv, NEW t \in Topics
  PROVE  find_subscription(t) <=> \E r \in registered : r.topic = t
<1> DEFINE sub == subscriptions[t]
<1>1. sub \in Subscriptions
  BY DEF TypeOK, NodeType
<1>2. sub = NoSubscription <=> /\ sub.raw_callbacks = {}
                               /\ sub.typed_callbacks = {}
                               /\ ~sub.require_encryption
  <2>1. sub.require_encryption \in BOOLEAN
    BY <1>1 DEF Subscriptions
  <2>2. sub = [raw_callbacks |-> sub.raw_callbacks,
               typed_callbacks |-> sub.typed_callbacks,
               require_encryption |-> sub.require_encryption]
    BY <1>1 DEF Subscriptions
  <2>3. CASE sub.require_encryption = TRUE
    BY <2>2, <2>3 DEF NoSubscription
  <2>4. CASE sub.require_encryption = FALSE
    <3>1. sub = [raw_callbacks |-> sub.raw_callbacks,
                 typed_callbacks |-> sub.typed_callbacks,
                 require_encryption |-> FALSE]
      BY <2>2, <2>4, Zenon
    <3>2. ASSUME sub.raw_callbacks = {}, sub.typed_callbacks = {}
          PROVE  sub = NoSubscription
      BY <3>1, <3>2, Zenon DEF NoSubscription
    <3>3. NoSubscription.raw_callbacks = {} /\ NoSubscription.typed_callbacks = {}
      BY DEF NoSubscription
    <3> HIDE DEF sub
    <3>4. QED
      BY <2>4, <3>2, <3>3, Zenon
  <2>5. QED
    BY <2>1, <2>3, <2>4
<1>3. ASSUME NEW r \in registered, r.topic = t
      PROVE  sub.raw_callbacks # {} \/ sub.typed_callbacks # {}
  <2>1. r.cb \in Callbacks /\ (r.schema \in SchemaIds \/ r.schema = RawSchema)
    BY DEF TypeOK, HistoryType, Registrations
  <2>2. CASE r.schema = RawSchema
    BY <1>3, <2>1, <2>2 DEF SubInv
  <2>3. CASE r.schema \in SchemaIds
    <3>1. <<r.schema, r.cb>> \in sub.typed_callbacks
      BY <1>3, <2>1, <2>3 DEF SubInv
    <3>2. QED
      BY <3>1
  <2>4. QED
    BY <2>1, <2>2, <2>3
<1>4. ASSUME sub # NoSubscription
      PROVE  \E r \in registered : r.topic = t
  <2>1. CASE sub.raw_callbacks # {}
    BY <1>1, <2>1 DEF SubInv, Subscriptions
  <2>2. CASE sub.typed_callbacks # {}
    <3>1. PICK s \in SchemaIds, cb \in Callbacks :
            <<s, cb>> \in sub.typed_callbacks
      BY <1>1, <2>2 DEF Subscriptions
    <3>2. QED
      BY <3>1 DEF SubInv
  <2>3. CASE sub.require_encryption
    BY <2>3 DEF SubInv
  <2>4. QED
    BY <1>1, <1>2, <1>4, <2>1, <2>2, <2>3 DEF Subscriptions
<1>5. QED
  BY <1>2, <1>3, <1>4 DEF find_subscription

(***************************************************************************)
(* A registration of a topic keeps every other subscribed topic joined and *)
(* joins its own, or records that the join failed.                         *)
(***************************************************************************)
LEMMA RegistrationJoins ==
  ASSUME TypeOK, SubInv, SubscribedMeansJoined, NEW t \in Topics, NEW r,
         r.topic = t, registered' = registered \cup {r}, late_join(t),
         UNCHANGED socket
  PROVE  SubscribedMeansJoined'
<1> DEFINE wanted == {q.topic : q \in registered}
<1>1. {q.topic : q \in registered'} = wanted \cup {t}
  OBVIOUS
<1>2. find_subscription(t) <=> t \in wanted
  BY FoundIsRegistered
<1>3. socket = "bound" =>
        /\ \A u \in wanted \ join_failed : topic_to_group[u] \in groups
        /\ groups \subseteq {topic_to_group[u] : u \in wanted}
  BY DEF SubscribedMeansJoined
<1> HIDE DEF wanted
<1>4. socket = "bound" =>
        /\ \A u \in (wanted \cup {t}) \ join_failed' :
              topic_to_group[u] \in groups'
        /\ groups' \subseteq {topic_to_group[u] : u \in wanted \cup {t}}
  BY <1>2, <1>3 DEF late_join
<1>5. QED
  BY <1>1, <1>4 DEF SubscribedMeansJoined

(***************************************************************************)
(* setup() joins every group subscribed before it.                         *)
(***************************************************************************)
LEMMA SetupJoins ==
  ASSUME TypeOK, SubInv, Setup
  PROVE  SubscribedMeansJoined'
<1> DEFINE wanted == {q.topic : q \in registered}
<1>1. registered' = registered
  BY DEF Setup
<1>2. {t \in Topics : find_subscription(t)} = wanted
  <2>1. wanted \subseteq Topics
    BY DEF TypeOK, HistoryType, Registrations
  <2>2. \A t \in Topics : find_subscription(t) <=> t \in wanted
    BY FoundIsRegistered
  <2> HIDE DEF wanted
  <2>3. QED
    BY <2>1, <2>2
<1>3. CASE socket' # "bound"
  BY <1>3 DEF SubscribedMeansJoined
<1>4. CASE socket' = "bound"
  <2>1. PICK joined \in SUBSET {t \in Topics : find_subscription(t)} :
          /\ groups' = {topic_to_group[t] : t \in joined}
          /\ join_failed' = {t \in Topics \ joined : find_subscription(t)}
    BY <1>4 DEF Setup
  <2>2. joined \subseteq wanted /\ wanted \ join_failed' \subseteq joined
    BY <1>2, <2>1
  <2>3. \A u \in wanted \ join_failed' : topic_to_group[u] \in groups'
    BY <2>1, <2>2
  <2>4. groups' \subseteq {topic_to_group[u] : u \in wanted}
    BY <2>1, <2>2
  <2>5. QED
    BY <1>1, <2>3, <2>4 DEF SubscribedMeansJoined
<1>5. QED
  BY <1>3, <1>4

(***************************************************************************)
(* Once bound, the node is in the group of every topic it subscribed to,   *)
(* before setup() or after it, except those whose join failed, and in no   *)
(* other.                                                                  *)
(***************************************************************************)
THEOREM MembershipCorrect == Spec => []SubscribedMeansJoined
<1>1. Init => SubInv /\ SubscribedMeansJoined
  BY DEF Init, SubInv, NoSubscription, SubscribedMeansJoined
<1>2. ASSUME TypeOK, SubInv, SubscribedMeansJoined, [Next]_vars
      PROVE  SubscribedMeansJoined'
  <2>1. ASSUME NEW t \in Topics, NEW cb \in Callbacks,
               NEW require \in BOOLEAN, subscribe(t, cb, require)
        PROVE  SubscribedMeansJoined'
    <3> DEFINE r == Registration(t, RawSchema, cb, require)
    <3>1. r.topic = t
      BY DEF Registration
    <3> HIDE DEF r
    <3>2. /\ registered' = registered \cup {r}
          /\ late_join(t) /\ UNCHANGED socket
      BY <2>1 DEF subscribe, r
    <3>3. QED
      BY <1>2, <3>1, <3>2, RegistrationJoins
  <2>2. ASSUME NEW t \in Topics, NEW cb \in Callbacks,
               NEW require \in BOOLEAN, NEW s \in SchemaIds,
               subscribe_typed(t, s, cb, require)
        PROVE  SubscribedMeansJoined'
    <3> DEFINE r == Registration(t, s, cb, require)
    <3>1. r.topic = t
      BY DEF Registration
    <3> HIDE DEF r
    <3>2. /\ registered' = registered \cup {r}
          /\ late_join(t) /\ UNCHANGED socket
      BY <2>2 DEF subscribe_typed, r
    <3>3. QED
      BY <1>2, <3>1, <3>2, RegistrationJoins
  <2>3. ASSUME NEW t \in Topics, NEW len \in Lengths, NEW o \in Overrides,
               NEW s \in SchemaIds \cup {RawSchema}, play(t, len, s, o)
        PROVE  UNCHANGED <<socket, groups, registered, join_failed>>
    BY <2>3 DEF play, publish, node, subHistory
  <2>4. CASE UNCHANGED <<socket, groups, registered, join_failed>>
    BY <1>2, <2>4 DEF SubscribedMeansJoined
  <2>5. CASE Setup
    BY <1>2, <2>5, SetupJoins
  <2>6. QED
    BY <1>2, <2>1, <2>2, <2>3, <2>4, <2>5
       DEF Next, FireTimeout, FireDeferred, loop, node, subHistory, vars
<1>3. TypeOK /\ SubInv /\ SubscribedMeansJoined /\ [Next]_vars
        => SubInv' /\ SubscribedMeansJoined'
  BY <1>2, SubStep
<1>4. QED
  BY <1>1, <1>3, TypeCorrect, PTL DEF Spec
=============================================================================
