--------------------------- MODULE Esp8266Proofs ---------------------------
(***************************************************************************)
(* Proofs, for every value of the constants, that the ESP8266 half of the  *)
(* component keeps what it shares with the socket half, dispatch and       *)
(* retransmission, whatever its interface and lwIP's callback do, and that *)
(* its joined flags tell the truth.                                        *)
(***************************************************************************)
EXTENDS Esp8266Node, NodeProofs

-----------------------------------------------------------------------------
(***************************************************************************)
(* The two halves compared.  publish() and the timeouts are steps of the   *)
(* socket half, which leave the interface alone; every other step leaves   *)
(* publications and timers alone and emits nothing.                        *)
(***************************************************************************)
LEMMA SharedSteps ==
  ASSUME [EspNext]_espVars
  PROVE  \/ /\ [Next]_vars
            /\ UNCHANGED <<node, subHistory, esp>>
            /\ UNCHANGED stepOutput \/ (batch' = <<>> /\ calls' = {})
         \/ /\ UNCHANGED <<timers, pubHistory>> /\ out' = <<>>
            /\ \/ EspSetup \/ EspLoop \/ NetifUp \/ NetifDown
               \/ \E t \in Topics, cb \in Callbacks, require \in BOOLEAN,
                    schema \in Schemas : EspSubscribe(t, schema, cb, require)
               \/ \E a \in Arrivals : Recv(a)
<1>1. ASSUME NEW t \in Topics, NEW len \in Lengths, NEW o \in Overrides,
             EspPlay(t, len, RawSchema, o)
      PROVE  Next /\ UNCHANGED <<node, subHistory, esp>> /\ batch' = <<>> /\ calls' = {}
  <2>1. play(t, len, RawSchema, o) /\ UNCHANGED esp
    BY <1>1 DEF EspPlay, NeedsNetif
  <2>2. UNCHANGED <<node, subHistory>> /\ batch' = <<>> /\ calls' = {}
    BY <2>1 DEF play, publish, send_datagram, Emits
  <2>3. QED
    BY <2>1, <2>2 DEF Next
<1>2. ASSUME NEW id \in Crcs, EspFireTimeout(id)
      PROVE  Next /\ UNCHANGED <<node, subHistory, esp>> /\ batch' = <<>> /\ calls' = {}
  <2>1. FireTimeout(id) /\ UNCHANGED esp
    BY <1>2 DEF EspFireTimeout, NeedsNetif
  <2>2. UNCHANGED <<node, subHistory>> /\ batch' = <<>> /\ calls' = {}
    BY <2>1 DEF FireTimeout, send_datagram, Emits
  <2>3. QED
    BY <2>1, <2>2 DEF Next
<1>3. ASSUME NEW x \in deferred, EspFireDeferred(x)
      PROVE  Next /\ UNCHANGED <<node, subHistory, esp>> /\ batch' = <<>> /\ calls' = {}
  <2>1. FireDeferred(x) /\ UNCHANGED esp
    BY <1>3 DEF EspFireDeferred, NeedsNetif
  <2>2. UNCHANGED <<node, subHistory>> /\ batch' = <<>> /\ calls' = {}
    BY <2>1 DEF FireDeferred, send_datagram, Emits
  <2>3. QED
    BY <2>1, <2>2 DEF Next
<1>4. CASE EspSetup \/ EspLoop \/ NetifUp \/ NetifDown
  BY <1>4 DEF EspSetup, EspLoop, NetifUp, NetifDown, Emits
<1>5. ASSUME NEW t \in Topics, NEW cb \in Callbacks, NEW require \in BOOLEAN,
             NEW schema \in Schemas, EspSubscribe(t, schema, cb, require)
      PROVE  UNCHANGED <<timers, pubHistory>> /\ out' = <<>>
  BY <1>5 DEF EspSubscribe, Emits
<1>6. ASSUME NEW a \in Arrivals, Recv(a)
      PROVE  UNCHANGED <<timers, pubHistory>> /\ out' = <<>>
  BY <1>6 DEF Recv
<1>7. CASE UNCHANGED espVars
  BY <1>7 DEF espVars, vars
<1>8. QED
  BY <1>1, <1>2, <1>3, <1>4, <1>5, <1>6, <1>7 DEF EspNext, Schemas

(***************************************************************************)
(* Types and subscription records.                                         *)
(***************************************************************************)
LEMMA EspTypeStep ==
  ASSUME TypeOK, SubInv, [EspNext]_espVars
  PROVE  TypeOK' /\ SubInv'
<1> USE DEF TypeOK
<1>1. CASE [Next]_vars
  BY <1>1, TypeStep, SubStep
<1>2. ASSUME UNCHANGED <<timers, pubHistory>>,
             subscriptions' \in [Topics -> Subscriptions],
             socket' \in {"none", "unbound", "bound"}, failed' \in BOOLEAN,
             groups' \subseteq Groups, registered' \subseteq Registrations,
             join_failed' \subseteq Topics
      PROVE  NodeType' /\ TimerType' /\ HistoryType'
  BY <1>2 DEF NodeType, TimerType, HistoryType, timers, pubHistory
<1>3. CASE UNCHANGED <<timers, pubHistory>> /\ EspSetup
  <2>1. NodeType' /\ TimerType' /\ HistoryType'
    BY <1>2, <1>3 DEF EspSetup, NodeType, HistoryType, subHistory
  <2>2. CounterType' /\ OutputType'
    BY <1>3, EmptyOutput DEF EspSetup, CounterType, counters
  <2>3. QED
    BY <1>3, <2>1, <2>2 DEF EspSetup, SubInv, subHistory
<1>4. CASE UNCHANGED <<timers, pubHistory>> /\ EspLoop
  <2>1. groups' \subseteq Groups /\ join_failed' \subseteq Topics
    BY <1>4, NodeAssumption DEF EspLoop, NodeType, HistoryType
  <2>2. NodeType' /\ TimerType' /\ HistoryType'
    BY <1>2, <1>4, <2>1 DEF EspLoop, NodeType, HistoryType
  <2>3. CounterType' /\ OutputType'
    BY <1>4, EmptyOutput DEF EspLoop, CounterType
  <2>4. QED
    BY <1>4, <2>2, <2>3 DEF EspLoop, SubInv
<1>5. CASE UNCHANGED <<timers, pubHistory>> /\ (NetifUp \/ NetifDown)
  <2>1. NodeType' /\ TimerType' /\ HistoryType'
    BY <1>2, <1>5 DEF NetifUp, NetifDown, NodeType, HistoryType, node, subHistory
  <2>2. CounterType' /\ OutputType'
    BY <1>5, EmptyOutput DEF NetifUp, NetifDown, CounterType, counters
  <2>3. QED
    BY <1>5, <2>1, <2>2 DEF NetifUp, NetifDown, SubInv, node, subHistory
<1>6. ASSUME NEW t \in Topics, NEW cb \in Callbacks, NEW require \in BOOLEAN,
             NEW schema \in Schemas, EspSubscribe(t, schema, cb, require),
             UNCHANGED <<timers, pubHistory>>
      PROVE  TypeOK' /\ SubInv'
  <2>1. /\ subscriptions' \in [Topics -> Subscriptions]
        /\ registered' \subseteq Registrations /\ SubInv'
    <3>1. CASE schema = RawSchema
      BY <1>6, <3>1, RawRegistration DEF EspSubscribe
    <3>2. CASE schema \in SchemaIds
      BY <1>6, <3>2, TypedRegistration, NodeAssumption DEF EspSubscribe
    <3>3. QED
      BY <3>1, <3>2 DEF Schemas
  <2>2. NodeType' /\ TimerType' /\ HistoryType'
    BY <1>2, <1>6, <2>1 DEF EspSubscribe, NodeType, HistoryType
  <2>3. CounterType' /\ OutputType'
    BY <1>6, EmptyOutput DEF EspSubscribe, CounterType, counters
  <2>4. QED
    BY <2>1, <2>2, <2>3
<1>7. ASSUME NEW a \in Arrivals, Recv(a), UNCHANGED <<timers, pubHistory>>
      PROVE  TypeOK' /\ SubInv'
  <2>1. NodeType' /\ TimerType' /\ HistoryType' /\ SubInv'
    BY <1>2, <1>7 DEF Recv, NodeType, HistoryType, SubInv, node, subHistory
  <2>2. (packets_received + 1) % CounterMod \in CounterValues
    BY NodeAssumption DEF CounterType, CounterValues
  <2>3. CounterType'
    BY <1>7, <2>2 DEF Recv, CounterType
  <2>4. ASSUME NEW k \in calls'
        PROVE  k \in [at : {1}, topic : Topics, schema : Schemas, cb : Callbacks]
    <3> DEFINE d == ReadInto(a.datagram)
               crc == RecoveredCrc(d, encryption_key)
    <3>1. k \in deliver(1, crc, d)
      BY <1>7, <2>4 DEF Recv, on_packet
    <3>2. QED
      BY <3>1, DeliverType
  <2>5. batch' = <<a>> /\ out' = <<>>
    BY <1>7 DEF Recv
  <2>6. OutputType'
    <3>1. batch' \in Seq(Arrivals) /\ DOMAIN batch' = {1}
      BY <2>5
    <3>2. QED
      BY <2>4, <2>5, <3>1 DEF OutputType, Schemas
  <2>7. QED
    BY <2>1, <2>3, <2>6
<1>8. QED
  BY <1>1, <1>3, <1>4, <1>5, <1>6, <1>7, SharedSteps

(***************************************************************************)
(* Before setup() nothing is subscribed, scheduled or joined.              *)
(***************************************************************************)
LEMMA EspInitial == EspInit => TypeOK /\ SubInv
<1> SUFFICES ASSUME EspInit PROVE TypeOK /\ SubInv
  OBVIOUS
<1>1. Init
  BY DEF EspInit
<1>2. TypeOK
  BY <1>1, TypeInitial
<1>3. SubInv
  BY <1>1 DEF Init, SubInv, NoSubscription
<1>4. QED
  BY <1>2, <1>3

(***************************************************************************)
(* Every variable the ESP8266 half shares with the socket half keeps its   *)
(* type, with the subscription records the sum of the calls made.          *)
(***************************************************************************)
THEOREM EspTypeCorrect == EspSpec => []TypeOK /\ []SubInv
<1>1. TypeOK /\ SubInv /\ [EspNext]_espVars => TypeOK' /\ SubInv'
  BY EspTypeStep
<1>2. QED
  BY <1>1, EspInitial, PTL DEF EspSpec

-----------------------------------------------------------------------------
(***************************************************************************)
(* The joined flags.  loop() sets a flag only with an interface, and then  *)
(* either the group is joined or the failure is recorded; an interface     *)
(* that goes leaves its flags behind, which is what orphaned records.      *)
(***************************************************************************)
LEMMA JoinStep ==
  ASSUME TypeOK, SubInv, JoinedFlagIsTrue, [EspNext]_espVars
  PROVE  JoinedFlagIsTrue'
<1>1. CASE UNCHANGED <<node, subHistory, esp>>
  BY <1>1 DEF JoinedFlagIsTrue, node, subHistory, esp
<1>2. CASE EspSetup
  <2>1. joined' \subseteq joined
    BY <1>2 DEF EspSetup
  <2>2. UNCHANGED <<groups, registered, join_failed, orphaned>>
    BY <1>2 DEF EspSetup, subHistory
  <2>3. QED
    BY <2>1, <2>2 DEF JoinedFlagIsTrue
<1>3. CASE EspLoop
  <2> DEFINE due == {t \in Topics : joins_due(t)}
  <2>1. PICK ok \in SUBSET due :
          /\ groups' = groups \cup {topic_to_group[t] : t \in ok}
          /\ join_failed' = IF netif THEN join_failed \cup (due \ ok)
                                     ELSE join_failed
    BY <1>3 DEF EspLoop
  <2>2. joined' = joined \cup due /\ UNCHANGED <<registered, orphaned>>
    BY <1>3 DEF EspLoop
  <2>3. \A t \in due : netif /\ t \in Topics /\ find_subscription(t)
    BY DEF joins_due
  <2>4. \A t \in due : \E r \in registered : r.topic = t
    BY <2>3, FoundIsRegistered
  <2> HIDE DEF due
  <2>5. \A t \in joined' \ (join_failed' \cup orphaned') : topic_to_group[t] \in groups'
    BY <2>1, <2>2, <2>3 DEF JoinedFlagIsTrue
  <2>6. groups' \subseteq {topic_to_group[r.topic] : r \in registered}
    BY <2>1, <2>4 DEF JoinedFlagIsTrue
  <2>7. QED
    BY <2>2, <2>5, <2>6 DEF JoinedFlagIsTrue
<1>4. CASE NetifUp
  BY <1>4 DEF NetifUp, JoinedFlagIsTrue, node, subHistory
<1>5. CASE NetifDown
  BY <1>5 DEF NetifDown, JoinedFlagIsTrue, subHistory
<1>6. ASSUME NEW t \in Topics, NEW cb \in Callbacks, NEW require \in BOOLEAN,
             NEW schema \in Schemas, EspSubscribe(t, schema, cb, require)
      PROVE  JoinedFlagIsTrue'
  BY <1>6 DEF EspSubscribe, create_unjoined, JoinedFlagIsTrue
<1>7. ASSUME NEW a \in Arrivals, Recv(a)
      PROVE  JoinedFlagIsTrue'
  BY <1>1, <1>7 DEF Recv
<1>8. QED
  BY <1>1, <1>2, <1>3, <1>4, <1>5, <1>6, <1>7, SharedSteps

(***************************************************************************)
(* A subscription whose joined flag is set is in its group on the present  *)
(* interface, unless its one join failed or that interface has gone; and   *)
(* no group is joined that nobody subscribed to.                           *)
(***************************************************************************)
THEOREM EspJoinsCorrect == EspSpec => []JoinedFlagIsTrue
<1>1. EspInit => JoinedFlagIsTrue
  BY DEF EspInit, Init, JoinedFlagIsTrue
<1>2. TypeOK /\ SubInv /\ JoinedFlagIsTrue /\ [EspNext]_espVars => JoinedFlagIsTrue'
  BY JoinStep
<1>3. QED
  BY <1>1, <1>2, EspTypeCorrect, PTL DEF EspSpec

-----------------------------------------------------------------------------
(***************************************************************************)
(* Dispatch: lwIP's callback hands over one datagram at a time.            *)
(***************************************************************************)
LEMMA EspDispatchStep ==
  ASSUME CrcInjective, TypeOK, SubInv, DispatchIsExact, [EspNext]_espVars
  PROVE  DispatchIsExact'
<1>1. CASE batch' = <<>> /\ calls' = {}
  BY <1>1 DEF DispatchIsExact
<1>2. CASE UNCHANGED stepOutput /\ UNCHANGED subHistory
  BY <1>2 DEF stepOutput, subHistory, DispatchIsExact, Hears
<1>3. CASE EspSetup \/ EspLoop \/ NetifUp \/ NetifDown
  BY <1>1, <1>3 DEF EspSetup, EspLoop, NetifUp, NetifDown, Emits
<1>4. ASSUME NEW t \in Topics, NEW cb \in Callbacks, NEW require \in BOOLEAN,
             NEW schema \in Schemas, EspSubscribe(t, schema, cb, require)
      PROVE  DispatchIsExact'
  BY <1>1, <1>4 DEF EspSubscribe, Emits
<1>5. ASSUME NEW a \in Arrivals, Recv(a)
      PROVE  DispatchIsExact'
  <2> DEFINE ds == <<a>>
  <2>1. DOMAIN ds = {1} /\ ds[1] = a
    OBVIOUS
  <2>2. batch' = ds /\ registered' = registered
    BY <1>5 DEF Recv, subHistory
  <2>3. calls' = on_packet(1, ReadInto(ds[1].datagram))
    BY <1>5, <2>1 DEF Recv
  <2> HIDE DEF ds
  <2>4. calls' = UNION {on_packet(i, ReadInto(ds[i].datagram)) : i \in DOMAIN ds}
    BY <2>1, <2>3
  <2>5. \A i \in DOMAIN ds : ds[i] \in Arrivals
    BY <2>1
  <2>6. QED
    BY <2>2, <2>4, <2>5, BatchExact
<1>6. QED
  BY <1>1, <1>2, <1>3, <1>4, <1>5, SharedSteps

(***************************************************************************)
(* Without CRC32 collisions, a callback on ESP8266 too hears exactly the   *)
(* datagrams sent on its topic, in its schema and with the protection      *)
(* asked for, through joins, outages and late subscriptions.               *)
(***************************************************************************)
THEOREM EspDispatchCorrect ==
  ASSUME CrcInjective
  PROVE  EspSpec => []DispatchIsExact
<1>1. EspInit => DispatchIsExact
  BY DEF EspInit, Init, DispatchIsExact
<1>2. TypeOK /\ SubInv /\ DispatchIsExact /\ [EspNext]_espVars => DispatchIsExact'
  BY EspDispatchStep
<1>3. QED
  BY <1>1, <1>2, EspTypeCorrect, PTL DEF EspSpec

-----------------------------------------------------------------------------
(***************************************************************************)
(* Retransmission: an interface that comes and goes makes sends fail, and  *)
(* that neither ends a chain nor revives one.                              *)
(***************************************************************************)
THEOREM EspChainsCorrect ==
  ASSUME CrcInjective
  PROVE  EspSpec => [](IndefiniteUntilSuperseded /\ SupersededNeverResent)
<1>1. EspInit => Numbered /\ ChainInv
  <2> SUFFICES ASSUME EspInit PROVE Numbered /\ ChainInv
    OBVIOUS
  <2>1. Init
    BY DEF EspInit
  <2>2. Numbered
    BY <2>1 DEF Init, Numbered
  <2>3. ChainInv
    BY <2>1 DEF Init, ChainInv, Indefinite, Crcs
  <2>4. QED
    BY <2>2, <2>3
<1>2. TypeOK /\ Numbered /\ ChainInv /\ [EspNext]_espVars => Numbered' /\ ChainInv'
  <2> SUFFICES ASSUME TypeOK, Numbered, ChainInv, [EspNext]_espVars
               PROVE  Numbered' /\ ChainInv'
    OBVIOUS
  <2>1. CASE [Next]_vars
    BY <2>1, NumberedStep, ChainStep
  <2>2. CASE UNCHANGED <<timers, pubHistory>>
    BY <2>2 DEF timers, pubHistory, Numbered, ChainInv, Indefinite
  <2>3. QED
    BY <2>1, <2>2, SharedSteps
<1>3. ChainInv => IndefiniteUntilSuperseded /\ SupersededNeverResent
  BY ChainsMirror
<1>4. QED
  BY <1>1, <1>2, <1>3, EspTypeCorrect, PTL DEF EspSpec
=============================================================================
