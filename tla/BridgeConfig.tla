---------------------------- MODULE BridgeConfig ----------------------------
(***************************************************************************)
(* LoadConfig (bridges/mqtt-go/config.go): from the YAML file to the       *)
(* configuration the bridge runs with, or a refusal.  "" is an option left *)
(* out, as in the YAML; a delay is a sequence of at most one number of     *)
(* milliseconds, negative also for text time.ParseDuration refuses; a key  *)
(* stands for its SHA-256; mqtt_topic is the set of topics it matches.     *)
(* Port, client id, credentials, interface and retain have no rule.        *)
(***************************************************************************)
EXTENDS WireFormat, Sequences

CONSTANTS
  WildTopics,     \* topics whose name contains + or #
  SchemaIds       \* SCHEMA_IDs that schemas may have

RawSchema == "raw"      \* schemaPtr is nil
NoTopic == ""           \* an entry without mpubsub_topic
Directions == {"mqtt_to_mpubsub", "mpubsub_to_mqtt"}

\* What the YAML parser hands over: options of these types, and a key.
SchemaFiles == [id : STRING, ok : BOOLEAN, schema_id : SchemaIds]
EntryFiles == [direction : STRING, mqtt_topic : SUBSET Topics,
               mpubsub_topic : Topics \cup {NoTopic},
               require_encryption : BOOLEAN, schema : STRING]
YamlFiles(key) ==
  [broker : STRING, scope : STRING, hops : Int, count : Int, delay : Seq(Int),
   promote_qos : BOOLEAN, key : {key}, json_translation : BOOLEAN,
   schemas : Seq(SchemaFiles), bridges : Seq(EntryFiles)]

\* The scopes ParseScope knows.
Scopes == {"", "link-local", "site-local", "organization-local", "org-local"}

(***************************************************************************)
(* applyDefaults: what makes it refuse, and what it fills in.  A schema is *)
(* its id, whether NewSchema takes its fields, and its SCHEMA_ID; entries  *)
(* are resolved to SCHEMA_IDs.                                             *)
(***************************************************************************)
\* A mutant: schemas work whether or not json_translation is on.
NoGate(y) == FALSE

TranslationRefused(y) ==
  /\ ~y.json_translation
  /\ y.schemas # <<>> \/ \E i \in DOMAIN y.bridges : y.bridges[i].schema # ""

DefaultsRefuse(y) ==
  \/ y.delay # <<>> /\ y.delay[1] < 0
  \/ TranslationRefused(y)
  \/ \E j \in DOMAIN y.schemas :
       ~y.schemas[j].ok \/ \E k \in 1..(j - 1) : y.schemas[k].id = y.schemas[j].id
  \/ \E i \in DOMAIN y.bridges :
       /\ y.bridges[i].schema # ""
       /\ \A j \in DOMAIN y.schemas : y.schemas[j].id # y.bridges[i].schema

Resolve(y, id) ==
  IF id = "" THEN RawSchema
  ELSE LET j == CHOOSE k \in DOMAIN y.schemas : y.schemas[k].id = id
       IN y.schemas[j].schema_id

ResolveEntries(y) ==
  [i \in DOMAIN y.bridges |-> [y.bridges[i] EXCEPT !.schema = Resolve(y, @)]]

applyDefaults(y) ==
  [y EXCEPT
     !.scope = IF @ = "" THEN "link-local" ELSE @,
     !.hops  = IF @ = 0 THEN 1 ELSE @,
     !.count = IF @ = 0 THEN 1 ELSE @,
     !.delay = IF @ = <<>> THEN 100 ELSE @[1],
     !.bridges = ResolveEntries(y)]

\* A mutant: the delay is not compared with one second.
RetransmitsWithoutDelay(c) == c.count \in {-1} \cup 1..255

ValidRetransmits(c) ==
  /\ c.count \in {-1} \cup 1..255
  /\ c.count = -1 => c.delay >= 1000

validate(c) ==
  /\ c.broker # "" /\ c.scope \in Scopes /\ c.hops \in 1..255
  /\ ValidRetransmits(c)
  /\ c.bridges # <<>>
  /\ \A i \in DOMAIN c.bridges :
       LET b == c.bridges[i] IN
       /\ b.mqtt_topic # {} /\ b.direction \in Directions
       /\ b.direction = "mpubsub_to_mqtt" =>
            b.mpubsub_topic \notin WildTopics \cup {NoTopic}
       /\ b.require_encryption =>
            b.direction = "mpubsub_to_mqtt" /\ c.key # NoKey

LoadRefuses(y) == DefaultsRefuse(y) \/ ~validate(applyDefaults(y))
=============================================================================
