----------------------------- MODULE LastValue -----------------------------
(***************************************************************************)
(* What the pub/sub fabric promises a subscriber, without datagrams,       *)
(* groups, CRCs, keys or timers: per topic it holds the last value heard,  *)
(* which is some value published on that topic and not always the newest,  *)
(* because the network loses, repeats and reorders.  It forgets what it    *)
(* holds when it restarts.  A topic may have a current value, published to *)
(* be repeated until the next publication.                                 *)
(***************************************************************************)
CONSTANTS Topics, Values, NoValue

VARIABLES
  published,  \* topic -> the values published on it
  current,    \* topic -> its current value, or NoValue
  held        \* topic -> the value the subscriber holds, or NoValue

vars == <<published, current, held>>

Init ==
  /\ published = [t \in Topics |-> {}]
  /\ current = [t \in Topics |-> NoValue]
  /\ held = [t \in Topics |-> NoValue]

\* A value is published once.
Publish(t, v) ==
  /\ \A u \in Topics : v \notin published[u]
  /\ published' = [published EXCEPT ![t] = @ \cup {v}]
  /\ \E c \in {v, NoValue} : current' = [current EXCEPT ![t] = c]
  /\ UNCHANGED held

Hear(t) ==
  /\ \E v \in published[t] : held' = [held EXCEPT ![t] = v]
  /\ UNCHANGED <<published, current>>

Forget ==
  /\ held' = [t \in Topics |-> NoValue]
  /\ UNCHANGED <<published, current>>

Next ==
  \/ \E t \in Topics : Hear(t) \/ \E v \in Values : Publish(t, v)
  \/ Forget

Spec == Init /\ [][Next]_vars

(***************************************************************************)
(* A value that stays current is in the end the one the subscriber holds,  *)
(* and no older value replaces it any more.                                *)
(***************************************************************************)
Settles ==
  \A t \in Topics, v \in Values :
    <>[](current[t] = v) => <>[](held[t] = v)
=============================================================================
