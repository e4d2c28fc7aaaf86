---------------------------- MODULE ActorBounds ----------------------------
(***************************************************************************)
(* What admission promises each actor, with no account to open or to drop: *)
(* at most InFlight requests are served at once and Streams streams held   *)
(* open, and requests are taken no faster than one in Cost ticks on        *)
(* average, after a burst.                                                 *)
(***************************************************************************)
EXTENDS Integers, FiniteSets

CONSTANTS Actor, Request, InFlight, Streams, Cost, Full

VARIABLES
  level,    \* the ticks each actor has saved up, Full at most
  serving,  \* the requests of each actor that are being served
  open      \* the requests of each actor that hold a stream open

vars == <<level, serving, open>>

Init ==
  /\ level = [a \in Actor |-> Full]
  /\ serving = [a \in Actor |-> {}]
  /\ open = [a \in Actor |-> {}]

Tick ==
  /\ level' = [a \in Actor |-> IF level[a] < Full THEN level[a] + 1 ELSE Full]
  /\ UNCHANGED <<serving, open>>

Admit(a, r) ==
  /\ Cardinality(serving[a]) < InFlight
  /\ level[a] >= Cost
  /\ \A b \in Actor : r \notin serving[b] \union open[b]
  /\ level' = [level EXCEPT ![a] = @ - Cost]
  /\ serving' = [serving EXCEPT ![a] = @ \union {r}]
  /\ UNCHANGED open

Open(a, r) ==
  /\ Cardinality(open[a]) < Streams
  /\ open' = [open EXCEPT ![a] = @ \union {r}]
  /\ UNCHANGED <<level, serving>>

Answer(a, r) ==
  /\ serving' = [serving EXCEPT ![a] = @ \ {r}]
  /\ UNCHANGED <<level, open>>

End(a, r) ==
  /\ serving' = [serving EXCEPT ![a] = @ \ {r}]
  /\ open' = [open EXCEPT ![a] = @ \ {r}]
  /\ UNCHANGED level

Next ==
  \/ Tick
  \/ \E a \in Actor, r \in Request : Admit(a, r) \/ Open(a, r) \/ Answer(a, r) \/ End(a, r)

Spec == Init /\ [][Next]_vars
=============================================================================
