------------------------------- MODULE Holds -------------------------------
(***************************************************************************)
(* The hold of src/api/client.ts: a refusal that names a wait holds every  *)
(* request of the tab until the wait is over, but the client events that   *)
(* src/client-events.ts sends of what failed.  Answers come in any order.  *)
(***************************************************************************)
EXTENDS Integers, FiniteSets

CONSTANTS
  Call,     \* the requests that may be on their way at once
  Wait,     \* the seconds a Retry-After may name
  Event,    \* the fingerprints of client events
  MaxPage,  \* MAX_PER_PAGE
  MaxTime   \* the bound of the clock

VARIABLES
  now,       \* Date.now(), in seconds
  hold,      \* when the hold ends, or NoHold
  away,      \* the requests that were sent and not answered
  reporting, \* the client events that were sent and not answered
  sent,      \* the fingerprints the page has sent
  asked      \* the end of the longest wait that an answer asked for

vars == <<now, hold, away, reporting, sent, asked>>

NoHold == -1

TypeOK ==
  /\ now \in 0..MaxTime
  /\ hold \in {NoHold} \union Nat
  /\ away \subseteq Call
  /\ reporting \subseteq sent /\ sent \subseteq Event /\ Cardinality(sent) <= MaxPage
  /\ asked \in Nat

Init == now = 0 /\ hold = NoHold /\ away = {} /\ reporting = {} /\ sent = {} /\ asked = 0

\* A failure is recorded, and sent once for its kind, error, route and status, up
\* to a number for a page.
Record == \E e \in Event :
  IF e \in sent \/ Cardinality(sent) >= MaxPage THEN UNCHANGED <<reporting, sent>>
  ELSE reporting' = reporting \union {e} /\ sent' = sent \union {e}

\* refuseWhileHeld: a hold that is over is dropped.
Send(c) ==
  /\ c \notin away
  /\ hold - now <= 0
  /\ hold' = NoHold
  /\ away' = away \union {c}
  /\ UNCHANGED <<now, reporting, sent, asked>>

\* Held is thrown, and nothing is sent but the event of it.
Refuse(c) ==
  /\ c \notin away
  /\ hold - now > 0
  /\ Record
  /\ UNCHANGED <<now, hold, away, asked>>

\* Mutant: the last answer sets the hold.
MutantLongerOfLast(until) == until

\* holdFor: a shorter wait leaves the hold.
LongerOf(until) == IF hold = NoHold \/ hold < until THEN until ELSE hold

\* A 429 or a 503 with a Retry-After that is read.
HoldFor(seconds) ==
  /\ hold' = LongerOf(now + seconds)
  /\ asked' = IF asked < now + seconds THEN now + seconds ELSE asked

Answered(c) ==
  /\ c \in away
  /\ away' = away \ {c}
  /\ UNCHANGED <<now, hold, reporting, sent, asked>>

\* A refusal that asks for no wait, an answer that cannot be read, or none.
Fails(c) ==
  /\ c \in away
  /\ away' = away \ {c}
  /\ Record
  /\ UNCHANGED <<now, hold, asked>>

Refused(c) ==
  /\ c \in away
  /\ away' = away \ {c}
  /\ \E seconds \in Wait : HoldFor(seconds)
  /\ Record
  /\ UNCHANGED now

\* A client event is answered or not delivered: the console alone hears of that.
Reported(e) ==
  /\ e \in reporting
  /\ reporting' = reporting \ {e}
  /\ \/ UNCHANGED <<hold, asked>>
     \/ \E seconds \in Wait : HoldFor(seconds)
  /\ UNCHANGED <<now, away, sent>>

Tick ==
  /\ now < MaxTime
  /\ now' = now + 1
  /\ UNCHANGED <<hold, away, reporting, sent, asked>>

Next ==
  \/ \E c \in Call : Send(c) \/ Refuse(c) \/ Answered(c) \/ Fails(c) \/ Refused(c)
  \/ \E e \in Event : Reported(e)
  \/ Tick

Spec == Init /\ [][Next]_vars

\* No request is sent before the longest wait that any answer asked for is over,
\* though answers with shorter waits came after it.
HeldSendsNothing == [][\A c \in Call : c \in away' \ away => now >= asked]_vars
=============================================================================
