----------------------------- MODULE Admission -----------------------------
(***************************************************************************)
(* Admission, app/admission.py: the accounts of the actors of one process, *)
(* and the middleware that gives the places of a request back.             *)
(*                                                                         *)
(* An account is made when its actor asks, filled up by the time since it  *)
(* was last read, and dropped by a sweep.  A place is a closure over the   *)
(* account it was taken from: once that account is dropped, giving the     *)
(* place back changes no other.                                            *)
(*                                                                         *)
(* A tick is the time in which one unit comes back; a request costs Cost   *)
(* units, so per_second is Second \div Cost, and tokens and burst are held *)
(* in units.  The rounding of floats is left out.                          *)
(***************************************************************************)
EXTENDS Integers, FiniteSets

CONSTANTS
  Actor,     \* the issuers and subjects that credentials name
  Request,   \* the requests the process can have at once
  InFlight,  \* Limits.in_flight
  Streams,   \* Limits.streams
  Burst,     \* Limits.burst
  Cost,      \* ticks for one request at Limits.per_second
  Second,    \* ticks in a second
  Policies,  \* the values Policy.enforced may have
  MaxTime,   \* bound: the last tick
  NoActor,   \* the actor of a request that is not there
  NoAccount  \* what _accounts holds for an actor it has no account for

ASSUME AdmissionAssumption ==
  /\ {InFlight, Streams, Burst, Cost, Second} \subseteq Nat \ {0}
  /\ Policies \subseteq BOOLEAN
  /\ MaxTime \in Nat
  /\ NoActor \notin Actor
  /\ IsFiniteSet(Request)

VARIABLES
  enforced,  \* Policy.enforced: whether a request over a bound is refused
  now,       \* the clock
  sweptAt,   \* _swept_at
  accounts,  \* _accounts
  request,   \* of each request: its phase, its actor and the places it holds
  admitted   \* how many requests of each actor were admitted inside the count

vars == <<enforced, now, sweptAt, accounts, request, admitted>>

Full == Burst * Cost

\* The time in which an empty account fills up: burst / per_second.
Refill == Full

Account == [tokens : 0..Full, at : Nat, in_flight : Nat, streams : Nat, born : Nat]

ASSUME NoAccountAssumption == NoAccount \notin Account

\* A place taken from the account born then, one outside the count, or none.
Counted(t) == [kind |-> "counted", born |-> t]
\* Mutant: a place outside the count is given back as one inside it.
MutantOutsideCounted == [kind |-> "counted", born |-> 0]

Outside == [kind |-> "outside", born |-> 0]
NoPlace == [kind |-> "none", born |-> 0]
Place == [kind : {"counted", "outside", "none"}, born : Nat]

NoRequest == [phase |-> "none", actor |-> NoActor, place |-> NoPlace, stream |-> NoPlace,
              told |-> 0, after |-> 0]

TypeOK ==
  /\ enforced \in BOOLEAN
  /\ now \in Nat
  /\ sweptAt \in 0..now
  /\ accounts \in [Actor -> Account \union {NoAccount}]
  /\ request \in [Request -> [phase : {"none", "serving", "answering", "refused"},
                              actor : Actor \union {NoActor}, place : Place, stream : Place,
                              told : Nat, after : Nat]]
  /\ admitted \in [Actor -> Nat]

Init ==
  /\ enforced \in Policies
  /\ now = 0
  /\ sweptAt = 0
  /\ accounts = [a \in Actor |-> NoAccount]
  /\ request = [r \in Request |-> NoRequest]
  /\ admitted = [a \in Actor |-> 0]

-----------------------------------------------------------------------------
(* _account: sweep, find or make the account, fill it up.                  *)

Least(m, n) == IF m < n THEN m ELSE n

SweepDue == now - sweptAt >= Refill

\* Mutant: an account is dropped though places of it are held.
MutantDroppedBusy(a) ==
  /\ SweepDue
  /\ accounts[a] # NoAccount
  /\ now - accounts[a].at >= Refill

Dropped(a) ==
  /\ SweepDue
  /\ accounts[a] # NoAccount
  /\ accounts[a].in_flight = 0 /\ accounts[a].streams = 0
  /\ now - accounts[a].at >= Refill

Swept == [a \in Actor |-> IF Dropped(a) THEN NoAccount ELSE accounts[a]]

NewAccount == [tokens |-> Full, at |-> now, in_flight |-> 0, streams |-> 0, born |-> now]

\* Mutant: the time an account was filled up for counts again.
MutantFilledTwice(account) ==
  [account EXCEPT !.tokens = Least(Full, @ + (now - account.at))]

Filled(account) ==
  [account EXCEPT !.tokens = Least(Full, @ + (now - account.at)), !.at = now]

AccountOf(a) == IF Swept[a] = NoAccount THEN NewAccount ELSE Filled(Swept[a])

\* The account of the actor was read, and is left as `account`.
Leaves(a, account) ==
  /\ accounts' = [Swept EXCEPT ![a] = account]
  /\ sweptAt' = IF SweepDue THEN now ELSE sweptAt

\* Mutant: the seconds are rounded down, to one at least.
MutantWaitFloor(account) ==
  LET short == IF account.tokens < Cost THEN Cost - account.tokens ELSE Cost
  IN  IF short < Second THEN Second ELSE Second * (short \div Second)

\* _wait, in ticks: whole seconds, one at least.
Wait(account) ==
  LET short == IF account.tokens < Cost THEN Cost - account.tokens ELSE Cost
  IN  Second * ((short + Second - 1) \div Second)

-----------------------------------------------------------------------------
(* The requests.                                                           *)

Refused(r, a, account) ==
  request' = [request EXCEPT ![r].phase = "refused", ![r].actor = a,
                             ![r].told = now + Wait(account), ![r].after = admitted[a]]

\* admit: over a bound, the request is refused, or served outside the count.
Admit(r, a) ==
  /\ request[r] = NoRequest
  /\ LET account == AccountOf(a)
         serve(place) == request' = [request EXCEPT ![r].phase = "serving", ![r].actor = a,
                                                    ![r].place = place]
     IN  \/ /\ account.in_flight < InFlight /\ account.tokens >= Cost
            /\ Leaves(a, [account EXCEPT !.tokens = @ - Cost, !.in_flight = @ + 1])
            /\ admitted' = [admitted EXCEPT ![a] = @ + 1]
            /\ serve(Counted(account.born))
         \/ /\ account.in_flight >= InFlight \/ account.tokens < Cost
            /\ Leaves(a, account)
            /\ UNCHANGED admitted
            /\ IF enforced THEN Refused(r, a, account) ELSE serve(Outside)
  /\ UNCHANGED <<enforced, now>>

\* stream: a request outside the count opens its stream outside the count too, and a
\* stream over its bound is refused with the wait that admit gives.
Stream(r) ==
  /\ request[r].phase = "serving"
  /\ request[r].stream = NoPlace
  /\ LET a == request[r].actor
         account == AccountOf(a)
         hold(place) == request' = [request EXCEPT ![r].stream = place]
     IN  \/ /\ request[r].place = Outside
            /\ hold(Outside)
            /\ UNCHANGED <<accounts, sweptAt>>
         \/ /\ request[r].place # Outside
            /\ account.streams < Streams
            /\ Leaves(a, [account EXCEPT !.streams = @ + 1])
            /\ hold(Counted(account.born))
         \/ /\ request[r].place # Outside
            /\ account.streams >= Streams
            /\ Leaves(a, account)
            /\ IF enforced THEN Refused(r, a, account) ELSE hold(Outside)
  /\ UNCHANGED <<enforced, now, admitted>>

\* Whether giving the place back changes the account of the actor.
Returns(place, a) ==
  /\ place.kind = "counted"
  /\ accounts[a] # NoAccount
  /\ accounts[a].born = place.born

One(condition) == IF condition THEN 1 ELSE 0

\* AdmitsRequests: the place of the request comes back when the response starts.
Answer(r) ==
  /\ request[r].phase \in {"serving", "refused"}
  /\ LET a == request[r].actor IN
     accounts' = IF Returns(request[r].place, a)
                   THEN [accounts EXCEPT ![a].in_flight = @ - 1]
                   ELSE accounts
  /\ request' = [request EXCEPT ![r].phase = "answering", ![r].place = NoPlace,
                                ![r].told = 0, ![r].after = 0]
  /\ UNCHANGED <<enforced, now, sweptAt, admitted>>

\* The response ended, or the request failed or was cancelled on the way: both
\* places come back, each once.
End(r) ==
  /\ request[r].phase # "none"
  /\ LET a == request[r].actor IN
     accounts' = IF Returns(request[r].place, a) \/ Returns(request[r].stream, a)
                   THEN [accounts EXCEPT
                          ![a].in_flight = @ - One(Returns(request[r].place, a)),
                          ![a].streams = @ - One(Returns(request[r].stream, a))]
                   ELSE accounts
  /\ request' = [request EXCEPT ![r] = NoRequest]
  /\ UNCHANGED <<enforced, now, sweptAt, admitted>>

Tick ==
  /\ now < MaxTime
  /\ now' = now + 1
  /\ UNCHANGED <<enforced, sweptAt, accounts, request, admitted>>

Next ==
  \/ \E r \in Request : (\E a \in Actor : Admit(r, a)) \/ Stream(r) \/ Answer(r) \/ End(r)
  \/ Tick

Spec == Init /\ [][Next]_vars

-----------------------------------------------------------------------------
(* What is right about it.                                                 *)

\* The requests of an actor that hold a place inside the count.
Serving(a) == {r \in Request : request[r].actor = a /\ request[r].place.kind = "counted"}
Open(a) == {r \in Request : request[r].actor = a /\ request[r].stream.kind = "counted"}

\* What the actor has saved up, whether or not an account says so.
Level(a) ==
  IF accounts[a] = NoAccount THEN Full
  ELSE Least(Full, accounts[a].tokens + (now - accounts[a].at))

\* An account counts the places that are held from it: none is lost with a
\* dropped account, and none comes back twice.
PlacesMatch == \A a \in Actor :
  IF accounts[a] = NoAccount
    THEN Serving(a) = {} /\ Open(a) = {}
    ELSE /\ accounts[a].in_flight = Cardinality(Serving(a))
         /\ accounts[a].streams = Cardinality(Open(a))

\* An actor is admitted no faster than its rate after one burst, however often
\* its account was dropped and made again.
RateHolds == \A a \in Actor : admitted[a] * Cost + Level(a) <= Full + now

\* A refused request that waits as long as it was told fits the rate, when the
\* actor was not admitted in between.
RetryFits == \A r \in Request :
  /\ request[r].phase = "refused" /\ request[r].told > 0
  /\ request[r].told <= now
  /\ request[r].after = admitted[request[r].actor]
  => Level(request[r].actor) >= Cost

\* Dropping and making accounts again is not to be told from keeping one for
\* every actor for good; and a policy that evaluates counts what one that
\* enforces admits.
Bounds == INSTANCE ActorBounds WITH
  level <- [a \in Actor |-> Level(a)],
  serving <- [a \in Actor |-> Serving(a)],
  open <- [a \in Actor |-> Open(a)]

IsActorBounds == Bounds!Spec
=============================================================================
