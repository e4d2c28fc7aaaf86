-------------------------- MODULE AdmissionProofs --------------------------
(***************************************************************************)
(* That dropping an account loses nothing, for any bounds, actors,         *)
(* requests and times: the places of an actor are counted exactly, the     *)
(* rate holds over every life of its accounts, and what a refused request  *)
(* is told to wait for comes true.                                         *)
(*                                                                         *)
(* What carries it: an account is dropped only when no place of it is held *)
(* and when it has filled up, so that a new one begins with what the old   *)
(* one had.                                                                *)
(***************************************************************************)
EXTENDS Admission, FiniteSetTheorems, TLAPS

\* A request that is there has an actor, one that is not there holds nothing, and
\* one that is not refused was told nothing.
Shape == \A r \in Request :
  /\ request[r].phase = "none" => request[r] = NoRequest
  /\ request[r].phase # "none" => request[r].actor \in Actor
  /\ request[r].phase # "refused" => request[r].told = 0

\* A place that is held was taken from the account its actor has now.
HeldHere == \A r \in Request :
  /\ request[r].place.kind = "counted" =>
       /\ accounts[request[r].actor] # NoAccount
       /\ accounts[request[r].actor].born = request[r].place.born
  /\ request[r].stream.kind = "counted" =>
       /\ accounts[request[r].actor] # NoAccount
       /\ accounts[request[r].actor].born = request[r].stream.born

\* No account was read at a time to come.
ReadBefore == \A a \in Actor : accounts[a] # NoAccount => accounts[a].at <= now

\* What a refused request waits for comes back by the time it was told.
WaitsFor == \A r \in Request :
  /\ request[r].phase = "refused" /\ request[r].told > 0
  => \A a \in Actor : a = request[r].actor =>
       /\ request[r].after <= admitted[a]
       /\ request[r].after = admitted[a] =>
            Level(a) >= Cost \/ Level(a) + (request[r].told - now) >= Cost

AInv ==
  /\ TypeOK
  /\ Shape /\ HeldHere /\ ReadBefore
  /\ PlacesMatch /\ RateHolds /\ WaitsFor

-----------------------------------------------------------------------------
(* The clock and the accounts.                                             *)

\* A burst is worth one request at least.
LEMMA FullFits == Full \in Nat /\ Cost \in Nat /\ Cost > 0 /\ Second \in Nat /\ Second > 0 /\ Full >= Cost
<1>1. Burst \in Nat /\ Burst > 0 /\ Cost \in Nat /\ Cost > 0 /\ Second \in Nat /\ Second > 0
  BY AdmissionAssumption
<1>2. Burst * Cost \in Nat /\ Burst * Cost >= Cost
  BY <1>1
<1> QED
  BY <1>1, <1>2 DEF Full

\* The wait is not shorter than what is short.
LEMMA WaitFits ==
  ASSUME NEW account, account.tokens \in 0..Full
  PROVE  /\ Wait(account) \in Nat /\ Wait(account) > 0
         /\ account.tokens + Wait(account) >= Cost
<1> DEFINE short == IF account.tokens < Cost THEN Cost - account.tokens ELSE Cost
           up == short + Second - 1
<1>1. /\ short \in Nat /\ short > 0 /\ account.tokens + short >= Cost
      /\ up \in Nat /\ Second \in Nat /\ Second > 0
  BY FullFits
<1> HIDE DEF short
<1>2. up \div Second \in Nat /\ Second * (up \div Second) > up - Second
  BY <1>1
<1>3. Second * (up \div Second) \in Nat /\ Second * (up \div Second) >= short
  BY <1>1, <1>2
<1>4. Wait(account) = Second * (up \div Second)
  BY DEF Wait, short
<1>5. account.tokens \in Nat
  BY FullFits
<1> QED
  BY <1>1, <1>3, <1>4, <1>5, FullFits

\* What an account says of an actor, at a time.
LEMMA LevelType ==
  ASSUME TypeOK, ReadBefore, NEW a \in Actor
  PROVE  /\ Level(a) \in 0..Full
         /\ accounts[a] # NoAccount =>
              /\ accounts[a] \in Account /\ accounts[a].at \in Nat /\ accounts[a].at <= now
              /\ accounts[a].tokens \in 0..Full
BY FullFits DEF TypeOK, ReadBefore, Level, Least, Account

\* The sweep drops an account that is full and holds no place.
LEMMA TheOthers ==
  ASSUME AInv, NEW b \in Actor
  PROVE  /\ Swept[b] # NoAccount => Swept[b] = accounts[b]
         /\ Swept[b] = NoAccount => Level(b) = Full /\ Serving(b) = {} /\ Open(b) = {}
<1>1. Swept[b] = IF Dropped(b) THEN NoAccount ELSE accounts[b]
  BY DEF Swept
<1>2. CASE accounts[b] = NoAccount
  BY <1>1, <1>2 DEF AInv, PlacesMatch, Level
<1>3. CASE Dropped(b)
  <2>1. /\ accounts[b] # NoAccount /\ accounts[b].in_flight = 0 /\ accounts[b].streams = 0
        /\ now - accounts[b].at >= Full
    BY <1>3 DEF Dropped, Refill
  <2>2. Cardinality(Serving(b)) = 0 /\ Cardinality(Open(b)) = 0
    BY <2>1 DEF AInv, PlacesMatch
  <2>3. Serving(b) = {} /\ Open(b) = {}
    <3>1. IsFiniteSet(Serving(b)) /\ IsFiniteSet(Open(b))
      BY FS_Subset, AdmissionAssumption DEF Serving, Open
    <3> QED
      BY <2>2, <3>1, FS_EmptySet
  <2>4. Level(b) = Full
    <3>1. /\ accounts[b].tokens \in Nat /\ accounts[b].at \in Nat /\ now \in Nat
      BY <2>1, LevelType, FullFits DEF AInv, TypeOK
    <3> QED
      BY <2>1, <3>1, FullFits DEF Level, Least
  <2> QED
    BY <1>1, <1>3, <2>3, <2>4
<1> QED
  BY <1>1, <1>2, <1>3

\* The account that an actor is given says what it had saved up and what it holds.
LEMMA TheAccount ==
  ASSUME AInv, NEW a \in Actor
  PROVE  /\ AccountOf(a) \in Account
         /\ AccountOf(a).tokens = Level(a) /\ AccountOf(a).at = now
         /\ AccountOf(a).in_flight = Cardinality(Serving(a))
         /\ AccountOf(a).streams = Cardinality(Open(a))
         /\ Serving(a) \union Open(a) # {} =>
              accounts[a] # NoAccount /\ AccountOf(a).born = accounts[a].born
<1>1. now \in Nat
  BY DEF AInv, TypeOK
<1>2. CASE Swept[a] = NoAccount
  <2>1. AccountOf(a) = NewAccount
    BY <1>2 DEF AccountOf
  <2>2. Level(a) = Full /\ Serving(a) = {} /\ Open(a) = {}
    BY <1>2, TheOthers
  <2>3. Cardinality({}) = 0
    BY FS_EmptySet
  <2> QED
    BY <1>1, <2>1, <2>2, <2>3, FullFits DEF NewAccount, Account
<1>3. CASE Swept[a] # NoAccount
  <2>1. AccountOf(a) = Filled(accounts[a]) /\ accounts[a] # NoAccount
    BY <1>3, TheOthers DEF AccountOf
  <2>2. accounts[a] \in Account
    BY <2>1, LevelType DEF AInv
  <2>3. Level(a) = Least(Full, accounts[a].tokens + (now - accounts[a].at)) /\ Level(a) \in 0..Full
    BY <2>1, LevelType DEF AInv, Level
  <2>4. /\ accounts[a].in_flight = Cardinality(Serving(a))
        /\ accounts[a].streams = Cardinality(Open(a))
    BY <2>1 DEF AInv, PlacesMatch
  <2>5. AccountOf(a) = [accounts[a] EXCEPT !.tokens = Level(a), !.at = now]
    BY <2>1, <2>2, <2>3 DEF Filled, Account
  <2> QED
    BY <1>1, <2>1, <2>2, <2>3, <2>4, <2>5 DEF Account
<1> QED
  BY <1>2, <1>3

\* Leaving an account behind changes what its actor has saved up and no other's.
LEMMA Left ==
  ASSUME AInv, NEW a \in Actor, NEW account \in Account, account.at = now,
         Leaves(a, account), now' = now
  PROVE  /\ accounts' \in [Actor -> Account \union {NoAccount}] /\ sweptAt' \in 0..now'
         /\ accounts'[a] = account /\ account # NoAccount
         /\ ReadBefore'
         /\ Level(a)' = account.tokens
         /\ \A b \in Actor : b # a =>
              /\ Level(b)' = Level(b)
              /\ accounts'[b] # NoAccount => accounts'[b] = accounts[b]
              /\ accounts'[b] = NoAccount => Serving(b) = {} /\ Open(b) = {}
<1>1. account # NoAccount
  BY NoAccountAssumption
<1>2. Swept \in [Actor -> Account \union {NoAccount}]
  BY DEF Swept, AInv, TypeOK
<1>3. accounts' = [Swept EXCEPT ![a] = account] /\ sweptAt' = IF SweepDue THEN now ELSE sweptAt
  BY DEF Leaves
<1>4. /\ accounts' \in [Actor -> Account \union {NoAccount}]
      /\ accounts'[a] = account /\ \A b \in Actor : b # a => accounts'[b] = Swept[b]
  BY <1>2, <1>3
<1>5. now \in Nat /\ sweptAt' \in 0..now'
  BY <1>3 DEF AInv, TypeOK
<1>6. ReadBefore'
  BY <1>4, <1>5, TheOthers DEF AInv, ReadBefore
<1>7. Level(a)' = account.tokens
  <2>1. account.tokens \in Nat /\ account.tokens <= Full
    BY FullFits DEF Account
  <2> QED
    BY <1>1, <1>4, <1>5, <2>1, FullFits DEF Level, Least
<1>8. ASSUME NEW b \in Actor, b # a
      PROVE  /\ Level(b)' = Level(b)
             /\ accounts'[b] # NoAccount => accounts'[b] = accounts[b]
             /\ accounts'[b] = NoAccount => Serving(b) = {} /\ Open(b) = {}
  <2>1. accounts'[b] = Swept[b]
    BY <1>4, <1>8
  <2>2. CASE Swept[b] = NoAccount
    BY <2>1, <2>2, TheOthers DEF Level
  <2>3. CASE Swept[b] # NoAccount
    <3>1. accounts'[b] = accounts[b]
      BY <2>1, <2>3, TheOthers
    <3> QED
      BY <2>1, <2>3, <3>1 DEF Level
  <2> QED
    BY <2>2, <2>3
<1> QED
  BY <1>1, <1>4, <1>5, <1>6, <1>7, <1>8

-----------------------------------------------------------------------------
(* The places.                                                             *)

\* The places of an actor are finitely many.
LEMMA Finite ==
  ASSUME NEW a \in Actor
  PROVE  /\ IsFiniteSet(Serving(a)) /\ Cardinality(Serving(a)) \in Nat
         /\ IsFiniteSet(Open(a)) /\ Cardinality(Open(a)) \in Nat
<1>1. Serving(a) \subseteq Request /\ Open(a) \subseteq Request
  BY DEF Serving, Open
<1> QED
  BY <1>1, FS_Subset, FS_CardinalityType, AdmissionAssumption

\* A step of one request moves at most that request among the places.
LEMMA Moved ==
  ASSUME NEW r \in Request, \A s \in Request : s # r => request'[s] = request[s], NEW a \in Actor
  PROVE  /\ Serving(a)' = IF request'[r].actor = a /\ request'[r].place.kind = "counted"
                            THEN Serving(a) \union {r} ELSE Serving(a) \ {r}
         /\ Open(a)' = IF request'[r].actor = a /\ request'[r].stream.kind = "counted"
                         THEN Open(a) \union {r} ELSE Open(a) \ {r}
BY DEF Serving, Open

\* A place given back is one of those its account counts.
LEMMA GivenBack ==
  ASSUME AInv, NEW r \in Request, request[r].phase # "none"
  PROVE  LET a == request[r].actor IN
         /\ a \in Actor
         /\ Returns(request[r].place, a) <=> request[r].place.kind = "counted"
         /\ Returns(request[r].stream, a) <=> request[r].stream.kind = "counted"
         /\ r \in Serving(a) <=> request[r].place.kind = "counted"
         /\ r \in Open(a) <=> request[r].stream.kind = "counted"
         /\ request[r].place.kind = "counted" =>
              accounts[a].in_flight = Cardinality(Serving(a)) /\ Cardinality(Serving(a)) > 0
         /\ request[r].stream.kind = "counted" =>
              accounts[a].streams = Cardinality(Open(a)) /\ Cardinality(Open(a)) > 0
<1> DEFINE a == request[r].actor
<1>1. a \in Actor
  BY DEF AInv, Shape
<1>2. /\ r \in Serving(a) <=> request[r].place.kind = "counted"
      /\ r \in Open(a) <=> request[r].stream.kind = "counted"
  BY DEF Serving, Open
<1>3. /\ r \in Serving(a) => Cardinality(Serving(a)) > 0
      /\ r \in Open(a) => Cardinality(Open(a)) > 0
  <2>1. /\ r \in Serving(a) => Cardinality(Serving(a)) # 0
        /\ r \in Open(a) => Cardinality(Open(a)) # 0
    BY <1>1, Finite, FS_EmptySet
  <2> QED
    BY <1>1, <2>1, Finite
<1>4. /\ request[r].place.kind = "counted" =>
           accounts[a] # NoAccount /\ accounts[a].born = request[r].place.born
      /\ request[r].stream.kind = "counted" =>
           accounts[a] # NoAccount /\ accounts[a].born = request[r].stream.born
  BY DEF AInv, HeldHere
<1>5. accounts[a] # NoAccount =>
        accounts[a].in_flight = Cardinality(Serving(a)) /\ accounts[a].streams = Cardinality(Open(a))
  BY <1>1 DEF AInv, PlacesMatch
<1> QED
  BY <1>1, <1>2, <1>3, <1>4, <1>5 DEF Returns

-----------------------------------------------------------------------------
(* Every step preserves the invariant.                                     *)

Record == [phase : {"none", "serving", "answering", "refused"},
           actor : Actor \union {NoActor}, place : Place, stream : Place,
           told : Nat, after : Nat]

\* What a step leaves a request as.
Becomes(r, next) ==
  /\ next \in Record
  /\ request' \in [Request -> Record]
  /\ request'[r] = next
  /\ \A s \in Request : s # r => request'[s] = request[s]

\* Nobody has an account, and no request is there.
LEMMA InitAInv == ASSUME Init PROVE AInv
<1>1. /\ now = 0 /\ sweptAt = 0 /\ enforced \in BOOLEAN
      /\ \A a \in Actor : accounts[a] = NoAccount /\ admitted[a] = 0
      /\ \A r \in Request : request[r] = NoRequest
  BY AdmissionAssumption DEF Init
<1>2. TypeOK
  BY <1>1 DEF Init, TypeOK, NoRequest, NoPlace, Place
<1>3. Shape /\ HeldHere /\ ReadBefore /\ WaitsFor
  BY <1>1 DEF Shape, HeldHere, ReadBefore, WaitsFor, NoRequest, NoPlace
<1>4. PlacesMatch
  BY <1>1 DEF PlacesMatch, Serving, Open, NoRequest, NoPlace
<1>5. RateHolds
  BY <1>1, FullFits DEF RateHolds, Level
<1> QED
  BY <1>2, <1>3, <1>4, <1>5 DEF AInv

\* What a step that leaves an account behind must say of it and of its request for
\* the invariant: the account counts the places of its actor, and the request holds
\* no place but from that account.
LEMMA LeavesAInv ==
  ASSUME AInv, NEW r \in Request, NEW a \in Actor, NEW account \in Account, NEW next,
         UNCHANGED <<enforced, now>>,
         Leaves(a, account), account.at = now, Becomes(r, next),
         next.actor = a, next.phase \in {"serving", "refused"},
         next.phase = "serving" => next.told = 0,
         request[r].phase # "none" => request[r].actor = a,
         admitted' \in [Actor -> Nat], \A b \in Actor : b # a => admitted'[b] = admitted[b],
         admitted'[a] \in {admitted[a], admitted[a] + 1},
         account.in_flight = Cardinality(Serving(a)'),
         account.streams = Cardinality(Open(a)'),
         \A s \in Request : request'[s].actor = a =>
           /\ request'[s].place.kind = "counted" => request'[s].place.born = account.born
           /\ request'[s].stream.kind = "counted" => request'[s].stream.born = account.born,
         \/ admitted'[a] = admitted[a] /\ account.tokens = Level(a)
         \/ admitted'[a] = admitted[a] + 1 /\ account.tokens = Level(a) - Cost,
         next.phase = "refused" /\ next.told > 0 =>
           next.after <= admitted'[a] /\ account.tokens + (next.told - now) >= Cost
  PROVE  AInv'
<1>1. /\ accounts' \in [Actor -> Account \union {NoAccount}] /\ sweptAt' \in 0..now'
      /\ accounts'[a] = account /\ account # NoAccount
      /\ ReadBefore'
      /\ Level(a)' = account.tokens
      /\ \A b \in Actor : b # a =>
           /\ Level(b)' = Level(b)
           /\ accounts'[b] # NoAccount => accounts'[b] = accounts[b]
           /\ accounts'[b] = NoAccount => Serving(b) = {} /\ Open(b) = {}
  BY Left
<1>2. /\ request'[r] = next /\ request' \in [Request -> Record]
      /\ \A s \in Request : s # r => request'[s] = request[s]
  BY DEF Becomes
<1>3. TypeOK'
  BY <1>1, <1>2 DEF AInv, TypeOK, Record
<1>4. Shape'
  BY <1>2 DEF AInv, Shape
<1>5. \A b \in Actor : b # a => Serving(b)' = Serving(b) /\ Open(b)' = Open(b)
  BY <1>2 DEF Serving, Open, AInv, Shape, NoRequest, NoPlace
<1>6. HeldHere'
  <2> SUFFICES ASSUME NEW s \in Request,
                      request'[s].place.kind = "counted" \/ request'[s].stream.kind = "counted"
               PROVE  /\ accounts'[request'[s].actor] # NoAccount
                      /\ request'[s].place.kind = "counted" =>
                           accounts'[request'[s].actor].born = request'[s].place.born
                      /\ request'[s].stream.kind = "counted" =>
                           accounts'[request'[s].actor].born = request'[s].stream.born
    BY DEF HeldHere
  <2>1. CASE request'[s].actor = a
    BY <1>1, <2>1
  <2>2. CASE request'[s].actor # a
    <3>1. s # r /\ request'[s] = request[s]
      BY <1>2, <2>2
    <3>2. request[s].actor \in Actor
      BY <3>1 DEF AInv, Shape, NoRequest, NoPlace
    <3>3. s \in Serving(request[s].actor) \union Open(request[s].actor)
      BY <3>1 DEF Serving, Open
    <3>4. accounts'[request[s].actor] = accounts[request[s].actor]
      BY <1>1, <2>2, <3>1, <3>2, <3>3
    <3> QED
      BY <3>1, <3>4 DEF AInv, HeldHere
  <2> QED
    BY <2>1, <2>2
<1>7. PlacesMatch'
  <2> SUFFICES ASSUME NEW b \in Actor
               PROVE  IF accounts'[b] = NoAccount
                        THEN Serving(b)' = {} /\ Open(b)' = {}
                        ELSE /\ accounts'[b].in_flight = Cardinality(Serving(b)')
                             /\ accounts'[b].streams = Cardinality(Open(b)')
    BY DEF PlacesMatch
  <2>1. CASE b = a
    BY <1>1, <2>1
  <2>2. CASE b # a
    BY <1>1, <1>5, <2>2 DEF AInv, PlacesMatch
  <2> QED
    BY <2>1, <2>2
<1>8. RateHolds'
  <2> SUFFICES ASSUME NEW b \in Actor PROVE admitted'[b] * Cost + Level(b)' <= Full + now'
    BY DEF RateHolds
  <2>1. admitted[b] * Cost + Level(b) <= Full + now
    BY DEF AInv, RateHolds
  <2>2. CASE b # a
    BY <1>1, <2>1, <2>2
  <2>3. CASE b = a /\ admitted'[a] = admitted[a]
    BY <1>1, <2>1, <2>3, LevelType, FullFits DEF AInv, TypeOK
  <2>4. CASE b = a /\ admitted'[a] = admitted[a] + 1
    <3>1. /\ admitted[a] \in Nat /\ Cost \in Nat /\ Level(a) \in Nat /\ now \in Nat /\ Full \in Nat
      BY LevelType, FullFits DEF AInv, TypeOK
    <3>2. (admitted[a] + 1) * Cost = admitted[a] * Cost + Cost /\ admitted[a] * Cost \in Nat
      BY <3>1
    <3>3. account.tokens = Level(a) - Cost
      BY <2>4, <3>1
    <3> QED
      BY <1>1, <2>1, <2>4, <3>1, <3>2, <3>3
  <2> QED
    BY <2>2, <2>3, <2>4
<1>9. WaitsFor'
  <2> SUFFICES ASSUME NEW s \in Request, request'[s].phase = "refused", request'[s].told > 0,
                      NEW b \in Actor, b = request'[s].actor
               PROVE  /\ request'[s].after <= admitted'[b]
                      /\ request'[s].after = admitted'[b] =>
                           Level(b)' >= Cost \/ Level(b)' + (request'[s].told - now') >= Cost
    BY DEF WaitsFor
  <2>1. CASE s = r
    BY <1>1, <1>2, <2>1
  <2>2. CASE s # r
    <3>1. request'[s] = request[s]
      BY <1>2, <2>2
    <3>2. /\ request[s].after <= admitted[b]
          /\ request[s].after = admitted[b] =>
               Level(b) >= Cost \/ Level(b) + (request[s].told - now) >= Cost
      BY <3>1 DEF AInv, WaitsFor
    <3>3. CASE b # a
      BY <1>1, <3>1, <3>2, <3>3
    <3>4. CASE b = a /\ admitted'[a] = admitted[a]
      <4>1. account.tokens = Level(a)
        BY <3>4 DEF AInv, TypeOK
      <4> QED
        BY <1>1, <3>1, <3>2, <3>4, <4>1
    <3>5. CASE b = a /\ admitted'[a] = admitted[a] + 1
      <4>1. admitted[a] \in Nat /\ request[s].after \in Nat
        BY DEF AInv, TypeOK
      <4>2. request[s].after < admitted'[a]
        BY <3>2, <3>5, <4>1
      <4> QED
        BY <3>1, <3>5, <4>1, <4>2
    <3> QED
      BY <3>3, <3>4, <3>5
  <2> QED
    BY <2>1, <2>2
<1> QED
  BY <1>1, <1>3, <1>4, <1>6, <1>7, <1>8, <1>9 DEF AInv

\* A request changes in some fields.
LEMMA Becoming ==
  ASSUME TypeOK, NEW r \in Request, NEW next \in Record, request' = [request EXCEPT ![r] = next]
  PROVE  Becomes(r, next)
<1>1. request \in [Request -> Record]
  BY DEF TypeOK, Record
<1> QED
  BY <1>1 DEF Becomes

\* The places of the other requests of an actor were taken from the account it has.
LEMMA FromTheAccount ==
  ASSUME AInv, NEW a \in Actor, NEW s \in Request, request[s].actor = a
  PROVE  /\ request[s].place.kind = "counted" => request[s].place.born = AccountOf(a).born
         /\ request[s].stream.kind = "counted" => request[s].stream.born = AccountOf(a).born
<1>1. /\ request[s].place.kind = "counted" => s \in Serving(a)
      /\ request[s].stream.kind = "counted" => s \in Open(a)
  BY DEF Serving, Open
<1> QED
  BY <1>1, TheAccount DEF AInv, HeldHere

\* A request that is not there is nowhere among the places.
LEMMA NotThere ==
  ASSUME NEW r \in Request, request[r] = NoRequest
  PROVE  /\ request[r].phase = "none" /\ request[r].place = NoPlace /\ request[r].stream = NoPlace
         /\ request[r].told = 0 /\ request[r].after = 0
         /\ \A a \in Actor : r \notin Serving(a) /\ r \notin Open(a)
BY DEF NoRequest, NoPlace, Serving, Open

\* An actor's request is admitted, refused, or served outside the count.
LEMMA AdmitAInv == ASSUME AInv, NEW r \in Request, NEW a \in Actor, Admit(r, a) PROVE AInv'
<1> DEFINE account == AccountOf(a)
<1>1. /\ account \in Account /\ account.tokens = Level(a) /\ account.at = now
      /\ account.in_flight = Cardinality(Serving(a)) /\ account.streams = Cardinality(Open(a))
  BY TheAccount
<1>2. /\ account.tokens \in 0..Full /\ account.in_flight \in Nat /\ account.born \in Nat
      /\ account.streams \in Nat /\ now \in Nat /\ admitted[a] \in Nat /\ enforced \in BOOLEAN
  BY <1>1 DEF Account, AInv, TypeOK
<1>3. request[r] = NoRequest /\ UNCHANGED <<enforced, now>>
  BY DEF Admit
<1>4. request[r] \in Record
  BY DEF AInv, TypeOK, Record
<1>5. \A s \in Request : request[s].actor = a =>
        /\ request[s].place.kind = "counted" => request[s].place.born = account.born
        /\ request[s].stream.kind = "counted" => request[s].stream.born = account.born
  BY FromTheAccount
<1>6. /\ request[r].phase = "none" /\ request[r].stream = NoPlace /\ request[r].told = 0
      /\ request[r].place = NoPlace
      /\ r \notin Serving(a) /\ r \notin Open(a)
  BY <1>3, NotThere
<1>7. CASE /\ account.in_flight < InFlight /\ account.tokens >= Cost
           /\ Leaves(a, [account EXCEPT !.tokens = @ - Cost, !.in_flight = @ + 1])
           /\ admitted' = [admitted EXCEPT ![a] = @ + 1]
           /\ request' = [request EXCEPT ![r].phase = "serving", ![r].actor = a,
                                         ![r].place = Counted(account.born)]
  <2> DEFINE left == [account EXCEPT !.tokens = @ - Cost, !.in_flight = @ + 1]
             next == [request[r] EXCEPT !.phase = "serving", !.actor = a,
                                        !.place = Counted(account.born)]
  <2>1. /\ left \in Account /\ left.at = now /\ left.tokens = Level(a) - Cost
        /\ left.in_flight = Cardinality(Serving(a)) + 1 /\ left.streams = Cardinality(Open(a))
        /\ left.born = account.born /\ Leaves(a, left)
    <3>1. account.tokens - Cost \in 0..Full /\ account.in_flight + 1 \in Nat
      BY <1>2, <1>7, FullFits
    <3>2. Leaves(a, left)
      BY <1>7
    <3> HIDE DEF account
    <3> QED
      BY <1>1, <3>1, <3>2 DEF Account
  <2>2. /\ next \in Record /\ next.actor = a /\ next.phase = "serving"
        /\ next.place.kind = "counted" /\ next.place.born = account.born /\ next.stream = NoPlace
        /\ next.told = 0
    BY <1>2, <1>4, <1>6 DEF Record, Counted, Place
  <2>3. request' = [request EXCEPT ![r] = next]
    BY <1>7 DEF AInv, TypeOK
  <2>4. /\ admitted' \in [Actor -> Nat] /\ \A b \in Actor : b # a => admitted'[b] = admitted[b]
        /\ admitted'[a] = admitted[a] + 1
    BY <1>7 DEF AInv, TypeOK
  <2> HIDE DEF left, next
  <2>5. Becomes(r, next)
    BY <2>2, <2>3, Becoming DEF AInv
  <2>6. Serving(a)' = Serving(a) \union {r} /\ Open(a)' = Open(a)
    BY <1>6, <2>2, <2>5, Moved DEF Becomes, NoPlace
  <2>7. /\ left.in_flight = Cardinality(Serving(a)')
        /\ left.streams = Cardinality(Open(a)')
    BY <1>6, <2>1, <2>6, Finite, FS_AddElement
  <2>8. \A s \in Request : request'[s].actor = a =>
          /\ request'[s].place.kind = "counted" => request'[s].place.born = left.born
          /\ request'[s].stream.kind = "counted" => request'[s].stream.born = left.born
    BY <1>5, <2>1, <2>2, <2>5 DEF Becomes, NoPlace
  <2> QED
    BY <1>3, <1>6, <2>1, <2>2, <2>4, <2>5, <2>7, <2>8, LeavesAInv
<1>8. ASSUME NEW next, Becomes(r, next),
             Leaves(a, account), UNCHANGED admitted,
             next.actor = a, next.phase \in {"serving", "refused"},
             next.place.kind # "counted", next.stream = NoPlace,
             next.phase = "serving" => next.told = 0,
             next.phase = "refused" =>
               next.after = admitted[a] /\ account.tokens + (next.told - now) >= Cost
      PROVE  AInv'
  <2>1. Becomes(r, next)
    BY <1>8
  <2>2. Serving(a)' = Serving(a) /\ Open(a)' = Open(a)
    <3>1. request'[r] = next /\ next.stream.kind # "counted"
      BY <1>8 DEF Becomes, NoPlace
    <3>2. Serving(a)' = Serving(a) \ {r} /\ Open(a)' = Open(a) \ {r}
      BY <1>8, <3>1, Moved DEF Becomes
    <3> QED
      BY <1>6, <3>2
  <2>3. \A s \in Request : request'[s].actor = a =>
          /\ request'[s].place.kind = "counted" => request'[s].place.born = account.born
          /\ request'[s].stream.kind = "counted" => request'[s].stream.born = account.born
    BY <1>5, <1>8, <2>1 DEF Becomes, NoPlace
  <2>4. admitted' \in [Actor -> Nat]
    BY <1>8 DEF AInv, TypeOK
  <2> HIDE DEF account
  <2> QED
    BY <1>1, <1>2, <1>3, <1>6, <1>8, <2>1, <2>2, <2>3, <2>4, LeavesAInv
<1>9. CASE enforced /\ Leaves(a, account) /\ UNCHANGED admitted /\ Refused(r, a, account)
  <2> DEFINE next == [request[r] EXCEPT !.phase = "refused", !.actor = a,
                                        !.told = now + Wait(account), !.after = admitted[a]]
  <2>1. /\ Wait(account) \in Nat /\ account.tokens + Wait(account) >= Cost
        /\ now + Wait(account) \in Nat
    BY <1>2, WaitFits
  <2>2. /\ next \in Record /\ next.actor = a /\ next.phase = "refused" /\ next.after = admitted[a]
        /\ next.told = now + Wait(account)
        /\ next.place = NoPlace /\ next.stream = NoPlace
    <3> HIDE DEF account
    <3> QED
      BY <1>2, <1>4, <1>6, <2>1 DEF Record
  <2>3. request' = [request EXCEPT ![r] = next]
    BY <1>9 DEF Refused, AInv, TypeOK
  <2>4. account.tokens + (next.told - now) >= Cost
    BY <1>2, <2>1, <2>2, FullFits
  <2> HIDE DEF next, account
  <2>5. Becomes(r, next)
    BY <2>2, <2>3, Becoming DEF AInv
  <2> QED
    BY <1>8, <1>9, <2>2, <2>4, <2>5 DEF NoPlace
<1>10. CASE /\ ~enforced /\ Leaves(a, account) /\ UNCHANGED admitted
            /\ request' = [request EXCEPT ![r].phase = "serving", ![r].actor = a,
                                          ![r].place = Outside]
  <2> DEFINE next == [request[r] EXCEPT !.phase = "serving", !.actor = a, !.place = Outside]
  <2>1. /\ next \in Record /\ next.actor = a /\ next.phase = "serving"
        /\ next.place = Outside /\ next.stream = NoPlace /\ next.told = 0
    BY <1>4, <1>6 DEF Record, Outside, Place
  <2>2. request' = [request EXCEPT ![r] = next]
    BY <1>10 DEF AInv, TypeOK
  <2> HIDE DEF next, account
  <2>3. Becomes(r, next)
    BY <2>1, <2>2, Becoming DEF AInv
  <2> QED
    BY <1>8, <1>10, <2>1, <2>3 DEF Outside
<1> QED
  BY <1>2, <1>7, <1>9, <1>10 DEF Admit

\* What a step that only gives places back must say: nobody has less saved up, and
\* no place is held that was not.
LEMMA ReturnsAInv ==
  ASSUME AInv, NEW r \in Request, NEW a \in Actor, NEW next,
         request[r].actor = a, request[r].phase # "none",
         UNCHANGED <<enforced, now, sweptAt, admitted>>, Becomes(r, next),
         accounts' \in [Actor -> Account \union {NoAccount}],
         \A b \in Actor : b # a => accounts'[b] = accounts[b],
         accounts[a] = NoAccount => accounts'[a] = NoAccount,
         accounts[a] # NoAccount =>
           /\ accounts'[a] # NoAccount
           /\ accounts'[a].tokens = accounts[a].tokens /\ accounts'[a].at = accounts[a].at
           /\ accounts'[a].born = accounts[a].born
           /\ accounts'[a].in_flight = Cardinality(Serving(a)')
           /\ accounts'[a].streams = Cardinality(Open(a)'),
         next = NoRequest \/ (next.actor = a /\ next.phase \in {"serving", "answering"}),
         next.told = 0,
         next.place.kind = "counted" => next.place = request[r].place,
         next.stream.kind = "counted" => next.stream = request[r].stream
  PROVE  AInv'
<1>1. /\ request'[r] = next /\ request' \in [Request -> Record]
      /\ \A s \in Request : s # r => request'[s] = request[s]
  BY DEF Becomes
<1>2. TypeOK'
  BY <1>1 DEF AInv, TypeOK, Record
<1>3. Shape'
  BY <1>1 DEF AInv, Shape, NoRequest
<1>4. \A b \in Actor : accounts'[b] # NoAccount <=> accounts[b] # NoAccount
  OBVIOUS
<1>5. \A b \in Actor : Level(b)' = Level(b)
  BY <1>4 DEF Level
<1>6. ReadBefore'
  BY <1>4 DEF AInv, ReadBefore
<1>7. HeldHere'
  <2>1. ASSUME NEW s \in Request, NEW place, place.kind = "counted",
               \/ place = request'[s].place /\ place = request[s].place
               \/ place = request'[s].stream /\ place = request[s].stream
        PROVE  /\ request'[s].actor = request[s].actor
               /\ accounts'[request[s].actor] # NoAccount
               /\ accounts'[request[s].actor].born = place.born
    <3>1. request[s].actor \in Actor
      BY <2>1 DEF AInv, Shape, NoRequest, NoPlace
    <3>2. accounts[request[s].actor] # NoAccount /\ accounts[request[s].actor].born = place.born
      BY <2>1 DEF AInv, HeldHere
    <3>3. request'[s].actor = request[s].actor
      BY <1>1, <2>1 DEF NoRequest, NoPlace
    <3>4. CASE request[s].actor = a
      BY <3>2, <3>3, <3>4
    <3>5. CASE request[s].actor # a
      BY <3>1, <3>2, <3>3, <3>5
    <3> QED
      BY <3>4, <3>5
  <2> SUFFICES ASSUME NEW s \in Request
               PROVE  /\ request'[s].place.kind = "counted" => request'[s].place = request[s].place
                      /\ request'[s].stream.kind = "counted" => request'[s].stream = request[s].stream
    BY <2>1 DEF HeldHere
  <2> QED
    BY <1>1
<1>8. PlacesMatch'
  <2> SUFFICES ASSUME NEW b \in Actor
               PROVE  IF accounts'[b] = NoAccount
                        THEN Serving(b)' = {} /\ Open(b)' = {}
                        ELSE /\ accounts'[b].in_flight = Cardinality(Serving(b)')
                             /\ accounts'[b].streams = Cardinality(Open(b)')
    BY DEF PlacesMatch
  <2>1. CASE b = a /\ accounts[a] # NoAccount
    BY <2>1
  <2>2. CASE b = a /\ accounts[a] = NoAccount
    <3>1. Serving(a) = {} /\ Open(a) = {}
      BY <2>2 DEF AInv, PlacesMatch
    <3>2. request[r].place.kind # "counted" /\ request[r].stream.kind # "counted"
      BY <3>1 DEF Serving, Open
    <3>3. Serving(a)' = {} /\ Open(a)' = {}
      BY <1>1, <3>1, <3>2, Moved DEF NoRequest, NoPlace
    <3> QED
      BY <2>2, <3>3
  <2>3. CASE b # a
    <3>1. Serving(b)' = Serving(b) /\ Open(b)' = Open(b)
      BY <1>1, <2>3 DEF Serving, Open, NoRequest, NoPlace
    <3> QED
      BY <2>3, <3>1 DEF AInv, PlacesMatch
  <2> QED
    BY <2>1, <2>2, <2>3
<1>9. RateHolds'
  BY <1>5 DEF AInv, RateHolds
<1>10. WaitsFor'
  <2> SUFFICES ASSUME NEW s \in Request, request'[s].phase = "refused", request'[s].told > 0,
                      NEW b \in Actor, b = request'[s].actor
               PROVE  /\ request'[s].after <= admitted'[b]
                      /\ request'[s].after = admitted'[b] =>
                           Level(b)' >= Cost \/ Level(b)' + (request'[s].told - now') >= Cost
    BY DEF WaitsFor
  <2>1. s # r /\ request'[s] = request[s]
    BY <1>1
  <2> QED
    BY <1>5, <2>1 DEF AInv, WaitsFor
<1> QED
  BY <1>2, <1>3, <1>6, <1>7, <1>8, <1>9, <1>10 DEF AInv

\* A stream is opened, refused, or opened outside the count.
LEMMA StreamAInv == ASSUME AInv, NEW r \in Request, Stream(r) PROVE AInv'
<1> PICK a \in Actor : a = request[r].actor
  BY DEF Stream, AInv, Shape
<1> DEFINE account == AccountOf(a)
<1>1. /\ request[r].phase = "serving" /\ request[r].stream = NoPlace /\ request[r].told = 0
      /\ request[r].actor = a /\ UNCHANGED <<enforced, now, admitted>>
  BY DEF Stream, AInv, Shape
<1>2. /\ account \in Account /\ account.tokens = Level(a) /\ account.at = now
      /\ account.in_flight = Cardinality(Serving(a)) /\ account.streams = Cardinality(Open(a))
  BY <1>1, TheAccount
<1>3. /\ account.born \in Nat /\ account.streams \in Nat /\ account.tokens \in 0..Full
      /\ admitted \in [Actor -> Nat] /\ request[r] \in Record /\ now \in Nat
  BY <1>2 DEF Account, AInv, TypeOK, Record
<1>4. \A s \in Request : request[s].actor = a =>
        /\ request[s].place.kind = "counted" => request[s].place.born = account.born
        /\ request[s].stream.kind = "counted" => request[s].stream.born = account.born
  BY <1>1, FromTheAccount
<1>5. r \notin Open(a) /\ NoPlace.kind # "counted" /\ Outside.kind # "counted"
  BY <1>1 DEF Open, NoPlace, Outside
<1>6. ASSUME NEW place \in Place, request' = [request EXCEPT ![r].stream = place]
      PROVE  LET next == [request[r] EXCEPT !.stream = place] IN
             /\ Becomes(r, next) /\ next.stream = place /\ next.place = request[r].place
             /\ next.actor = a /\ next.phase = "serving" /\ next.told = 0
  <2> DEFINE next == [request[r] EXCEPT !.stream = place]
  <2>1. request' = [request EXCEPT ![r] = next]
    BY <1>6 DEF AInv, TypeOK
  <2>2. next \in Record
    BY <1>3, <1>6 DEF Record
  <2>3. Becomes(r, next)
    <3> HIDE DEF next
    <3> QED
      BY <2>1, <2>2, Becoming DEF AInv
  <2> QED
    BY <1>1, <1>3, <2>3 DEF Record
<1>7. ASSUME NEW next, Becomes(r, next), next.place = request[r].place,
             next.stream.kind # "counted", next.actor = a
      PROVE  Serving(a)' = Serving(a) /\ Open(a)' = Open(a)
  <2>1. request'[r] = next /\ (r \in Serving(a) <=> request[r].place.kind = "counted")
    BY <1>7 DEF Becomes, Serving
  <2>2. /\ Serving(a)' = IF request'[r].actor = a /\ request'[r].place.kind = "counted"
                           THEN Serving(a) \union {r} ELSE Serving(a) \ {r}
        /\ Open(a)' = IF request'[r].actor = a /\ request'[r].stream.kind = "counted"
                        THEN Open(a) \union {r} ELSE Open(a) \ {r}
    <3>1. \A s \in Request : s # r => request'[s] = request[s]
      BY <1>7 DEF Becomes
    <3> QED
      BY <3>1, Moved
  <2>3. Open(a)' = Open(a)
    BY <1>5, <1>7, <2>1, <2>2
  <2>4. Serving(a)' = Serving(a)
    BY <1>7, <2>1, <2>2
  <2> QED
    BY <2>3, <2>4
<1>8. CASE /\ request' = [request EXCEPT ![r].stream = Outside]
           /\ UNCHANGED <<accounts, sweptAt>>
  <2>1. PICK next : /\ Becomes(r, next) /\ next.stream = Outside /\ next.place = request[r].place
                    /\ next.actor = a /\ next.phase = "serving" /\ next.told = 0
    BY <1>6, <1>8 DEF Outside, Place
  <2>2. Serving(a)' = Serving(a) /\ Open(a)' = Open(a)
    BY <1>5, <1>7, <2>1
  <2>3. accounts \in [Actor -> Account \union {NoAccount}]
    BY DEF AInv, TypeOK
  <2>4. accounts[a] # NoAccount => /\ accounts[a].in_flight = Cardinality(Serving(a)')
                                   /\ accounts[a].streams = Cardinality(Open(a)')
    BY <1>1, <2>2 DEF AInv, PlacesMatch
  <2> HIDE DEF account
  <2> QED
    BY <1>1, <1>5, <1>8, <2>1, <2>3, <2>4, ReturnsAInv
<1>9. CASE /\ Leaves(a, [account EXCEPT !.streams = @ + 1])
           /\ request' = [request EXCEPT ![r].stream = Counted(account.born)]
  <2> DEFINE left == [account EXCEPT !.streams = @ + 1]
  <2>1. /\ left \in Account /\ left.at = now /\ left.tokens = Level(a)
        /\ left.in_flight = Cardinality(Serving(a)) /\ left.streams = Cardinality(Open(a)) + 1
        /\ left.born = account.born /\ Leaves(a, left)
    <3>1. account.streams + 1 \in Nat /\ Leaves(a, left)
      BY <1>3, <1>9
    <3> HIDE DEF account
    <3> QED
      BY <1>2, <3>1 DEF Account
  <2>2. Counted(account.born) \in Place /\ Counted(account.born).kind = "counted"
        /\ Counted(account.born).born = account.born
    BY <1>3 DEF Counted, Place
  <2>3. PICK next : /\ Becomes(r, next) /\ next.stream = Counted(account.born)
                    /\ next.place = request[r].place
                    /\ next.actor = a /\ next.phase = "serving" /\ next.told = 0
    BY <1>6, <1>9, <2>2
  <2> HIDE DEF left, account
  <2>4. request'[r] = next /\ \A s \in Request : s # r => request'[s] = request[s]
    BY <2>3 DEF Becomes
  <2>5. Serving(a)' = Serving(a) /\ Open(a)' = Open(a) \union {r}
    BY <1>1, <2>2, <2>3, <2>4, Moved DEF Serving
  <2>6. left.in_flight = Cardinality(Serving(a)') /\ left.streams = Cardinality(Open(a)')
    <3>1. IsFiniteSet(Open(a))
      BY Finite
    <3>2. Cardinality(Open(a) \union {r}) = Cardinality(Open(a)) + 1
      BY <1>5, <3>1, FS_AddElement
    <3> QED
      BY <2>1, <2>5, <3>2
  <2>7. \A s \in Request : request'[s].actor = a =>
          /\ request'[s].place.kind = "counted" => request'[s].place.born = left.born
          /\ request'[s].stream.kind = "counted" => request'[s].stream.born = left.born
    BY <1>4, <2>1, <2>2, <2>3, <2>4
  <2> QED
    BY <1>1, <1>3, <2>1, <2>3, <2>6, <2>7, LeavesAInv
<1>10. ASSUME NEW next, Becomes(r, next), next.stream.kind # "counted",
              next.place = request[r].place, next.actor = a,
              next.phase \in {"serving", "refused"}, Leaves(a, account),
              next.phase = "serving" => next.told = 0,
              next.phase = "refused" =>
                next.after = admitted[a] /\ account.tokens + (next.told - now) >= Cost
       PROVE  AInv'
  <2>1. Serving(a)' = Serving(a) /\ Open(a)' = Open(a)
    BY <1>7, <1>10
  <2>2. request'[r] = next /\ \A s \in Request : s # r => request'[s] = request[s]
    BY <1>10 DEF Becomes
  <2>3. \A s \in Request : request'[s].actor = a =>
          /\ request'[s].place.kind = "counted" => request'[s].place.born = account.born
          /\ request'[s].stream.kind = "counted" => request'[s].stream.born = account.born
    BY <1>4, <1>10, <2>2
  <2> HIDE DEF account
  <2> QED
    BY <1>1, <1>2, <1>3, <1>10, <2>1, <2>3, LeavesAInv
<1>11. CASE Leaves(a, account) /\ request' = [request EXCEPT ![r].stream = Outside]
  <2>1. PICK next : /\ Becomes(r, next) /\ next.stream = Outside /\ next.place = request[r].place
                    /\ next.actor = a /\ next.phase = "serving" /\ next.told = 0
    BY <1>6, <1>11 DEF Outside, Place
  <2> QED
    BY <1>5, <1>10, <1>11, <2>1
<1>12. CASE Leaves(a, account) /\ Refused(r, a, account)
  <2> DEFINE next == [request[r] EXCEPT !.phase = "refused", !.actor = a,
                                        !.told = now + Wait(account), !.after = admitted[a]]
  <2>1. /\ Wait(account) \in Nat /\ account.tokens + Wait(account) >= Cost
        /\ now + Wait(account) \in Nat /\ admitted[a] \in Nat
    <3> HIDE DEF account
    <3> QED
      BY <1>3, WaitFits
  <2>2. request' = [request EXCEPT ![r] = next]
    BY <1>12 DEF Refused, AInv, TypeOK
  <2>3. /\ next \in Record /\ next.phase = "refused" /\ next.actor = a
        /\ next.told = now + Wait(account) /\ next.after = admitted[a]
        /\ next.place = request[r].place /\ next.stream = NoPlace
    <3> HIDE DEF account
    <3> QED
      BY <1>1, <1>3, <2>1 DEF Record
  <2>4. account.tokens + (next.told - now) >= Cost
    <3> HIDE DEF next, account
    <3> QED
      BY <1>3, <2>1, <2>3, FullFits
  <2> HIDE DEF next, account
  <2>5. Becomes(r, next)
    BY <2>2, <2>3, Becoming DEF AInv
  <2> QED
    BY <1>5, <1>10, <1>12, <2>3, <2>4, <2>5
<1> QED
  <2>1. \/ /\ request' = [request EXCEPT ![r].stream = Outside]
           /\ UNCHANGED <<accounts, sweptAt>>
        \/ /\ Leaves(a, [account EXCEPT !.streams = @ + 1])
           /\ request' = [request EXCEPT ![r].stream = Counted(account.born)]
        \/ Leaves(a, account) /\ Refused(r, a, account)
        \/ Leaves(a, account) /\ request' = [request EXCEPT ![r].stream = Outside]
    BY DEF Stream
  <2> QED
    BY <1>8, <1>9, <1>11, <1>12, <2>1

\* The account that places were given back to counts one less of each.
LEMMA AnswerAInv == ASSUME AInv, NEW r \in Request, Answer(r) PROVE AInv'
<1>1. request[r].phase \in {"serving", "refused"} /\ request[r].phase # "none"
  BY DEF Answer
<1> PICK a \in Actor : a = request[r].actor
  BY <1>1 DEF AInv, Shape
<1> DEFINE next == [request[r] EXCEPT !.phase = "answering", !.place = NoPlace, !.told = 0, !.after = 0]
<1>2. UNCHANGED <<enforced, now, sweptAt, admitted>>
  BY DEF Answer
<1>3. /\ next \in Record /\ next.actor = a /\ next.phase = "answering" /\ next.told = 0
      /\ next.place = NoPlace /\ next.stream = request[r].stream
  <2>1. request[r] \in Record /\ NoPlace \in Place
    BY DEF AInv, TypeOK, Record, NoPlace, Place
  <2> QED
    BY <2>1 DEF Record
<1>4. request' = [request EXCEPT ![r] = next]
  BY DEF Answer, AInv, TypeOK
<1> HIDE DEF next
<1>5. Becomes(r, next)
  BY <1>3, <1>4, Becoming DEF AInv
<1>6. request'[r] = next /\ \A s \in Request : s # r => request'[s] = request[s]
  BY <1>5 DEF Becomes
<1>7. /\ Serving(a)' = Serving(a) \ {r} /\ Open(a)' = Open(a)
      /\ Cardinality(Serving(a) \ {r}) =
           IF r \in Serving(a) THEN Cardinality(Serving(a)) - 1 ELSE Cardinality(Serving(a))
  <2>1. /\ Serving(a)' = IF request'[r].actor = a /\ request'[r].place.kind = "counted"
                           THEN Serving(a) \union {r} ELSE Serving(a) \ {r}
        /\ Open(a)' = IF request'[r].actor = a /\ request'[r].stream.kind = "counted"
                        THEN Open(a) \union {r} ELSE Open(a) \ {r}
    BY <1>6, Moved
  <2>2. r \in Open(a) <=> request[r].stream.kind = "counted"
    BY DEF Open
  <2>3. IsFiniteSet(Serving(a))
    BY Finite
  <2>4. Serving(a)' = Serving(a) \ {r}
    BY <1>3, <1>6, <2>1 DEF NoPlace
  <2>5. Open(a)' = Open(a)
    BY <1>3, <1>6, <2>1, <2>2
  <2> QED
    BY <2>3, <2>4, <2>5, FS_RemoveElement
<1>8. /\ Returns(request[r].place, a) <=> request[r].place.kind = "counted"
      /\ r \in Serving(a) <=> request[r].place.kind = "counted"
      /\ request[r].place.kind = "counted" =>
           accounts[a].in_flight = Cardinality(Serving(a)) /\ Cardinality(Serving(a)) > 0
  BY <1>1, GivenBack
<1>9. /\ accounts \in [Actor -> Account \union {NoAccount}]
      /\ accounts[a] # NoAccount => /\ accounts[a].in_flight = Cardinality(Serving(a))
                                    /\ accounts[a].streams = Cardinality(Open(a))
                                    /\ accounts[a] \in Account
  BY DEF AInv, TypeOK, PlacesMatch
<1>10. CASE ~Returns(request[r].place, a)
  <2>1. accounts' = accounts
    BY <1>10 DEF Answer
  <2>2. Serving(a)' = Serving(a)
    BY <1>7, <1>8, <1>10
  <2> QED
    BY <1>1, <1>2, <1>3, <1>5, <1>7, <1>9, <2>1, <2>2, ReturnsAInv DEF NoPlace
<1>11. CASE Returns(request[r].place, a)
  <2> DEFINE left == [accounts[a] EXCEPT !.in_flight = @ - 1]
  <2>1. accounts' = [accounts EXCEPT ![a] = left]
    BY <1>9, <1>11 DEF Answer
  <2>2. accounts[a] # NoAccount /\ accounts[a] \in Account
    BY <1>9, <1>11 DEF Returns
  <2>3. Cardinality(Serving(a)) - 1 \in Nat
    BY <1>8, <1>11, Finite
  <2>4. /\ left \in Account /\ left.tokens = accounts[a].tokens /\ left.at = accounts[a].at
        /\ left.born = accounts[a].born /\ left.streams = accounts[a].streams
        /\ left.in_flight = Cardinality(Serving(a)) - 1
    BY <1>9, <2>2, <2>3 DEF Account
  <2> HIDE DEF left
  <2>5. /\ accounts' \in [Actor -> Account \union {NoAccount}] /\ accounts'[a] = left
        /\ \A b \in Actor : b # a => accounts'[b] = accounts[b]
    BY <1>9, <2>1, <2>4
  <2>6. left # NoAccount
    BY <2>4, NoAccountAssumption
  <2>7. left.in_flight = Cardinality(Serving(a)') /\ left.streams = Cardinality(Open(a)')
    BY <1>7, <1>8, <1>9, <1>11, <2>2, <2>4
  <2> QED
    BY <1>1, <1>2, <1>3, <1>5, <2>2, <2>4, <2>5, <2>6, <2>7, ReturnsAInv DEF NoPlace
<1> QED
  BY <1>10, <1>11

LEMMA EndAInv == ASSUME AInv, NEW r \in Request, End(r) PROVE AInv'
<1>1. request[r].phase # "none" /\ UNCHANGED <<enforced, now, sweptAt, admitted>>
  BY DEF End
<1> PICK a \in Actor : a = request[r].actor
  BY <1>1 DEF AInv, Shape
<1>2. NoRequest \in Record /\ NoRequest.told = 0 /\ NoRequest.place.kind # "counted"
      /\ NoRequest.stream.kind # "counted"
  BY DEF NoRequest, NoPlace, Record, Place
<1>3. Becomes(r, NoRequest)
  BY <1>2, Becoming DEF AInv, End
<1>4. request'[r] = NoRequest /\ \A s \in Request : s # r => request'[s] = request[s]
  BY <1>3 DEF Becomes
<1>5. /\ Serving(a)' = Serving(a) \ {r} /\ Open(a)' = Open(a) \ {r}
      /\ Cardinality(Serving(a) \ {r}) =
           IF r \in Serving(a) THEN Cardinality(Serving(a)) - 1 ELSE Cardinality(Serving(a))
      /\ Cardinality(Open(a) \ {r}) =
           IF r \in Open(a) THEN Cardinality(Open(a)) - 1 ELSE Cardinality(Open(a))
  <2>1. Serving(a)' = Serving(a) \ {r} /\ Open(a)' = Open(a) \ {r}
    BY <1>2, <1>4, Moved
  <2>2. IsFiniteSet(Serving(a)) /\ IsFiniteSet(Open(a))
    BY Finite
  <2> QED
    BY <2>1, <2>2, FS_RemoveElement
<1>6. /\ Returns(request[r].place, a) <=> r \in Serving(a)
      /\ Returns(request[r].stream, a) <=> r \in Open(a)
      /\ r \in Serving(a) => Cardinality(Serving(a)) > 0
      /\ r \in Open(a) => Cardinality(Open(a)) > 0
  BY <1>1, GivenBack
<1>7. /\ accounts \in [Actor -> Account \union {NoAccount}]
      /\ accounts[a] # NoAccount => /\ accounts[a].in_flight = Cardinality(Serving(a))
                                    /\ accounts[a].streams = Cardinality(Open(a))
                                    /\ accounts[a] \in Account
  BY DEF AInv, TypeOK, PlacesMatch
<1>8. CASE ~Returns(request[r].place, a) /\ ~Returns(request[r].stream, a)
  <2>1. accounts' = accounts
    BY <1>8 DEF End
  <2>2. Serving(a)' = Serving(a) /\ Open(a)' = Open(a)
    BY <1>5, <1>6, <1>8
  <2> QED
    BY <1>1, <1>2, <1>3, <1>7, <2>1, <2>2, ReturnsAInv
<1>9. CASE Returns(request[r].place, a) \/ Returns(request[r].stream, a)
  <2> DEFINE left == [accounts[a] EXCEPT
                       !.in_flight = @ - One(Returns(request[r].place, a)),
                       !.streams = @ - One(Returns(request[r].stream, a))]
             serving == Cardinality(Serving(a) \ {r})
             open == Cardinality(Open(a) \ {r})
  <2>1. accounts' = [accounts EXCEPT ![a] = left]
    BY <1>7, <1>9 DEF End
  <2>2. accounts[a] # NoAccount /\ accounts[a] \in Account
    BY <1>7, <1>9 DEF Returns
  <2>3. /\ serving \in Nat /\ open \in Nat
        /\ accounts[a].in_flight - One(Returns(request[r].place, a)) = serving
        /\ accounts[a].streams - One(Returns(request[r].stream, a)) = open
    BY <1>5, <1>6, <1>7, <2>2, Finite DEF One
  <2>4. /\ left \in Account /\ left.tokens = accounts[a].tokens /\ left.at = accounts[a].at
        /\ left.born = accounts[a].born /\ left.streams = open /\ left.in_flight = serving
    <3> HIDE DEF serving, open
    <3> QED
      BY <2>2, <2>3 DEF Account
  <2> HIDE DEF left
  <2>5. /\ accounts' \in [Actor -> Account \union {NoAccount}] /\ accounts'[a] = left
        /\ \A b \in Actor : b # a => accounts'[b] = accounts[b]
    BY <1>7, <2>1, <2>4
  <2>6. left # NoAccount
    BY <2>4, NoAccountAssumption
  <2>7. left.in_flight = Cardinality(Serving(a)') /\ left.streams = Cardinality(Open(a)')
    BY <1>5, <2>4
  <2> QED
    BY <1>1, <1>2, <1>3, <2>2, <2>4, <2>5, <2>6, <2>7, ReturnsAInv
<1> QED
  BY <1>8, <1>9

\* A unit comes back to everyone who is not full.
LEMMA TickLevel ==
  ASSUME TypeOK, ReadBefore, now' = now + 1, UNCHANGED accounts, NEW a \in Actor
  PROVE  Level(a)' = IF Level(a) < Full THEN Level(a) + 1 ELSE Full
<1>1. now \in Nat
  BY DEF TypeOK
<1>2. CASE accounts[a] = NoAccount
  BY <1>2, FullFits DEF Level
<1>3. CASE accounts[a] # NoAccount
  <2>1. accounts[a].tokens \in Nat /\ accounts[a].at \in Nat /\ accounts[a].at <= now
    BY <1>3, LevelType, FullFits
  <2> QED
    BY <1>1, <1>3, <2>1, FullFits DEF Level, Least
<1> QED
  BY <1>2, <1>3

LEMMA TickAInv == ASSUME AInv, Tick PROVE AInv'
<1>1. now' = now + 1 /\ UNCHANGED <<enforced, sweptAt, accounts, request, admitted>> /\ now \in Nat
  BY DEF Tick, AInv, TypeOK
<1>2. \A a \in Actor : /\ Level(a)' = IF Level(a) < Full THEN Level(a) + 1 ELSE Full
                       /\ Level(a) \in Nat /\ Level(a) <= Full
  BY <1>1, TickLevel, LevelType, FullFits DEF AInv
<1>3. TypeOK'
  BY <1>1 DEF AInv, TypeOK
<1>4. Shape' /\ HeldHere' /\ PlacesMatch'
  BY <1>1 DEF AInv, Shape, HeldHere, PlacesMatch, Serving, Open
<1>5. ReadBefore'
  BY <1>1, LevelType DEF AInv, ReadBefore
<1>6. RateHolds'
  <2> SUFFICES ASSUME NEW a \in Actor PROVE admitted'[a] * Cost + Level(a)' <= Full + now'
    BY DEF RateHolds
  <2>1. admitted[a] * Cost + Level(a) <= Full + now
    BY DEF AInv, RateHolds
  <2>2. admitted[a] \in Nat /\ admitted[a] * Cost \in Nat
    BY FullFits DEF AInv, TypeOK
  <2> QED
    BY <1>1, <1>2, <2>1, <2>2, FullFits
<1>7. WaitsFor'
  <2> SUFFICES ASSUME NEW s \in Request, request[s].phase = "refused", request[s].told > 0,
                      NEW b \in Actor, b = request[s].actor
               PROVE  /\ request[s].after <= admitted[b]
                      /\ request[s].after = admitted[b] =>
                           Level(b)' >= Cost \/ Level(b)' + (request[s].told - now') >= Cost
    BY <1>1 DEF WaitsFor
  <2>1. /\ request[s].after <= admitted[b]
        /\ request[s].after = admitted[b] =>
             Level(b) >= Cost \/ Level(b) + (request[s].told - now) >= Cost
    BY DEF AInv, WaitsFor
  <2>2. request[s].told \in Nat
    BY DEF AInv, TypeOK
  <2> QED
    BY <1>1, <1>2, <2>1, <2>2, FullFits
<1> QED
  BY <1>3, <1>4, <1>5, <1>6, <1>7 DEF AInv

-----------------------------------------------------------------------------
(* What follows.                                                           *)

\* A step that changes nothing changes no part of the invariant.
LEMMA StutterAInv == ASSUME AInv, UNCHANGED vars PROVE AInv'
<1>1. UNCHANGED <<enforced, now, sweptAt, accounts, request, admitted>>
  BY DEF vars
<1>2. \A a \in Actor : Level(a)' = Level(a) /\ Serving(a)' = Serving(a) /\ Open(a)' = Open(a)
  BY <1>1 DEF Level, Serving, Open
<1>3. TypeOK' /\ Shape' /\ HeldHere' /\ ReadBefore'
  BY <1>1 DEF AInv, TypeOK, Shape, HeldHere, ReadBefore
<1>4. PlacesMatch'
  BY <1>1, <1>2 DEF AInv, PlacesMatch
<1>5. RateHolds' /\ WaitsFor'
  BY <1>1, <1>2 DEF AInv, RateHolds, WaitsFor
<1> QED
  BY <1>3, <1>4, <1>5 DEF AInv

\* In every state of the process, its accounts, its places and its clock agree.
THEOREM AccountsInductive == Spec => []AInv
<1>1. Init => AInv
  BY InitAInv
<1>2. AInv /\ [Next]_vars => AInv'
  <2> SUFFICES ASSUME AInv, [Next]_vars PROVE AInv'
    OBVIOUS
  <2>1. CASE UNCHANGED vars
    BY <2>1, StutterAInv
  <2>2. CASE \E r \in Request, a \in Actor : Admit(r, a)
    BY <2>2, AdmitAInv
  <2>3. CASE \E r \in Request : Stream(r) \/ Answer(r) \/ End(r)
    BY <2>3, StreamAInv, AnswerAInv, EndAInv
  <2>4. CASE Tick
    BY <2>4, TickAInv
  <2> QED
    BY <2>1, <2>2, <2>3, <2>4 DEF Next
<1> QED
  BY <1>1, <1>2, PTL DEF Spec

\* Every variable keeps its type: tokens stay between none and a burst, and the
\* counts of an account never fall below none.
THEOREM AdmissionTypeCorrect == Spec => []TypeOK
<1>1. AInv => TypeOK
  BY DEF AInv
<1> QED
  BY <1>1, AccountsInductive, PTL

\* An account counts the places held from it: none is lost with an account that a
\* sweep drops, and none comes back twice.
THEOREM PlacesAreCounted == Spec => []PlacesMatch
<1>1. AInv => PlacesMatch
  BY DEF AInv
<1> QED
  BY <1>1, AccountsInductive, PTL

\* Nobody is admitted faster than the rate after one burst, whatever is swept.
THEOREM RateIsHeld == Spec => []RateHolds
<1>1. AInv => RateHolds
  BY DEF AInv
<1> QED
  BY <1>1, AccountsInductive, PTL

\* Who waits as long as Retry-After said fits the rate.
THEOREM RetryComesTrue == Spec => []RetryFits
<1>1. AInv => RetryFits
  <2> SUFFICES ASSUME AInv, NEW r \in Request,
                      request[r].phase = "refused", request[r].told > 0, request[r].told <= now,
                      request[r].after = admitted[request[r].actor]
               PROVE  Level(request[r].actor) >= Cost
    BY DEF RetryFits
  <2> PICK a \in Actor : a = request[r].actor
    BY DEF AInv, Shape
  <2>1. Level(a) >= Cost \/ Level(a) + (request[r].told - now) >= Cost
    BY DEF AInv, WaitsFor
  <2>2. Level(a) \in Nat /\ request[r].told \in Nat /\ now \in Nat
    BY LevelType, FullFits DEF AInv, TypeOK
  <2> QED
    BY <2>1, <2>2, FullFits
<1> QED
  BY <1>1, AccountsInductive, PTL

-----------------------------------------------------------------------------
(* The accounts implement the bounds.                                      *)

levels == [a \in Actor |-> Level(a)]
servings == [a \in Actor |-> Serving(a)]
opens == [a \in Actor |-> Open(a)]

\* The library's cardinality is the same one in the abstract specification.
LEMMA SameCardinality == ASSUME NEW S PROVE Bounds!Cardinality(S) = Cardinality(S)
BY DEF Bounds!Cardinality, Cardinality

\* A request is admitted against the bounds, or outside of them.
LEMMA AdmitBounds ==
  ASSUME AInv, NEW r \in Request, NEW a \in Actor, Admit(r, a)
  PROVE  [Bounds!Next]_(Bounds!vars)
<1> DEFINE account == AccountOf(a)
<1>1. /\ account \in Account /\ account.tokens = Level(a) /\ account.at = now
      /\ account.in_flight = Cardinality(Serving(a))
  BY TheAccount
<1>2. /\ account.tokens \in 0..Full /\ account.in_flight \in Nat
      /\ enforced \in BOOLEAN /\ request[r] \in Record
  BY <1>1 DEF Account, AInv, TypeOK, Record
<1>3. request[r] = NoRequest /\ now' = now
  BY DEF Admit
<1>4. \A b \in Actor : r \notin Serving(b) /\ r \notin Open(b)
  BY <1>3, NotThere
<1>5. request[r].stream = NoPlace
  BY <1>3, NotThere
<1>6. ASSUME NEW left \in Account, left.at = now, Leaves(a, left), NEW next, next.actor = a,
             request'[r] = next, \A s \in Request : s # r => request'[s] = request[s],
             next.stream = NoPlace
      PROVE  /\ Level(a)' = left.tokens /\ Open(a)' = Open(a)
             /\ Serving(a)' = IF next.place.kind = "counted" THEN Serving(a) \union {r} ELSE Serving(a)
             /\ \A b \in Actor : b # a =>
                  Level(b)' = Level(b) /\ Serving(b)' = Serving(b) /\ Open(b)' = Open(b)
  <2>1. Level(a)' = left.tokens /\ \A b \in Actor : b # a => Level(b)' = Level(b)
    BY <1>3, <1>6, Left
  <2>2. next.stream.kind # "counted"
    BY <1>6 DEF NoPlace
  <2>3. \A b \in Actor :
          /\ Serving(b)' = IF request'[r].actor = b /\ request'[r].place.kind = "counted"
                             THEN Serving(b) \union {r} ELSE Serving(b) \ {r}
          /\ Open(b)' = IF request'[r].actor = b /\ request'[r].stream.kind = "counted"
                          THEN Open(b) \union {r} ELSE Open(b) \ {r}
    BY <1>6, Moved
  <2>4. \A b \in Actor : Open(b)' = Open(b)
    BY <1>4, <1>6, <2>2, <2>3
  <2>5. ASSUME NEW b \in Actor, b # a PROVE Serving(b)' = Serving(b)
    <3>1. Serving(b)' = Serving(b) \ {r}
      BY <1>6, <2>3, <2>5
    <3> QED
      BY <1>4, <3>1
  <2>6. Serving(a)' = IF next.place.kind = "counted" THEN Serving(a) \union {r} ELSE Serving(a)
    BY <1>4, <1>6, <2>3
  <2> QED
    BY <2>1, <2>4, <2>5, <2>6
<1>7. CASE /\ account.in_flight < InFlight /\ account.tokens >= Cost
           /\ Leaves(a, [account EXCEPT !.tokens = @ - Cost, !.in_flight = @ + 1])
           /\ request' = [request EXCEPT ![r].phase = "serving", ![r].actor = a,
                                         ![r].place = Counted(account.born)]
  <2> DEFINE left == [account EXCEPT !.tokens = @ - Cost, !.in_flight = @ + 1]
             next == [request[r] EXCEPT !.phase = "serving", !.actor = a,
                                        !.place = Counted(account.born)]
  <2>1. left \in Account /\ left.at = now /\ left.tokens = Level(a) - Cost /\ Leaves(a, left)
    <3>1. account.tokens - Cost \in 0..Full /\ account.in_flight + 1 \in Nat
      BY <1>2, <1>7, FullFits
    <3>2. Leaves(a, left)
      BY <1>7
    <3> HIDE DEF account
    <3> QED
      BY <1>1, <3>1, <3>2 DEF Account
  <2>2. /\ request'[r] = next /\ \A s \in Request : s # r => request'[s] = request[s]
        /\ next.actor = a /\ next.place.kind = "counted" /\ next.stream = NoPlace
    BY <1>2, <1>5, <1>7 DEF Record, Counted, AInv, TypeOK
  <2> HIDE DEF left, next
  <2>3. /\ Level(a)' = Level(a) - Cost /\ Open(a)' = Open(a) /\ Serving(a)' = Serving(a) \union {r}
        /\ \A b \in Actor : b # a =>
             Level(b)' = Level(b) /\ Serving(b)' = Serving(b) /\ Open(b)' = Open(b)
    BY <1>6, <2>1, <2>2
  <2>4. /\ levels' = [levels EXCEPT ![a] = @ - Cost]
        /\ servings' = [servings EXCEPT ![a] = @ \union {r}]
        /\ opens' = opens
    BY <2>3 DEF levels, servings, opens
  <2>5. /\ Cardinality(servings[a]) < InFlight /\ levels[a] >= Cost
        /\ \A b \in Actor : r \notin servings[b] \union opens[b]
    BY <1>1, <1>4, <1>7 DEF levels, servings, opens
  <2>6. Bounds!Admit(a, r)
    BY <2>4, <2>5, SameCardinality DEF Bounds!Admit, levels, servings, opens
  <2> QED
    BY <2>6 DEF Bounds!Next
<1>8. ASSUME NEW next, Leaves(a, account), next.actor = a, next.place.kind # "counted",
             request'[r] = next, \A s \in Request : s # r => request'[s] = request[s],
             next.stream = NoPlace
      PROVE  UNCHANGED Bounds!vars
  <2>1. \A b \in Actor : Level(b)' = Level(b) /\ Serving(b)' = Serving(b) /\ Open(b)' = Open(b)
    BY <1>1, <1>6, <1>8
  <2> QED
    BY <2>1 DEF Bounds!vars
<1>9. CASE Leaves(a, account) /\ Refused(r, a, account)
  <2> DEFINE next == [request[r] EXCEPT !.phase = "refused", !.actor = a,
                                        !.told = now + Wait(account), !.after = admitted[a]]
  <2>1. request'[r] = next /\ \A s \in Request : s # r => request'[s] = request[s]
    BY <1>9 DEF Refused, AInv, TypeOK
  <2>2. next.actor = a /\ next.place.kind # "counted" /\ next.stream = NoPlace
    <3> HIDE DEF account
    <3> QED
      BY <1>2, <1>3, <1>5, NotThere DEF Record, NoPlace
  <2> HIDE DEF next, account
  <2> QED
    BY <1>8, <1>9, <2>1, <2>2
<1>10. CASE /\ Leaves(a, account)
            /\ request' = [request EXCEPT ![r].phase = "serving", ![r].actor = a,
                                          ![r].place = Outside]
  <2> DEFINE next == [request[r] EXCEPT !.phase = "serving", !.actor = a, !.place = Outside]
  <2>1. request'[r] = next /\ \A s \in Request : s # r => request'[s] = request[s]
    BY <1>10 DEF AInv, TypeOK
  <2>2. next.actor = a /\ next.place.kind # "counted" /\ next.stream = NoPlace
    BY <1>2, <1>5 DEF Record, Outside
  <2> HIDE DEF next, account
  <2> QED
    BY <1>8, <1>10, <2>1, <2>2
<1> QED
  BY <1>2, <1>7, <1>9, <1>10 DEF Admit

\* A stream is opened against its bound, or outside of it.
LEMMA StreamBounds ==
  ASSUME AInv, NEW r \in Request, Stream(r)
  PROVE  [Bounds!Next]_(Bounds!vars)
<1>1. request[r].phase = "serving" /\ request[r].stream = NoPlace /\ now' = now
  BY DEF Stream
<1> PICK a \in Actor : a = request[r].actor
  BY <1>1 DEF AInv, Shape
<1> DEFINE account == AccountOf(a)
<1>2. /\ account \in Account /\ account.tokens = Level(a) /\ account.at = now
      /\ account.streams = Cardinality(Open(a)) /\ account.streams \in Nat
  BY TheAccount DEF Account
<1>3. request[r] \in Record /\ r \notin Open(a) /\ Outside.kind # "counted"
  BY <1>1 DEF AInv, TypeOK, Record, Open, NoPlace, Outside
<1>4. ASSUME NEW next, request'[r] = next, \A s \in Request : s # r => request'[s] = request[s],
             next.actor = a, next.place = request[r].place
      PROVE  \A b \in Actor :
               /\ Serving(b)' = Serving(b)
               /\ Open(b)' = IF b = a /\ next.stream.kind = "counted" THEN Open(b) \union {r} ELSE Open(b)
  <2> SUFFICES ASSUME NEW b \in Actor
               PROVE  /\ Serving(b)' = Serving(b)
                      /\ Open(b)' = IF b = a /\ next.stream.kind = "counted"
                                      THEN Open(b) \union {r} ELSE Open(b)
    OBVIOUS
  <2>1. /\ Serving(b)' = IF a = b /\ request[r].place.kind = "counted"
                           THEN Serving(b) \union {r} ELSE Serving(b) \ {r}
        /\ Open(b)' = IF a = b /\ next.stream.kind = "counted"
                        THEN Open(b) \union {r} ELSE Open(b) \ {r}
    BY <1>4, Moved
  <2>2. /\ r \in Serving(b) <=> a = b /\ request[r].place.kind = "counted"
        /\ r \notin Open(b)
    BY <1>1 DEF Serving, Open, NoPlace
  <2>3. Serving(b)' = Serving(b)
    BY <2>1, <2>2
  <2> QED
    BY <2>1, <2>2, <2>3
<1>5. ASSUME NEW place, request' = [request EXCEPT ![r].stream = place]
      PROVE  /\ \A s \in Request : s # r => request'[s] = request[s]
             /\ request'[r].actor = a /\ request'[r].place = request[r].place
             /\ request'[r].stream = place
  <2>1. /\ request'[r] = [request[r] EXCEPT !.stream = place]
        /\ \A s \in Request : s # r => request'[s] = request[s]
    BY <1>5 DEF AInv, TypeOK
  <2> QED
    BY <1>3, <2>1 DEF Record
<1>6. CASE UNCHANGED <<accounts, sweptAt>> /\ request' = [request EXCEPT ![r].stream = Outside]
  <2>1. \A b \in Actor : Serving(b)' = Serving(b) /\ Open(b)' = Open(b)
    <3>1. /\ \A s \in Request : s # r => request'[s] = request[s]
          /\ request'[r].actor = a /\ request'[r].place = request[r].place
          /\ request'[r].stream = Outside
      BY <1>5, <1>6
    <3> QED
      BY <1>3, <1>4, <3>1
  <2>2. \A b \in Actor : Level(b)' = Level(b)
    BY <1>1, <1>6 DEF Level
  <2> QED
    BY <2>1, <2>2 DEF Bounds!vars
<1>7. CASE Leaves(a, account) /\ request' = [request EXCEPT ![r].stream = Outside]
  <2>1. \A b \in Actor : Serving(b)' = Serving(b) /\ Open(b)' = Open(b)
    <3>1. /\ \A s \in Request : s # r => request'[s] = request[s]
          /\ request'[r].actor = a /\ request'[r].place = request[r].place
          /\ request'[r].stream = Outside
      BY <1>5, <1>7
    <3> QED
      BY <1>3, <1>4, <3>1
  <2>2. \A b \in Actor : Level(b)' = Level(b)
    BY <1>1, <1>2, <1>7, Left
  <2> QED
    BY <2>1, <2>2 DEF Bounds!vars
<1>8. CASE Leaves(a, account) /\ Refused(r, a, account)
  <2> DEFINE next == [request[r] EXCEPT !.phase = "refused", !.actor = a,
                                        !.told = now + Wait(account), !.after = admitted[a]]
  <2>4. request'[r] = next /\ \A s \in Request : s # r => request'[s] = request[s]
    BY <1>8 DEF Refused, AInv, TypeOK
  <2>1. /\ request'[r] = next /\ \A s \in Request : s # r => request'[s] = request[s]
        /\ next.actor = a /\ next.place = request[r].place /\ next.stream.kind # "counted"
    <3> HIDE DEF account
    <3> QED
      BY <1>1, <1>3, <2>4 DEF Record, NoPlace
  <2> HIDE DEF next
  <2>2. \A b \in Actor : Serving(b)' = Serving(b) /\ Open(b)' = Open(b)
    BY <1>4, <2>1
  <2>3. \A b \in Actor : Level(b)' = Level(b)
    BY <1>1, <1>2, <1>8, Left
  <2> QED
    BY <2>2, <2>3 DEF Bounds!vars
<1>9. CASE /\ account.streams < Streams
           /\ Leaves(a, [account EXCEPT !.streams = @ + 1])
           /\ request' = [request EXCEPT ![r].stream = Counted(account.born)]
  <2> DEFINE left == [account EXCEPT !.streams = @ + 1]
  <2>1. left \in Account /\ left.at = now /\ left.tokens = Level(a) /\ Leaves(a, left)
    <3>1. account.streams + 1 \in Nat /\ Leaves(a, left)
      BY <1>2, <1>9
    <3> HIDE DEF account
    <3> QED
      BY <1>2, <3>1 DEF Account
  <2> HIDE DEF left
  <2>2. \A b \in Actor : Level(b)' = Level(b)
    BY <1>1, <2>1, Left
  <2>3. \A b \in Actor : /\ Serving(b)' = Serving(b)
                         /\ Open(b)' = IF b = a THEN Open(b) \union {r} ELSE Open(b)
    <3>1. Counted(account.born).kind = "counted"
      BY DEF Counted
    <3> HIDE DEF account
    <3>2. /\ \A s \in Request : s # r => request'[s] = request[s]
          /\ request'[r].actor = a /\ request'[r].place = request[r].place
          /\ request'[r].stream = Counted(account.born)
      BY <1>5, <1>9
    <3> QED
      BY <1>4, <3>1, <3>2
  <2>4. /\ opens' = [opens EXCEPT ![a] = @ \union {r}] /\ servings' = servings /\ levels' = levels
        /\ Cardinality(opens[a]) < Streams
    BY <1>2, <1>9, <2>2, <2>3 DEF opens, servings, levels
  <2>5. Bounds!Open(a, r)
    BY <2>4, SameCardinality DEF Bounds!Open, opens, servings, levels
  <2> QED
    BY <2>5 DEF Bounds!Next
<1> QED
  BY <1>6, <1>7, <1>8, <1>9 DEF Stream

\* Giving places back changes nothing that anyone has saved up.
LEMMA LevelsKept ==
  ASSUME AInv, NEW r \in Request, Answer(r) \/ End(r), NEW b \in Actor
  PROVE  Level(b)' = Level(b)
<1>1. accounts \in [Actor -> Account \union {NoAccount}] /\ now' = now
  BY DEF AInv, TypeOK, Answer, End
<1>2. request[r].phase # "none"
  BY DEF Answer, End
<1> PICK a \in Actor : a = request[r].actor
  BY <1>2 DEF AInv, Shape
<1>3. CASE UNCHANGED accounts
  BY <1>1, <1>3 DEF Level
<1>4. ASSUME NEW left \in Account, accounts' = [accounts EXCEPT ![a] = left],
             accounts[a] # NoAccount,
             left.tokens = accounts[a].tokens, left.at = accounts[a].at
      PROVE  Level(b)' = Level(b)
  BY <1>1, <1>4, NoAccountAssumption DEF Level
<1> DEFINE inFlight == accounts[a].in_flight - One(Returns(request[r].place, a))
           streams == accounts[a].streams - One(Returns(request[r].stream, a))
<1>5. accounts[a] # NoAccount => accounts[a] \in Account /\ inFlight \in Nat /\ streams \in Nat
  <2> SUFFICES ASSUME accounts[a] # NoAccount
               PROVE  accounts[a] \in Account /\ inFlight \in Nat /\ streams \in Nat
    OBVIOUS
  <2>1. accounts[a] \in Account /\ accounts[a].in_flight \in Nat /\ accounts[a].streams \in Nat
    BY <1>1 DEF Account
  <2>2. /\ Returns(request[r].place, a) => accounts[a].in_flight > 0
        /\ Returns(request[r].stream, a) => accounts[a].streams > 0
    BY <1>2, GivenBack
  <2> QED
    BY <2>1, <2>2 DEF One
<1>6. CASE Answer(r) /\ Returns(request[r].place, a)
  <2> DEFINE left == [accounts[a] EXCEPT !.in_flight = @ - 1]
  <2>1. accounts[a] # NoAccount /\ inFlight = accounts[a].in_flight - 1
    BY <1>6 DEF Returns, One
  <2>2. left \in Account /\ left.tokens = accounts[a].tokens /\ left.at = accounts[a].at
    BY <1>5, <2>1 DEF Account
  <2>3. accounts' = [accounts EXCEPT ![a] = left]
    BY <1>1, <1>6 DEF Answer
  <2> HIDE DEF left
  <2> QED
    BY <1>4, <2>1, <2>2, <2>3
<1>7. CASE End(r) /\ (Returns(request[r].place, a) \/ Returns(request[r].stream, a))
  <2> DEFINE left == [accounts[a] EXCEPT !.in_flight = inFlight, !.streams = streams]
  <2>1. accounts[a] # NoAccount
    BY <1>7 DEF Returns
  <2>2. left \in Account /\ left.tokens = accounts[a].tokens /\ left.at = accounts[a].at
    <3> HIDE DEF inFlight, streams
    <3> QED
      BY <1>5, <2>1 DEF Account
  <2>3. accounts' = [accounts EXCEPT ![a] = left]
    BY <1>1, <1>7 DEF End
  <2> HIDE DEF left
  <2> QED
    BY <1>4, <2>1, <2>2, <2>3
<1> QED
  BY <1>3, <1>6, <1>7 DEF Answer, End

\* The places of a request come back from its actor.
LEMMA ReturnsBounds ==
  ASSUME AInv, NEW r \in Request, Answer(r) \/ End(r)
  PROVE  [Bounds!Next]_(Bounds!vars)
<1>1. request[r].phase # "none"
  BY DEF Answer, End
<1> PICK a \in Actor : a = request[r].actor
  BY <1>1 DEF AInv, Shape
<1>2. \A b \in Actor : Level(b)' = Level(b)
  BY LevelsKept
<1>3. levels' = levels
  BY <1>2 DEF levels
<1>4. request \in [Request -> Record] /\ request[r] \in Record
  BY DEF AInv, TypeOK, Record
<1>5. \A s \in Request : s # r => request'[s] = request[s]
  BY <1>4 DEF Answer, End
<1>6. \A b \in Actor : b # a => r \notin Serving(b) /\ r \notin Open(b)
  BY DEF Serving, Open
<1>7. \A b \in Actor : b # a => Serving(b)' = Serving(b) /\ Open(b)' = Open(b)
  <2> SUFFICES ASSUME NEW b \in Actor, b # a PROVE Serving(b)' = Serving(b) /\ Open(b)' = Open(b)
    OBVIOUS
  <2>1. request'[r].actor = a \/ request'[r] = NoRequest
    BY <1>4 DEF Answer, End, Record
  <2>2. /\ ~(request'[r].actor = b /\ request'[r].place.kind = "counted")
        /\ ~(request'[r].actor = b /\ request'[r].stream.kind = "counted")
    BY <2>1 DEF NoRequest, NoPlace
  <2>3. Serving(b)' = Serving(b) \ {r} /\ Open(b)' = Open(b) \ {r}
    BY <1>5, <2>2, Moved
  <2> QED
    BY <1>6, <2>3
<1>8. CASE Answer(r)
  <2>1. /\ request'[r].actor = a /\ request'[r].place = NoPlace
        /\ request'[r].stream = request[r].stream
    BY <1>4, <1>8 DEF Answer, Record
  <2>2. Serving(a)' = Serving(a) \ {r}
    BY <1>5, <2>1, Moved DEF NoPlace
  <2>3. Open(a)' = Open(a)
    <3>1. r \in Open(a) <=> request[r].stream.kind = "counted"
      BY DEF Open
    <3>2. Open(a)' = IF request[r].stream.kind = "counted" THEN Open(a) \union {r} ELSE Open(a) \ {r}
      BY <1>5, <2>1, Moved
    <3> QED
      BY <3>1, <3>2
  <2>4. servings' = [servings EXCEPT ![a] = @ \ {r}] /\ opens' = opens
    BY <1>7, <2>2, <2>3 DEF servings, opens
  <2>5. Bounds!Answer(a, r)
    BY <1>3, <2>4 DEF Bounds!Answer, servings, opens, levels
  <2> QED
    BY <2>5 DEF Bounds!Next
<1>9. CASE End(r)
  <2>1. request'[r] = NoRequest
    BY <1>4, <1>9 DEF End
  <2>2. Serving(a)' = Serving(a) \ {r} /\ Open(a)' = Open(a) \ {r}
    BY <1>5, <2>1, Moved DEF NoRequest, NoPlace
  <2>3. servings' = [servings EXCEPT ![a] = @ \ {r}] /\ opens' = [opens EXCEPT ![a] = @ \ {r}]
    BY <1>7, <2>2 DEF servings, opens
  <2>4. Bounds!End(a, r)
    BY <1>3, <2>3 DEF Bounds!End, servings, opens, levels
  <2> QED
    BY <2>4 DEF Bounds!Next
<1> QED
  BY <1>8, <1>9

\* A tick of the accounts is a tick of the bounds.
LEMMA TickBounds == ASSUME AInv, Tick PROVE Bounds!Next
<1>1. now' = now + 1 /\ UNCHANGED <<accounts, request>>
  BY DEF Tick
<1>2. \A a \in Actor : /\ Level(a)' = IF Level(a) < Full THEN Level(a) + 1 ELSE Full
                       /\ Serving(a)' = Serving(a) /\ Open(a)' = Open(a)
  BY <1>1, TickLevel DEF AInv, Serving, Open
<1>3. /\ levels' = [a \in Actor |-> IF levels[a] < Full THEN levels[a] + 1 ELSE Full]
      /\ servings' = servings /\ opens' = opens
  BY <1>2 DEF levels, servings, opens
<1>4. Bounds!Tick
  BY <1>3 DEF Bounds!Tick, levels, servings, opens
<1> QED
  BY <1>4 DEF Bounds!Next

\* Accounts that are made, filled up and dropped again are not to be told from one
\* account of each actor that is kept for good.
THEOREM AccountsImplementBounds == Spec => IsActorBounds
<1>1. Init => Bounds!Init
  <2> SUFFICES ASSUME Init PROVE Bounds!Init
    OBVIOUS
  <2>1. \A a \in Actor : Level(a) = Full /\ Serving(a) = {} /\ Open(a) = {}
    BY DEF Init, Level, Serving, Open, NoRequest, NoPlace
  <2> QED
    BY <2>1 DEF Bounds!Init
<1>2. AInv /\ [Next]_vars => [Bounds!Next]_(Bounds!vars)
  <2> SUFFICES ASSUME AInv, [Next]_vars PROVE [Bounds!Next]_(Bounds!vars)
    OBVIOUS
  <2>1. CASE UNCHANGED vars
    <3>1. \A a \in Actor : Level(a)' = Level(a) /\ Serving(a)' = Serving(a) /\ Open(a)' = Open(a)
      BY <2>1 DEF vars, Level, Serving, Open
    <3> QED
      BY <3>1 DEF Bounds!vars
  <2>2. CASE \E r \in Request : (\E a \in Actor : Admit(r, a)) \/ Stream(r) \/ Answer(r) \/ End(r)
    BY <2>2, AdmitBounds, StreamBounds, ReturnsBounds
  <2>3. CASE Tick
    BY <2>3, TickBounds
  <2> QED
    BY <2>1, <2>2, <2>3 DEF Next
<1> QED
  BY <1>1, <1>2, AccountsInductive, PTL DEF Spec, IsActorBounds, Bounds!Spec
=============================================================================
