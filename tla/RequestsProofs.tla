--------------------------- MODULE RequestsProofs ---------------------------
(***************************************************************************)
(* For every set of requests, connections, tenants and actors: the rows of *)
(* tenants stay apart, and every event names who acted.                    *)
(***************************************************************************)
EXTENDS Requests, FiniteSetTheorems, TLAPS

\* What a request holds by itself: nobody before it is resolved, a principal while it
\* is served, an event only of a principal, and rows of its own tenant.
Sound(x) ==
  /\ x.at \in {"none", "arrived"} => x.who = Nobody /\ x.seen = {} /\ ~x.served /\ x.for = "route"
  /\ x.served => x.who \in Principal
  /\ x.at \in {"queue", "txn"} /\ x.for = "event" => x.served
  /\ x.seen \subseteq {x.who.tenant}

RequestsAreSound == \A r \in Request : Sound(req[r])

\* A connection is lent to one request that is in a transaction, about to give it back,
\* or over since it was cancelled there; in the transaction, it is set to that request's
\* tenant and actor.
LentToOne ==
  \A c \in Connection :
    conn[c].by # None =>
      /\ req[conn[c].by].at \in {"txn", "give", "ended"}
      /\ \A d \in Connection : conn[d].by = conn[c].by => d = c
      /\ req[conn[c].by].at = "txn" =>
           /\ conn[c].scope = req[conn[c].by].who.tenant
           /\ conn[c].acting = Names(c, req[conn[c].by])

\* Whoever wrote a row or is named by an event was resolved, for good.
WritersAreKnown ==
  /\ \A t \in tasks : /\ t.tenant = req[t.by].who.tenant
                      /\ req[t.by].at \notin {"none", "arrived"}
  /\ \A e \in audit : /\ e.tenant = req[e.by].who.tenant /\ e.actor = req[e.by].who.actor
                      /\ req[e.by].at \notin {"none", "arrived"}

IInv == TypeOK /\ RequestsAreSound /\ LentToOne /\ WritersAreKnown

-----------------------------------------------------------------------------
(* What the middleware makes of a request.                                 *)

LEMMA PrincipalsAreKnown ==
  ASSUME RequestsAssumption, NEW p \in Principal
  PROVE  p \in Principal \union {Nobody} /\ p # Nobody /\ p.tenant \in Tenants /\ p.actor \in Actors
BY DEF RequestsAssumption, Nobody, Tenants, Actors

LEMMA StatusesAreKnown == {0, 200, 201, 204, 401, 404, 429, 500, 503} \subseteq Status
BY DEF Status

LEMMA EndedFields ==
  ASSUME NEW x \in States
  PROVE  LET y == Ended(x)
         IN  /\ y \in States /\ y.at = "ended" /\ y.who = x.who /\ y.seen = {}
             /\ (y.served <=> x.served) /\ y.told = x.told /\ ~y.place
<1>1. NotThere \in States BY StatusesAreKnown DEF NotThere, States, Routes
<1>2. Ended(x) = [NotThere EXCEPT !.at = "ended", !.who = x.who, !.served = x.served, !.told = x.told]
  BY DEF Ended
<1>3. Ended(x) \in States BY <1>1, <1>2 DEF States
<1> QED BY <1>1, <1>2, <1>3 DEF States, NotThere

LEMMA LeavesFields ==
  ASSUME NEW x \in States, NEW status \in Status
  PROVE  LET y == Leaves(x, status)
         IN  /\ y \in States /\ y.at = "ended" /\ y.who = x.who /\ y.seen = {}
             /\ (y.served <=> x.served) /\ y.told = status /\ ~y.place
<1> DEFINE told == [x EXCEPT !.told = status]
<1>1. told \in States /\ told.who = x.who /\ (told.served <=> x.served) /\ told.told = status
  BY DEF States
<1>2. Leaves(x, status) = Ended(told) BY DEF Leaves
<1> HIDE DEF told
<1> QED BY <1>1, <1>2, EndedFields

LEMMA AnswersFields ==
  ASSUME NEW x \in States, NEW status \in Status, x.seen \subseteq {x.who.tenant}
  PROVE  LET y == Answers(x, status)
         IN  /\ y \in States /\ y.at \in {"queue", "ended"}
             /\ y.who = x.who /\ y.seen \subseteq {x.who.tenant} /\ (y.served <=> x.served)
             /\ y.at = "queue" => y.served
<1>1. CASE Records(x)
  <2> DEFINE y == [x EXCEPT !.at = "queue", !.for = "event", !.status = status]
  <2>1. Answers(x, status) = y BY <1>1 DEF Answers
  <2>2. y \in States BY DEF States
  <2>3. y.at = "queue" /\ y.who = x.who /\ y.seen = x.seen /\ (y.served <=> x.served) BY DEF States
  <2>4. x.served BY <1>1 DEF Records
  <2> QED BY <2>1, <2>2, <2>3, <2>4
<1>2. CASE ~Records(x)
  <2>1. Answers(x, status) = Leaves(x, status) BY <1>2 DEF Answers
  <2> QED BY <2>1, LeavesFields
<1> QED BY <1>1, <1>2

-----------------------------------------------------------------------------
(* A step moves one request to y, and writes nothing but what that request *)
(* may write.                                                              *)

NotNew(x) == x.at \notin {"none", "arrived"}

MadeBy(r, t) ==
  /\ t \in [tenant : Tenants, by : Request]
  /\ t.by = r /\ t.tenant = req[r].who.tenant /\ NotNew(req[r])

ToldOf(r, e) ==
  /\ e \in [of : {"row", "request"}, by : Request, tenant : Tenants, actor : Actors,
            status : Status]
  /\ e.by = r /\ e.tenant = req[r].who.tenant /\ e.actor = req[r].who.actor /\ NotNew(req[r])

GoesTo(r, y) ==
  /\ y \in States
  /\ Sound(y)
  /\ NotNew(req[r]) => y.who = req[r].who /\ NotNew(y)
  /\ Becomes(r, y)
  /\ \A t \in tasks' : t \in tasks \/ MadeBy(r, t)
  /\ \A e \in audit' : e \in audit \/ ToldOf(r, e)

LEMMA TypesAreKept ==
  ASSUME TypeOK, NEW r \in Request, NEW y, GoesTo(r, y), conn' \in [Connection ->
           [by : Request \union {None}, acting : Actors \union {None}, scope : Tenants \union {None}]]
  PROVE  TypeOK'
<1>1. req' \in [Request -> States] /\ enforced' \in BOOLEAN BY DEF TypeOK, GoesTo, Becomes
<1>2. tasks' \subseteq [tenant : Tenants, by : Request] BY DEF TypeOK, GoesTo, MadeBy
<1>3. audit' \subseteq [of : {"row", "request"}, by : Request, tenant : Tenants, actor : Actors,
                       status : Status]
  BY DEF TypeOK, GoesTo, ToldOf
<1> QED BY <1>1, <1>2, <1>3 DEF TypeOK

LEMMA SoundnessIsKept ==
  ASSUME TypeOK, RequestsAreSound, NEW r \in Request, NEW y, GoesTo(r, y)
  PROVE  RequestsAreSound'
<1> SUFFICES ASSUME NEW q \in Request PROVE Sound(req'[q]) BY DEF RequestsAreSound, Sound
<1>1. req'[q] = IF q = r THEN y ELSE req[q] BY DEF TypeOK, GoesTo, Becomes
<1> QED BY <1>1 DEF GoesTo, RequestsAreSound

LEMMA WritersStayKnown ==
  ASSUME TypeOK, WritersAreKnown, NEW r \in Request, NEW y, GoesTo(r, y)
  PROVE  WritersAreKnown'
<1>1. \A q \in Request : NotNew(req[q]) => req'[q].who = req[q].who /\ NotNew(req'[q])
  BY DEF TypeOK, GoesTo, Becomes
<1>2. \A t \in tasks' : t.tenant = req[t.by].who.tenant /\ NotNew(req[t.by]) /\ t.by \in Request
  BY DEF TypeOK, WritersAreKnown, GoesTo, MadeBy, NotNew
<1>3. \A e \in audit' : /\ e.tenant = req[e.by].who.tenant /\ e.actor = req[e.by].who.actor
                       /\ NotNew(req[e.by]) /\ e.by \in Request
  BY DEF TypeOK, WritersAreKnown, GoesTo, ToldOf, NotNew
<1> QED BY <1>1, <1>2, <1>3 DEF WritersAreKnown, NotNew

\* A request that has a connection, and a step that lends none and takes none back: it
\* is about to give its connection back, or over.
Keeps(before, after) == before \in {"txn", "give", "ended"} => after \in {"give", "ended"}

LEMMA LoansAreKept ==
  ASSUME TypeOK, LentToOne, None \notin Request, NEW r \in Request, NEW y, GoesTo(r, y),
         Keeps(req[r].at, y.at), conn' = conn
  PROVE  LentToOne'
<1> SUFFICES ASSUME NEW c \in Connection, conn[c].by # None
             PROVE  /\ req'[conn[c].by].at \in {"txn", "give", "ended"}
                    /\ \A d \in Connection : conn[d].by = conn[c].by => d = c
                    /\ req'[conn[c].by].at = "txn" =>
                         /\ conn[c].scope = req'[conn[c].by].who.tenant
                         /\ conn[c].acting = IF req'[conn[c].by].served
                                             THEN req'[conn[c].by].who.actor ELSE None
  BY DEF LentToOne, Names
<1>1. conn[c].by \in Request BY DEF TypeOK
<1>2. CASE conn[c].by = r
  BY <1>1, <1>2 DEF TypeOK, LentToOne, GoesTo, Becomes, Keeps
<1>3. CASE conn[c].by # r
  <2>1. req'[conn[c].by] = req[conn[c].by] BY <1>1, <1>3 DEF TypeOK, GoesTo, Becomes
  <2> QED BY <2>1 DEF LentToOne, Names
<1> QED BY <1>2, <1>3

LEMMA Moves ==
  ASSUME RequestsAssumption, IInv, NEW r \in Request, NEW y, GoesTo(r, y),
         Keeps(req[r].at, y.at), conn' = conn
  PROVE  IInv'
BY TypesAreKept, SoundnessIsKept, WritersStayKnown, LoansAreKept
   DEF IInv, RequestsAssumption, TypeOK

-----------------------------------------------------------------------------
(* The steps of a request that write nothing and lend nothing.             *)

\* y, of the same principal: what a request becomes that had no connection, or gives
\* it back.
LEMMA Steps ==
  ASSUME RequestsAssumption, IInv, NEW r \in Request, NEW y \in States, Sound(y),
         NotNew(req[r]) => y.who = req[r].who /\ NotNew(y),
         Becomes(r, y), UNCHANGED <<tasks, audit>>
  PROVE  GoesTo(r, y)
BY DEF GoesTo, Becomes

LEMMA ArriveKeeps ==
  ASSUME RequestsAssumption, IInv, NEW r \in Request, NEW kind \in Kinds, Arrive(r, kind)
  PROVE  IInv'
<1> DEFINE y == [req[r] EXCEPT !.at = "arrived", !.kind = kind]
<1>1. req[r] \in States /\ Sound(req[r]) BY DEF IInv, TypeOK, RequestsAreSound
<1>2. kind \in Routes BY DEF RequestsAssumption
<1>3. y \in States /\ y.at = "arrived" /\ y.who = req[r].who /\ y.seen = req[r].seen
      /\ (y.served <=> req[r].served) /\ y.for = req[r].for
  BY <1>1, <1>2 DEF States
<1>4. Sound(y) /\ ~NotNew(req[r]) BY <1>1, <1>3 DEF Sound, Arrive, NotNew
<1> HIDE DEF y
<1>5. GoesTo(r, y) BY <1>3, <1>4, Steps DEF Arrive, y
<1> QED BY <1>5, Moves DEF Arrive, Keeps

\* A request that has not a connection is answered.
LEMMA AnswersAreSound ==
  ASSUME NEW x \in States, NEW status \in Status,
         x.served => x.who \in Principal, x.seen \subseteq {x.who.tenant}
  PROVE  Sound(Answers(x, status))
<1> DEFINE y == Answers(x, status)
<1>1. /\ y \in States /\ y.at \in {"queue", "ended"}
      /\ y.who = x.who /\ y.seen \subseteq {x.who.tenant} /\ (y.served <=> x.served)
      /\ y.at = "queue" => y.served
  BY AnswersFields
<1> HIDE DEF y
<1>2. Sound(y) BY <1>1 DEF Sound
<1> QED BY <1>2 DEF y

LEMMA OpenKeeps ==
  ASSUME RequestsAssumption, IInv, NEW r \in Request, Open(r)
  PROVE  IInv'
<1>1. req[r] \in States /\ Sound(req[r]) /\ req[r].at = "arrived"
  BY DEF IInv, TypeOK, RequestsAreSound, Open
<1>2. 200 \in Status BY StatusesAreKnown
<1>3. CASE Becomes(r, [req[r] EXCEPT !.at = "queue"])
  <2> DEFINE y == [req[r] EXCEPT !.at = "queue"]
  <2>1. /\ y \in States /\ y.at = "queue" /\ y.who = req[r].who /\ y.seen = req[r].seen
        /\ (y.served <=> req[r].served) /\ y.for = req[r].for
    BY <1>1 DEF States
  <2>2. req[r].for = "route" BY <1>1 DEF Sound
  <2>3. Sound(y) /\ ~NotNew(req[r]) BY <1>1, <2>1, <2>2 DEF Sound, NotNew
  <2> HIDE DEF y
  <2>4. GoesTo(r, y) BY <1>3, <2>1, <2>3, Steps DEF Open, y
  <2> QED BY <1>1, <2>4, Moves DEF Open, Keeps
<1>4. CASE Becomes(r, Answers(req[r], 200))
  <2> DEFINE y == Answers(req[r], 200)
  <2>1. Sound(y) BY <1>1, <1>2, AnswersAreSound DEF Sound
  <2>2. y \in States BY <1>1, <1>2, AnswersFields DEF Sound
  <2>3. ~NotNew(req[r]) BY <1>1 DEF NotNew
  <2> HIDE DEF y
  <2>4. GoesTo(r, y) BY <1>4, <2>1, <2>2, <2>3, Steps DEF Open, y
  <2> QED BY <1>1, <2>4, Moves DEF Open, Keeps
<1> QED BY <1>3, <1>4 DEF Open

\* A request that is answered where it holds no connection.
LEMMA AnsweredKeeps ==
  ASSUME RequestsAssumption, IInv, NEW r \in Request, NEW x \in States, NEW status \in Status,
         x.served => x.who \in Principal, x.seen \subseteq {x.who.tenant},
         NotNew(req[r]) => x.who = req[r].who, req[r].at \notin {"txn", "give", "ended"},
         Becomes(r, Answers(x, status)), UNCHANGED <<conn, tasks, audit>>
  PROVE  IInv'
<1> DEFINE y == Answers(x, status)
<1>1. y \in States /\ y.at \in {"queue", "ended"} /\ y.who = x.who BY AnswersFields
<1>2. Sound(y) BY AnswersAreSound
<1> HIDE DEF y
<1>3. NotNew(y) BY <1>1 DEF NotNew
<1>4. GoesTo(r, y) BY <1>1, <1>2, <1>3, Steps DEF y
<1> QED BY <1>4, Moves DEF Keeps

LEMMA RefuseKeeps ==
  ASSUME RequestsAssumption, IInv, NEW r \in Request, Refuse(r)
  PROVE  IInv'
<1>1. req[r] \in States /\ Sound(req[r]) /\ req[r].at = "arrived"
  BY DEF IInv, TypeOK, RequestsAreSound, Refuse
<1>2. 401 \in Status BY StatusesAreKnown
<1> QED BY <1>1, <1>2, AnsweredKeeps DEF Refuse, Sound

LEMMA ResolveKeeps ==
  ASSUME RequestsAssumption, IInv, NEW r \in Request, NEW p \in Principal, Resolve(r, p)
  PROVE  IInv'
<1>1. req[r] \in States /\ Sound(req[r]) /\ req[r].at = "arrived"
  BY DEF IInv, TypeOK, RequestsAreSound, Resolve
<1>2. ~NotNew(req[r]) /\ req[r].seen = {} /\ req[r].for = "route" /\ ~req[r].served
  BY <1>1 DEF Sound, NotNew
<1>3. 404 \in Status /\ 429 \in Status BY StatusesAreKnown
<1> DEFINE x == [req[r] EXCEPT !.who = p]
           served(place) == [x EXCEPT !.served = TRUE, !.place = place]
           queued(place) == [served(place) EXCEPT !.at = "queue"]
           over == [x EXCEPT !.unrecorded = TRUE]
<1>4. x \in States /\ x.who = p /\ x.seen = {} /\ x.for = "route" /\ ~x.served
  BY <1>1, <1>2, PrincipalsAreKnown DEF States
<1>5. ASSUME NEW place \in BOOLEAN
      PROVE  /\ served(place) \in States /\ served(place).who = p /\ served(place).seen = {}
             /\ queued(place) \in States /\ queued(place).at = "queue" /\ queued(place).who = p
             /\ queued(place).seen = {} /\ queued(place).served
  BY <1>4 DEF States
<1>7. over \in States /\ over.who = p /\ over.seen = {} /\ ~over.served
  BY <1>4 DEF States
<1>8. \/ \E place \in BOOLEAN :
           /\ IF place THEN Cardinality(Serving(p.actor)) < InFlight ELSE ~enforced
           /\ Becomes(r, queued(place)) \/ Becomes(r, Answers(served(place), 404))
      \/ Becomes(r, Answers(over, 429))
  BY DEF Resolve
<1> HIDE DEF x, served, queued, over
<1>9. UNCHANGED <<conn, tasks, audit>> BY DEF Resolve
<1>10. ASSUME NEW place \in BOOLEAN, Becomes(r, queued(place)) PROVE IInv'
  <2>1. Sound(queued(place)) BY <1>5 DEF Sound
  <2>2. GoesTo(r, queued(place)) BY <1>2, <1>5, <1>9, <1>10, <2>1, Steps
  <2> QED BY <1>1, <1>9, <2>2, Moves DEF Keeps
<1>11. ASSUME NEW place \in BOOLEAN, Becomes(r, Answers(served(place), 404)) PROVE IInv'
  BY <1>1, <1>2, <1>3, <1>5, <1>9, <1>11, AnsweredKeeps
<1>12. CASE Becomes(r, Answers(over, 429))
  BY <1>1, <1>2, <1>3, <1>7, <1>9, <1>12, AnsweredKeeps
<1> QED BY <1>8, <1>10, <1>11, <1>12

LEMMA BusyKeeps ==
  ASSUME RequestsAssumption, IInv, NEW r \in Request, Busy(r)
  PROVE  IInv'
<1>1. req[r] \in States /\ Sound(req[r]) /\ req[r].at = "queue"
  BY DEF IInv, TypeOK, RequestsAreSound, Busy
<1>2. 503 \in Status BY StatusesAreKnown
<1> DEFINE event == Leaves(req[r], 503)
           route == [req[r] EXCEPT !.unrecorded = TRUE]
<1>3. event \in States /\ event.at = "ended" /\ event.who = req[r].who
      /\ event.seen = {} /\ (event.served <=> req[r].served)
  BY <1>1, <1>2, LeavesFields
<1>4. route \in States /\ route.who = req[r].who /\ route.seen = req[r].seen
      /\ (route.served <=> req[r].served)
  BY <1>1 DEF States
<1>5. Becomes(r, event) \/ Becomes(r, Answers(route, 503)) BY DEF Busy
<1>6. UNCHANGED <<conn, tasks, audit>> BY DEF Busy
<1> HIDE DEF event, route
<1>7. CASE Becomes(r, event)
  <2>1. Sound(event) /\ NotNew(event) BY <1>1, <1>3 DEF Sound, NotNew
  <2>2. GoesTo(r, event) BY <1>3, <1>6, <1>7, <2>1, Steps
  <2> QED BY <1>1, <1>6, <2>2, Moves DEF Keeps
<1>8. CASE Becomes(r, Answers(route, 503))
  <2>1. route.served => route.who \in Principal BY <1>1, <1>4 DEF Sound
  <2>2. route.seen \subseteq {route.who.tenant} BY <1>1, <1>4 DEF Sound
  <2> QED BY <1>1, <1>2, <1>4, <1>6, <1>8, <2>1, <2>2, AnsweredKeeps
<1> QED BY <1>5, <1>7, <1>8

\* What a transaction that ends leaves of its request: it is about to give its
\* connection back, whoever it is of and whatever it has seen of its tenant.
LEMMA GivesAreSound ==
  ASSUME NEW x \in States, Sound(x), x.at = "txn", NEW y \in States, y.at = "give",
         y.who = x.who, y.served <=> x.served, y.for = x.for, y.seen \subseteq {x.who.tenant}
  PROVE  Sound(y) /\ NotNew(y) /\ NotNew(x)
BY DEF Sound, NotNew

LEMMA RollbackKeeps ==
  ASSUME RequestsAssumption, IInv, NEW r \in Request, Rollback(r)
  PROVE  IInv'
<1>1. req[r] \in States /\ Sound(req[r]) /\ req[r].at = "txn"
  BY DEF IInv, TypeOK, RequestsAreSound, Rollback
<1>2. 0 \in Status BY StatusesAreKnown
<1> DEFINE y == [req[r] EXCEPT !.at = "give", !.after = "raise", !.status = 0]
<1>3. /\ y \in States /\ y.at = "give" /\ y.who = req[r].who /\ y.seen = req[r].seen
      /\ (y.served <=> req[r].served) /\ y.for = req[r].for
  BY <1>1, <1>2 DEF States
<1>4. Becomes(r, y) /\ UNCHANGED <<conn, tasks, audit>> BY DEF Rollback
<1> HIDE DEF y
<1>5. Sound(y) /\ NotNew(y) BY <1>1, <1>3, GivesAreSound DEF Sound
<1>6. GoesTo(r, y) BY <1>3, <1>4, <1>5, Steps
<1> QED BY <1>3, <1>4, <1>6, Moves DEF Keeps

LEMMA EndKeeps ==
  ASSUME RequestsAssumption, IInv, NEW r \in Request, req[r].at \in {"arrived", "queue", "give"},
         Becomes(r, Ended(req[r])), UNCHANGED <<conn, tasks, audit>>
  PROVE  IInv'
<1>1. req[r] \in States /\ Sound(req[r]) BY DEF IInv, TypeOK, RequestsAreSound
<1> DEFINE y == Ended(req[r])
<1>2. y \in States /\ y.at = "ended" /\ y.who = req[r].who /\ y.seen = {} /\ (y.served <=> req[r].served)
  BY <1>1, EndedFields
<1> HIDE DEF y
<1>3. Sound(y) /\ NotNew(y) BY <1>1, <1>2 DEF Sound, NotNew
<1>4. GoesTo(r, y) BY <1>2, <1>3, Steps DEF y
<1> QED BY <1>2, <1>4, Moves DEF Keeps, y

-----------------------------------------------------------------------------
(* A connection is lent, used and given back.                              *)

LEMMA TakeKeeps ==
  ASSUME RequestsAssumption, IInv, NEW r \in Request, NEW c \in Connection, Take(r, c)
  PROVE  IInv'
<1>1. req[r] \in States /\ Sound(req[r]) /\ req[r].at = "queue" /\ conn[c].by = None
  BY DEF IInv, TypeOK, RequestsAreSound, Take
<1>2. None \notin Request BY DEF RequestsAssumption
<1> DEFINE y == [req[r] EXCEPT !.at = "txn"]
           lent == [by |-> r, acting |-> Names(c, req[r]), scope |-> req[r].who.tenant]
<1>3. /\ y \in States /\ y.at = "txn" /\ y.who = req[r].who /\ y.seen = req[r].seen
      /\ (y.served <=> req[r].served) /\ y.for = req[r].for
  BY <1>1 DEF States
<1>4. Sound(y) /\ NotNew(y) BY <1>1, <1>3 DEF Sound, NotNew
<1>5. req[r].who \in Principal \/ req[r].who = Nobody BY <1>1 DEF States
<1>6. req[r].who.tenant \in Tenants \union {None} BY <1>5, PrincipalsAreKnown DEF Nobody
<1>7. Names(c, req[r]) \in Actors \union {None} BY <1>1, PrincipalsAreKnown DEF Names, Sound
<1>8. lent \in [by : Request \union {None}, acting : Actors \union {None}, scope : Tenants \union {None}]
  BY <1>6, <1>7
<1>9. /\ conn' = [conn EXCEPT ![c] = lent] /\ Becomes(r, y) /\ UNCHANGED <<tasks, audit>>
  BY DEF Take
<1>10. lent.by = r /\ lent.scope = y.who.tenant /\ lent.acting = IF y.served THEN y.who.actor ELSE None
  BY <1>3 DEF Names
<1> HIDE DEF y, lent
<1>11. GoesTo(r, y) BY <1>3, <1>4, <1>9, Steps
<1>12. TypeOK'
  BY <1>8, <1>9, <1>11, TypesAreKept DEF IInv, TypeOK
<1>13. LentToOne'
  <2>1. \A d \in Connection : conn'[d] = IF d = c THEN lent ELSE conn[d]
    BY <1>9 DEF IInv, TypeOK
  <2>2. \A q \in Request : req'[q] = IF q = r THEN y ELSE req[q]
    BY <1>11 DEF GoesTo, Becomes, IInv, TypeOK
  <2>3. \A d \in Connection : conn[d].by # r BY <1>1, <1>2 DEF IInv, LentToOne
  <2>4. \A d \in Connection : conn[d].by \in Request \union {None} BY DEF IInv, TypeOK
  <2> SUFFICES ASSUME NEW d \in Connection, conn'[d].by # None
               PROVE  /\ req'[conn'[d].by].at \in {"txn", "give", "ended"}
                      /\ \A e \in Connection : conn'[e].by = conn'[d].by => e = d
                      /\ req'[conn'[d].by].at = "txn" =>
                           /\ conn'[d].scope = req'[conn'[d].by].who.tenant
                           /\ conn'[d].acting = IF req'[conn'[d].by].served
                                                THEN req'[conn'[d].by].who.actor ELSE None
    BY DEF LentToOne, Names
  <2>5. CASE d = c BY <1>3, <1>10, <2>1, <2>2, <2>3, <2>5
  <2>6. CASE d # c
    BY <1>10, <2>1, <2>2, <2>3, <2>4, <2>6 DEF IInv, LentToOne, Names
  <2> QED BY <2>5, <2>6
<1> QED BY <1>11, <1>12, <1>13, SoundnessIsKept, WritersStayKnown DEF IInv

LEMMA ReleaseKeeps ==
  ASSUME RequestsAssumption, IInv, NEW r \in Request, NEW c \in Connection, Release(r, c)
  PROVE  IInv'
<1>1. req[r] \in States /\ Sound(req[r]) /\ req[r].at = "give" /\ conn[c].by = r
  BY DEF IInv, TypeOK, RequestsAreSound, Release
<1>2. None \notin Request BY DEF RequestsAssumption
<1>3. req[r].status \in Status /\ 500 \in Status BY <1>1, StatusesAreKnown DEF States
<1>4. /\ req[r].served => req[r].who \in Principal
      /\ req[r].seen \subseteq {req[r].who.tenant}
  BY <1>1 DEF Sound
<1>5. PICK y : /\ y \in States /\ Sound(y) /\ y.who = req[r].who /\ Becomes(r, y)
               /\ y.at \in {"queue", "ended"}
  <2>1. \A status \in Status : LET a == Answers(req[r], status)
                              IN  a \in States /\ Sound(a) /\ a.who = req[r].who /\ a.at \in {"queue", "ended"}
    BY <1>1, <1>4, AnswersFields, AnswersAreSound
  <2>2. \A status \in Status : LET l == Leaves(req[r], status)
                              IN  l \in States /\ Sound(l) /\ l.who = req[r].who /\ l.at = "ended"
    <3> SUFFICES ASSUME NEW status \in Status
                 PROVE  LET l == Leaves(req[r], status)
                        IN  l \in States /\ Sound(l) /\ l.who = req[r].who /\ l.at = "ended"
      OBVIOUS
    <3> DEFINE l == Leaves(req[r], status)
    <3>1. /\ l \in States /\ l.at = "ended" /\ l.who = req[r].who /\ l.seen = {}
          /\ (l.served <=> req[r].served)
      BY <1>1, LeavesFields
    <3> HIDE DEF l
    <3>2. Sound(l) BY <1>4, <3>1 DEF Sound
    <3> QED BY <3>1, <3>2 DEF l
  <2>3. LET e == Ended(req[r])
        IN  e \in States /\ Sound(e) /\ e.who = req[r].who /\ e.at = "ended"
    <3> DEFINE e == Ended(req[r])
    <3>1. /\ e \in States /\ e.at = "ended" /\ e.who = req[r].who /\ e.seen = {}
          /\ (e.served <=> req[r].served)
      BY <1>1, EndedFields
    <3> HIDE DEF e
    <3>2. Sound(e) BY <1>4, <3>1 DEF Sound
    <3> QED BY <3>1, <3>2 DEF e
  <2>4. \/ Becomes(r, Ended(req[r]))
        \/ \E status \in Status : Becomes(r, Answers(req[r], status)) \/ Becomes(r, Leaves(req[r], status))
    BY <1>3 DEF Release
  <2> QED BY <2>1, <2>2, <2>3, <2>4
<1>6. NotNew(y) BY <1>5 DEF NotNew
<1>7. GoesTo(r, y) BY <1>5, <1>6, Steps DEF Release
<1> PICK acting \in {conn[c].acting, None} :
        conn' = [conn EXCEPT ![c] = [by |-> None, acting |-> acting, scope |-> None]]
  BY <1>1, <1>2 DEF Release, GivesBack, Releases
<1> DEFINE back == [by |-> None, acting |-> acting, scope |-> None]
<1>8. conn' = [conn EXCEPT ![c] = back] OBVIOUS
<1>9. /\ back.by = None
      /\ back \in [by : Request \union {None}, acting : Actors \union {None}, scope : Tenants \union {None}]
  BY DEF IInv, TypeOK
<1> HIDE DEF back
<1>10. TypeOK' BY <1>7, <1>8, <1>9, TypesAreKept DEF IInv, TypeOK
<1>11. LentToOne'
  <2>1. \A d \in Connection : conn'[d] = IF d = c THEN back ELSE conn[d]
    BY <1>8 DEF IInv, TypeOK
  <2>2. \A q \in Request : q # r => req'[q] = req[q]
    BY <1>7 DEF GoesTo, Becomes, IInv, TypeOK
  <2>3. \A d \in Connection : conn[d].by = r => d = c BY <1>1, <1>2 DEF IInv, LentToOne
  <2>4. \A d \in Connection : conn[d].by \in Request \union {None} BY DEF IInv, TypeOK
  <2>5. \A d \in Connection : conn'[d].by # None =>
          conn'[d] = conn[d] /\ conn[d].by \in Request /\ req'[conn[d].by] = req[conn[d].by]
    BY <1>9, <2>1, <2>2, <2>3, <2>4
  <2>6. \A d \in Connection : conn'[d].by # None => conn'[d].by = conn[d].by BY <2>5
  <2> QED BY <2>5, <2>6 DEF IInv, LentToOne, Names
<1> QED BY <1>7, <1>10, <1>11, SoundnessIsKept, WritersStayKnown DEF IInv

\* What a transaction that is committed writes is of its own request, because its
\* connection was set to that request's tenant and actor.
LEMMA CommitsKeep ==
  ASSUME RequestsAssumption, IInv, NEW r \in Request, NEW c \in Connection,
         NEW after \in {"answer", "raise", "stop"},
         req[r].at = "txn", conn[c].by = r, Commits(r, c, after), UNCHANGED conn
  PROVE  IInv'
<1>1. req[r] \in States /\ Sound(req[r]) BY DEF IInv, TypeOK, RequestsAreSound
<1>2. /\ conn[c].scope = req[r].who.tenant
      /\ conn[c].acting = IF req[r].served THEN req[r].who.actor ELSE None
  BY DEF IInv, LentToOne, Names, RequestsAssumption
<1>3. NotNew(req[r]) BY DEF NotNew
<1>4. conn[c].acting # None => req[r].who \in Principal /\ conn[c].acting = req[r].who.actor
  BY <1>1, <1>2 DEF Sound
<1>5. \A t \in Visible(c) : t.tenant = req[r].who.tenant BY <1>2 DEF Visible
<1>6. Visible(c) \subseteq tasks /\ tasks \subseteq [tenant : Tenants, by : Request]
  BY DEF Visible, IInv, TypeOK
<1>7. {t.tenant : t \in Visible(c)} \subseteq {req[r].who.tenant}
      /\ {t.tenant : t \in Visible(c)} \in SUBSET Tenants
  BY <1>5, <1>6
<1>8. \A p \in Principal : p.tenant \in Tenants /\ p.actor \in Actors BY PrincipalsAreKnown
<1>9. /\ 0 \in Status /\ 200 \in Status /\ 201 \in Status /\ 204 \in Status /\ 404 \in Status
      /\ req[r].status \in Status
  BY <1>1, StatusesAreKnown DEF States
<1> DEFINE given(seen, status) ==
             [req[r] EXCEPT !.at = "give", !.after = after, !.seen = seen, !.status = status]
           shown == {t.tenant : t \in Visible(c)}
<1>10. PICK seen \in SUBSET Tenants, status \in Status :
         seen \subseteq {req[r].who.tenant} /\ Becomes(r, given(seen, status))
  <2>1. req[r].seen \subseteq {req[r].who.tenant} /\ req[r].seen \in SUBSET Tenants
    BY <1>1 DEF Sound, States
  <2> DEFINE told(s) == IF after = "answer" THEN s ELSE 0
  <2>2. \/ Becomes(r, given(req[r].seen, told(req[r].status)))
        \/ Becomes(r, given(req[r].seen, told(201)))
        \/ Becomes(r, given(req[r].seen, told(204)))
        \/ Becomes(r, given(req[r].seen, told(404)))
        \/ Becomes(r, given(req[r].seen, told(200)))
        \/ Becomes(r, given(shown, told(200)))
    BY Zenon DEF Commits
  <2> HIDE DEF given, shown
  <2>3. \A s \in Status : told(s) \in Status BY <1>9
  <2>4. /\ told(req[r].status) \in Status /\ told(201) \in Status /\ told(204) \in Status
        /\ told(404) \in Status /\ told(200) \in Status
    BY <1>9, <2>3
  <2> HIDE DEF told
  <2>5. shown \subseteq {req[r].who.tenant} /\ shown \in SUBSET Tenants BY <1>7 DEF shown
  <2> QED BY <2>1, <2>2, <2>4, <2>5
<1>11. \A t \in tasks' : t \in tasks \/ MadeBy(r, t)
  <2>1. \/ tasks' \subseteq tasks
        \/ /\ conn[c].acting # None
           /\ tasks' = tasks \union {[tenant |-> req[r].who.tenant, by |-> r]}
    BY DEF Commits
  <2>2. CASE conn[c].acting # None
    <3>1. req[r].who.tenant \in Tenants BY <1>4, <1>8, <2>2
    <3> DEFINE t == [tenant |-> req[r].who.tenant, by |-> r]
    <3>2. MadeBy(r, t) BY <1>3, <3>1 DEF MadeBy
    <3> QED BY <2>1, <3>2
  <2> QED BY <2>1, <2>2
<1>12. \A e \in audit' : e \in audit \/ ToldOf(r, e)
  <2> DEFINE new == [tenant |-> req[r].who.tenant, by |-> r]
  <2>1. \/ audit' = audit
        \/ req[r].for = "event" /\ audit' = audit \union {RequestEvent(r)}
        \/ conn[c].acting # None /\ audit' = audit \union {RowEvent(r, c, new)}
        \/ \E t \in Visible(c) : conn[c].acting # None /\ audit' = audit \union {RowEvent(r, c, t)}
    BY DEF Commits
  <2>2. ASSUME req[r].for = "event" PROVE ToldOf(r, RequestEvent(r))
    <3>1. req[r].who \in Principal BY <1>1, <2>2 DEF Sound
    <3> QED BY <1>3, <1>8, <1>9, <3>1 DEF ToldOf, RequestEvent
  <2>3. ASSUME NEW t, conn[c].acting # None, t.tenant = req[r].who.tenant
        PROVE  ToldOf(r, RowEvent(r, c, t))
    BY <1>3, <1>4, <1>8, <1>9, <2>3 DEF ToldOf, RowEvent
  <2>4. new.tenant = req[r].who.tenant OBVIOUS
  <2> HIDE DEF new
  <2> QED BY <1>5, <2>1, <2>2, <2>3, <2>4
<1> DEFINE y == given(seen, status)
<1>13. /\ y \in States /\ y.at = "give" /\ y.who = req[r].who /\ y.seen = seen
       /\ (y.served <=> req[r].served) /\ y.for = req[r].for
  BY <1>1, <1>10 DEF States
<1>14. Becomes(r, y) BY <1>10
<1> HIDE DEF y
<1>15. Sound(y) /\ NotNew(y) BY <1>1, <1>10, <1>13, GivesAreSound
<1>16. GoesTo(r, y) BY <1>11, <1>12, <1>13, <1>14, <1>15 DEF GoesTo, Becomes
<1> QED BY <1>13, <1>16, Moves DEF Keeps

LEMMA CancelKeeps ==
  ASSUME RequestsAssumption, IInv, NEW r \in Request, Cancel(r)
  PROVE  IInv'
<1>1. CASE /\ req[r].at \in {"arrived", "queue"}
           /\ Becomes(r, Ended(req[r]))
           /\ UNCHANGED <<conn, tasks, audit>>
  BY <1>1, EndKeeps
<1>2. CASE /\ req[r].at = "txn" /\ UNCHANGED conn
           /\ \E c \in Connection : conn[c].by = r /\ Commits(r, c, "stop")
  BY <1>2, CommitsKeep
<1>4. CASE /\ req[r].at = "give"
           /\ Becomes(r, Ended(req[r]))
           /\ UNCHANGED <<conn, tasks, audit>>
  BY <1>4, EndKeeps
<1>3. CASE /\ req[r].at = "txn" /\ UNCHANGED conn
           /\ Becomes(r, [req[r] EXCEPT !.at = "give", !.after = "stop"])
           /\ UNCHANGED <<tasks, audit>>
  <2>1. req[r] \in States /\ Sound(req[r]) BY DEF IInv, TypeOK, RequestsAreSound
  <2> DEFINE y == [req[r] EXCEPT !.at = "give", !.after = "stop"]
  <2>2. /\ y \in States /\ y.at = "give" /\ y.who = req[r].who /\ y.seen = req[r].seen
        /\ (y.served <=> req[r].served) /\ y.for = req[r].for
    BY <2>1 DEF States
  <2>3. Becomes(r, y) BY <1>3
  <2> HIDE DEF y
  <2>4. Sound(y) /\ NotNew(y) BY <1>3, <2>1, <2>2, GivesAreSound DEF Sound
  <2>5. GoesTo(r, y) BY <1>3, <2>2, <2>3, <2>4, Steps
  <2> QED BY <1>3, <2>2, <2>5, Moves DEF Keeps
<1> QED BY <1>1, <1>2, <1>3, <1>4 DEF Cancel

\* The connection of a request that was cancelled while it gave it back.
LEMMA ReturnKeeps ==
  ASSUME RequestsAssumption, IInv, NEW c \in Connection, Return(c)
  PROVE  IInv'
<1>1. PICK acting \in {conn[c].acting, None} :
        conn' = [conn EXCEPT ![c] = [by |-> None, acting |-> acting, scope |-> None]]
  BY DEF Return, GivesBack, Releases
<1> DEFINE back == [by |-> None, acting |-> acting, scope |-> None]
<1>2. conn' = [conn EXCEPT ![c] = back] BY <1>1
<1>3. /\ back.by = None
      /\ back \in [by : Request \union {None}, acting : Actors \union {None}, scope : Tenants \union {None}]
  BY DEF IInv, TypeOK
<1>4. UNCHANGED <<enforced, req, tasks, audit>> BY DEF Return
<1> HIDE DEF back
<1>5. \A d \in Connection : conn'[d] = IF d = c THEN back ELSE conn[d]
  BY <1>2 DEF IInv, TypeOK
<1>6. TypeOK' BY <1>2, <1>3, <1>4 DEF IInv, TypeOK
<1>7. \A d \in Connection : conn'[d].by # None => conn'[d] = conn[d]
  BY <1>3, <1>5
<1>8. LentToOne' BY <1>4, <1>7 DEF IInv, LentToOne, Names
<1>9. RequestsAreSound' /\ WritersAreKnown'
  BY <1>4 DEF IInv, RequestsAreSound, Sound, WritersAreKnown
<1> QED BY <1>6, <1>8, <1>9 DEF IInv

-----------------------------------------------------------------------------

LEMMA InitIInv == RequestsAssumption /\ Init => IInv
<1> SUFFICES ASSUME RequestsAssumption, Init PROVE IInv OBVIOUS
<1>1. NotThere \in States BY StatusesAreKnown DEF NotThere, States, Routes
<1>2. Sound(NotThere) BY DEF Sound, NotThere
<1>3. TypeOK BY <1>1 DEF Init, TypeOK, Idle
<1>4. RequestsAreSound BY <1>2 DEF Init, RequestsAreSound
<1>5. LentToOne /\ WritersAreKnown BY DEF Init, LentToOne, WritersAreKnown, Idle
<1> QED BY <1>3, <1>4, <1>5 DEF IInv

LEMMA NextIInv == RequestsAssumption /\ IInv /\ [Next]_vars => IInv'
<1> SUFFICES ASSUME RequestsAssumption, IInv, [Next]_vars PROVE IInv' OBVIOUS
<1>1. CASE UNCHANGED vars
  BY <1>1 DEF vars, IInv, TypeOK, RequestsAreSound, LentToOne, WritersAreKnown, Names, Sound
<1>2. CASE Next
  <2> SUFFICES ASSUME NEW r \in Request,
                      \/ \E kind \in Kinds : Arrive(r, kind)
                      \/ Open(r) \/ Refuse(r) \/ Busy(r) \/ Rollback(r) \/ Cancel(r)
                      \/ \E p \in Principal : Resolve(r, p)
                      \/ \E c \in Connection : Take(r, c) \/ Commit(r, c) \/ Release(r, c)
               PROVE  IInv'
    BY <1>2, ReturnKeeps DEF Next
  <2>1. ASSUME NEW kind \in Kinds, Arrive(r, kind) PROVE IInv' BY <2>1, ArriveKeeps
  <2>2. CASE Open(r) BY <2>2, OpenKeeps
  <2>3. CASE Refuse(r) BY <2>3, RefuseKeeps
  <2>4. CASE Busy(r) BY <2>4, BusyKeeps
  <2>5. CASE Rollback(r) BY <2>5, RollbackKeeps
  <2>7. CASE Cancel(r) BY <2>7, CancelKeeps
  <2>8. ASSUME NEW p \in Principal, Resolve(r, p) PROVE IInv' BY <2>8, ResolveKeeps
  <2>9. ASSUME NEW c \in Connection, Take(r, c) PROVE IInv' BY <2>9, TakeKeeps
  <2>10. ASSUME NEW c \in Connection, Commit(r, c) PROVE IInv'
    BY <2>10, CommitsKeep DEF Commit
  <2>11. ASSUME NEW c \in Connection, Release(r, c) PROVE IInv' BY <2>11, ReleaseKeeps
  <2> QED BY <2>1, <2>2, <2>3, <2>4, <2>5, <2>7, <2>8, <2>9, <2>10, <2>11
<1> QED BY <1>1, <1>2

\* The invariant is inductive: who a connection is set for is who it is lent to.
THEOREM Inductive == Spec => []IInv
<1>1. Init => IInv BY RequestsAssumption, InitIInv
<1>2. IInv /\ [Next]_vars => IInv' BY RequestsAssumption, NextIInv
<1> QED BY <1>1, <1>2, PTL DEF Spec

\* Every state, connection, row and event of the requests has its type.
THEOREM TypeCorrect == Spec => []TypeOK
<1>1. IInv => TypeOK BY DEF IInv
<1> QED BY <1>1, Inductive, PTL

\* Whatever requests come, in whatever order they are lent the connections of the
\* pool: no row is in another tenant than its writer's, and none is shown to one.
THEOREM TenantsStayApart == Spec => []TenantsAreApart
<1>1. IInv => TenantsAreApart
  BY DEF IInv, RequestsAreSound, Sound, WritersAreKnown, TenantsAreApart
<1> QED BY <1>1, Inductive, PTL

\* Every audit event is under the tenant and the actor of its request.
THEOREM EventsAlwaysNameWhoActed == Spec => []EventsNameWhoActed
<1>1. IInv => EventsNameWhoActed BY DEF IInv, WritersAreKnown, EventsNameWhoActed
<1> QED BY <1>1, Inductive, PTL

-----------------------------------------------------------------------------
(* What of a request was recorded.                                         *)

\* What an event may say that a response was.
Recorded == {200, 201, 204, 404, 500}

\* The events of a request that is over, or whose response left.
Witnessed(served, told, events) ==
  /\ events = {} \/ \E e \in events : events = {e}
  /\ told \in {200, 201, 204, 404} /\ served => \E e \in events : e.status = told
  /\ told \in {401, 429, 503} \/ ~served => events = {}

\* Of a request on its way: it was told nothing and has no event until the
\* transaction of its event, and under a policy that is enforced it has its place
\* until its response leaves.
Honest(x, events) ==
  /\ x.at # "ended" => x.told = 0 /\ ~x.unrecorded
  /\ x.at \in {"none", "arrived", "queue", "txn"} \/ (x.at = "give" /\ x.for = "route") => events = {}
  /\ x.at \in {"queue", "txn"} /\ x.for = "event" => x.status \in Recorded
  /\ x.at = "give" /\ x.for = "route" /\ x.after = "answer" => x.status \in Recorded
  /\ x.at = "give" /\ x.for = "event" =>
       /\ x.served
       /\ events = {} \/ \E e \in events : events = {e}
       /\ x.after = "answer" => x.status \in Recorded /\ \E e \in events : e.status = x.status
  /\ x.at = "ended" => Witnessed(x.served, x.told, events)
  /\ enforced /\ x.at \in {"queue", "txn", "give"} /\ x.who \in Principal => x.place

RequestsAreHonest == \A r \in Request : Honest(req[r], EventsOf(r))

\* The places that admission counts of an actor.
ServingFits == \A a \in Actors : IsFiniteSet(Serving(a)) /\ Cardinality(Serving(a)) <= InFlight

\* An answer of a request that has no event yet.
LEMMA AnswersAreHonest ==
  ASSUME NEW x \in States, NEW status \in Status, x.told = 0,
         Records(x) => status \in Recorded /\ (enforced => x.place),
         ~Records(x) /\ x.served => status \notin {200, 201, 204, 404}
  PROVE  LET y == Answers(x, status)
         IN  Honest(y, {}) /\ y.who = x.who /\ (y.place => x.place)
<1>1. CASE Records(x)
  <2> DEFINE y == [x EXCEPT !.at = "queue", !.for = "event", !.status = status]
  <2>1. Answers(x, status) = y BY <1>1 DEF Answers
  <2>2. /\ y.at = "queue" /\ y.for = "event" /\ y.status = status /\ y.told = x.told
        /\ (y.unrecorded <=> x.unrecorded) /\ (y.place <=> x.place) /\ y.who = x.who
    BY DEF States
  <2> HIDE DEF y
  <2>3. Honest(y, {}) BY <1>1, <2>2 DEF Honest, Records
  <2> QED BY <2>1, <2>2, <2>3
<1>2. CASE ~Records(x)
  <2> DEFINE y == Leaves(x, status)
  <2>1. Answers(x, status) = y BY <1>2 DEF Answers
  <2>2. y.at = "ended" /\ y.told = status /\ ~y.place /\ y.who = x.who /\ (y.served <=> x.served)
    BY LeavesFields
  <2> HIDE DEF y
  <2>3. Honest(y, {}) BY <1>2, <2>2 DEF Honest, Witnessed
  <2> QED BY <2>1, <2>2, <2>3
<1> QED BY <1>1, <1>2

\* A response that leaves after the transaction of its event, and a request that ends.
LEMMA LeavesAreHonest ==
  ASSUME NEW x \in States, NEW status \in Status, NEW events, Witnessed(x.served, status, events)
  PROVE  LET y == Leaves(x, status)
         IN  Honest(y, events) /\ ~y.place
<1> DEFINE y == Leaves(x, status)
<1>1. y.at = "ended" /\ y.told = status /\ ~y.place /\ (y.served <=> x.served)
  BY LeavesFields
<1> HIDE DEF y
<1>2. (Witnessed(y.served, status, events) <=> Witnessed(x.served, status, events))
  BY <1>1 DEF Witnessed
<1>3. Honest(y, events) BY <1>1, <1>2 DEF Honest
<1> QED BY <1>1, <1>3 DEF y

LEMMA EndedAreHonest ==
  ASSUME NEW x \in States, NEW events, Witnessed(x.served, x.told, events)
  PROVE  LET y == Ended(x)
         IN  Honest(y, events) /\ ~y.place
<1> DEFINE y == Ended(x)
<1>1. y.at = "ended" /\ y.told = x.told /\ ~y.place /\ (y.served <=> x.served)
  BY EndedFields
<1> HIDE DEF y
<1>2. (Witnessed(y.served, y.told, events) <=> Witnessed(x.served, x.told, events))
  BY <1>1 DEF Witnessed
<1>3. Honest(y, events) BY <1>1, <1>2 DEF Honest
<1> QED BY <1>1, <1>3 DEF y

\* A step of one request changes the events of no other.
LEMMA OthersStayHonest ==
  ASSUME TypeOK, RequestsAreHonest, NEW r \in Request, NEW y, Becomes(r, y),
         audit \subseteq audit', \A e \in audit' : e \in audit \/ e.by = r,
         Honest(y, EventsOf(r)')
  PROVE  RequestsAreHonest'
<1> SUFFICES ASSUME NEW q \in Request PROVE Honest(req'[q], EventsOf(q)')
  BY DEF RequestsAreHonest, Honest, Becomes
<1>1. CASE q = r BY <1>1 DEF TypeOK, Becomes
<1>2. CASE q # r
  <2>1. EventsOf(q)' = EventsOf(q) BY <1>2 DEF EventsOf
  <2>2. req'[q] = req[q] BY <1>2 DEF TypeOK, Becomes
  <2> QED BY <2>1, <2>2 DEF RequestsAreHonest
<1> QED BY <1>1, <1>2

\* A step that gives no request a place.
LEMMA PlacesStillFit ==
  ASSUME RequestsAssumption, TypeOK, ServingFits, NEW r \in Request, NEW y, Becomes(r, y),
         y.place => req[r].place /\ y.who = req[r].who
  PROVE  ServingFits'
<1> SUFFICES ASSUME NEW a \in Actors
             PROVE  IsFiniteSet(Serving(a)') /\ Cardinality(Serving(a)') <= InFlight
  BY DEF ServingFits, Actors
<1>1. \A q \in Request : req'[q] = IF q = r THEN y ELSE req[q] BY DEF TypeOK, Becomes
<1>2. Serving(a)' \in SUBSET Serving(a) BY <1>1 DEF Serving
<1>3. IsFiniteSet(Serving(a)) /\ Cardinality(Serving(a)) <= InFlight BY DEF ServingFits
<1>4. IsFiniteSet(Serving(a)') /\ Cardinality(Serving(a)') <= Cardinality(Serving(a))
  BY <1>2, <1>3, FS_Subset
<1>5. Cardinality(Serving(a)) \in Nat /\ Cardinality(Serving(a)') \in Nat
  BY <1>3, <1>4, FS_CardinalityType
<1> QED BY <1>3, <1>4, <1>5 DEF RequestsAssumption

RecordInv == RequestsAreHonest /\ ServingFits

\* A step that records nothing and gives no place.
LEMMA QuietStep ==
  ASSUME RequestsAssumption, TypeOK, RecordInv, NEW r \in Request, NEW y, Becomes(r, y),
         UNCHANGED audit, Honest(y, EventsOf(r)), y.place => req[r].place /\ y.who = req[r].who
  PROVE  RecordInv'
<1>1. EventsOf(r)' = EventsOf(r) BY DEF EventsOf
<1>2. RequestsAreHonest' BY <1>1, OthersStayHonest DEF RecordInv
<1> QED BY <1>2, PlacesStillFit DEF RecordInv

LEMMA ArriveRecords ==
  ASSUME RequestsAssumption, IInv, RecordInv, NEW r \in Request, NEW kind \in Kinds, Arrive(r, kind)
  PROVE  RecordInv'
<1>1. req[r] \in States /\ Honest(req[r], EventsOf(r)) /\ req[r].at = "none"
  BY DEF IInv, TypeOK, RecordInv, RequestsAreHonest, Arrive
<1> DEFINE y == [req[r] EXCEPT !.at = "arrived", !.kind = kind]
<1>2. /\ y.at = "arrived" /\ y.told = req[r].told /\ (y.unrecorded <=> req[r].unrecorded)
      /\ y.who = req[r].who /\ (y.place <=> req[r].place)
  BY <1>1 DEF States
<1>3. Becomes(r, y) /\ UNCHANGED audit BY DEF Arrive
<1> HIDE DEF y
<1>4. Honest(y, EventsOf(r)) BY <1>1, <1>2 DEF Honest
<1> QED BY <1>2, <1>3, <1>4, QuietStep DEF IInv

\* A request that is answered before its event.
LEMMA AnsweredRecords ==
  ASSUME RequestsAssumption, IInv, RecordInv, NEW r \in Request, NEW x \in States, NEW status \in Status,
         req[r].at \in {"arrived", "queue"} \/ (req[r].at = "give" /\ req[r].for = "route"),
         x.told = req[r].told, x.who = req[r].who, x.place <=> req[r].place,
         Records(x) => status \in Recorded /\ (enforced => x.place),
         ~Records(x) /\ x.served => status \notin {200, 201, 204, 404},
         Becomes(r, Answers(x, status)), UNCHANGED audit
  PROVE  RecordInv'
<1>1. EventsOf(r) = {} /\ x.told = 0
  BY DEF RecordInv, RequestsAreHonest, Honest
<1> DEFINE y == Answers(x, status)
<1>2. Honest(y, {}) /\ y.who = x.who /\ (y.place => x.place)
  BY <1>1, AnswersAreHonest
<1> HIDE DEF y
<1>3. Honest(y, EventsOf(r)) BY <1>1, <1>2
<1> QED BY <1>2, <1>3, QuietStep DEF IInv, y

LEMMA OpenRecords ==
  ASSUME RequestsAssumption, IInv, RecordInv, NEW r \in Request, Open(r)
  PROVE  RecordInv'
<1>1. /\ req[r] \in States /\ Sound(req[r]) /\ Honest(req[r], EventsOf(r)) /\ req[r].at = "arrived"
      /\ UNCHANGED audit
  BY DEF IInv, TypeOK, RequestsAreSound, RecordInv, RequestsAreHonest, Open
<1>2. 200 \in Status BY StatusesAreKnown
<1>3. CASE Becomes(r, [req[r] EXCEPT !.at = "queue"])
  <2> DEFINE y == [req[r] EXCEPT !.at = "queue"]
  <2>1. /\ y.at = "queue" /\ y.told = req[r].told /\ (y.unrecorded <=> req[r].unrecorded)
        /\ y.who = Nobody /\ y.who = req[r].who /\ (y.place <=> req[r].place) /\ y.for = "route"
    BY <1>1 DEF States, Sound
  <2> HIDE DEF y
  <2>2. Nobody \notin Principal BY PrincipalsAreKnown
  <2>3. Honest(y, EventsOf(r)) BY <1>1, <2>1, <2>2 DEF Honest
  <2> QED BY <1>1, <1>3, <2>1, <2>3, QuietStep DEF IInv, y
<1>4. CASE Becomes(r, Answers(req[r], 200))
  <2>1. ~req[r].served BY <1>1 DEF Sound
  <2> QED BY <1>1, <1>2, <1>4, <2>1, AnsweredRecords DEF Records
<1> QED BY <1>3, <1>4 DEF Open

LEMMA RefuseRecords ==
  ASSUME RequestsAssumption, IInv, RecordInv, NEW r \in Request, Refuse(r)
  PROVE  RecordInv'
<1>1. req[r] \in States /\ Sound(req[r]) /\ req[r].at = "arrived"
  BY DEF IInv, TypeOK, RequestsAreSound, Refuse
<1>2. 401 \in Status /\ ~req[r].served BY <1>1, StatusesAreKnown DEF Sound
<1> QED BY <1>1, <1>2, AnsweredRecords DEF Refuse, Records

\* The place that admission gives: its actor had fewer than in_flight.
LEMMA PlaceIsGiven ==
  ASSUME RequestsAssumption, TypeOK, ServingFits, NEW r \in Request, NEW p \in Principal, NEW y,
         Becomes(r, y), y.who = p, Cardinality(Serving(p.actor)) < InFlight
  PROVE  ServingFits'
<1> SUFFICES ASSUME NEW a \in Actors
             PROVE  IsFiniteSet(Serving(a)') /\ Cardinality(Serving(a)') <= InFlight
  BY DEF ServingFits, Actors
<1>1. \A q \in Request : req'[q] = IF q = r THEN y ELSE req[q] BY DEF TypeOK, Becomes
<1>2. /\ IsFiniteSet(Serving(a)) /\ Cardinality(Serving(a)) <= InFlight
      /\ Cardinality(Serving(a)) \in Nat /\ InFlight \in Nat
  BY FS_CardinalityType DEF ServingFits, RequestsAssumption
<1>3. CASE a = p.actor
  <2> DEFINE more == Serving(a) \union {r}
  <2>1. Serving(a)' \in SUBSET more BY <1>1 DEF Serving
  <2>2. /\ IsFiniteSet(more)
        /\ Cardinality(more) = IF r \in Serving(a) THEN Cardinality(Serving(a)) ELSE Cardinality(Serving(a)) + 1
    BY <1>2, FS_AddElement
  <2>3. Cardinality(more) <= InFlight /\ Cardinality(more) \in Nat BY <1>2, <1>3, <2>2
  <2> HIDE DEF more
  <2>4. IsFiniteSet(Serving(a)') /\ Cardinality(Serving(a)') <= Cardinality(more)
    BY <2>1, <2>2, FS_Subset
  <2>5. Cardinality(Serving(a)') \in Nat BY <2>4, FS_CardinalityType
  <2> QED BY <1>2, <2>3, <2>4, <2>5
<1>4. CASE a # p.actor
  <2>1. Serving(a)' \in SUBSET Serving(a) BY <1>1, <1>4 DEF Serving
  <2>2. IsFiniteSet(Serving(a)') /\ Cardinality(Serving(a)') <= Cardinality(Serving(a))
    BY <1>2, <2>1, FS_Subset
  <2>3. Cardinality(Serving(a)') \in Nat BY <2>2, FS_CardinalityType
  <2> QED BY <1>2, <2>2, <2>3
<1> QED BY <1>3, <1>4

LEMMA ResolveRecords ==
  ASSUME RequestsAssumption, IInv, RecordInv, NEW r \in Request, NEW p \in Principal, Resolve(r, p)
  PROVE  RecordInv'
<1>1. /\ req[r] \in States /\ Sound(req[r]) /\ Honest(req[r], EventsOf(r)) /\ req[r].at = "arrived"
      /\ UNCHANGED audit
  BY DEF IInv, TypeOK, RequestsAreSound, RecordInv, RequestsAreHonest, Resolve
<1>2. /\ req[r].for = "route" /\ ~req[r].served /\ req[r].told = 0 /\ ~req[r].unrecorded
      /\ EventsOf(r) = {}
  BY <1>1 DEF Sound, Honest
<1>3. 404 \in Status /\ 429 \in Status BY StatusesAreKnown
<1> DEFINE x == [req[r] EXCEPT !.who = p]
           served(place) == [x EXCEPT !.served = TRUE, !.place = place]
           queued(place) == [served(place) EXCEPT !.at = "queue"]
           over == [x EXCEPT !.unrecorded = TRUE]
<1>4. /\ x \in States /\ x.who = p /\ x.for = "route" /\ ~x.served /\ x.told = 0 /\ ~x.unrecorded
  BY <1>1, <1>2, PrincipalsAreKnown DEF States
<1>5. ASSUME NEW place \in BOOLEAN
      PROVE  LET y == served(place)
             IN  /\ y \in States /\ y.who = p /\ y.told = 0 /\ ~y.unrecorded /\ y.served
                 /\ y.place <=> place
  BY <1>4 DEF States
<1>6. ASSUME NEW place \in BOOLEAN
      PROVE  LET y == queued(place)
             IN  /\ y.at = "queue" /\ y.who = p /\ y.told = 0 /\ ~y.unrecorded /\ y.for = "route"
                 /\ y.place <=> place
  BY <1>4 DEF States
<1>7. over \in States /\ over.unrecorded /\ ~over.served BY <1>4 DEF States
<1>8. \/ \E place \in BOOLEAN :
           /\ IF place THEN Cardinality(Serving(p.actor)) < InFlight ELSE ~enforced
           /\ Becomes(r, queued(place)) \/ Becomes(r, Answers(served(place), 404))
      \/ Becomes(r, Answers(over, 429))
  BY DEF Resolve
<1> HIDE DEF x, served, queued, over
<1>9. ASSUME NEW y, Becomes(r, y), Honest(y, {}),
             y.place => y.who = p /\ Cardinality(Serving(p.actor)) < InFlight
      PROVE  RecordInv'
  <2>1. EventsOf(r)' = {} BY <1>1, <1>2 DEF EventsOf
  <2>2. RequestsAreHonest' BY <1>1, <1>9, <2>1, OthersStayHonest DEF IInv, RecordInv
  <2>3. CASE y.place BY <1>9, <2>2, <2>3, PlaceIsGiven DEF IInv, RecordInv
  <2>4. CASE ~y.place BY <1>9, <2>2, <2>4, PlacesStillFit DEF IInv, RecordInv
  <2> QED BY <2>3, <2>4
<1>10. ASSUME NEW place \in BOOLEAN, Becomes(r, queued(place)),
              IF place THEN Cardinality(Serving(p.actor)) < InFlight ELSE ~enforced
       PROVE  RecordInv'
  <2>1. Honest(queued(place), {}) BY <1>6, <1>10 DEF Honest
  <2> QED BY <1>6, <1>9, <1>10, <2>1
<1>11. ASSUME NEW place \in BOOLEAN, Becomes(r, Answers(served(place), 404)),
              IF place THEN Cardinality(Serving(p.actor)) < InFlight ELSE ~enforced
       PROVE  RecordInv'
  <2>1. Records(served(place)) BY <1>5 DEF Records
  <2>2. 404 \in Recorded BY DEF Recorded
  <2> DEFINE y == Answers(served(place), 404)
  <2>3. Honest(y, {}) /\ y.who = p /\ (y.place => place)
    BY <1>3, <1>5, <1>11, <2>1, <2>2, AnswersAreHonest
  <2>4. Becomes(r, y) BY <1>11
  <2> HIDE DEF y
  <2> QED BY <1>9, <1>11, <2>3, <2>4
<1>12. CASE Becomes(r, Answers(over, 429))
  <2>1. Answers(over, 429) = Leaves(over, 429) BY <1>7 DEF Answers, Records
  <2>2. Witnessed(over.served, 429, {}) BY DEF Witnessed
  <2> DEFINE y == Leaves(over, 429)
  <2>3. Honest(y, {}) /\ ~y.place
    BY <1>3, <1>7, <2>2, LeavesAreHonest
  <2>4. Becomes(r, y) BY <1>12, <2>1
  <2> HIDE DEF y
  <2> QED BY <1>9, <2>3, <2>4
<1> QED BY <1>8, <1>10, <1>11, <1>12

LEMMA BusyRecords ==
  ASSUME RequestsAssumption, IInv, RecordInv, NEW r \in Request, Busy(r)
  PROVE  RecordInv'
<1>1. /\ req[r] \in States /\ Honest(req[r], EventsOf(r)) /\ req[r].at = "queue" /\ UNCHANGED audit
  BY DEF IInv, TypeOK, RecordInv, RequestsAreHonest, Busy
<1>2. EventsOf(r) = {} BY <1>1 DEF Honest
<1>3. 503 \in Status BY StatusesAreKnown
<1>4. CASE Becomes(r, Leaves(req[r], 503))
  <2>1. Witnessed(req[r].served, 503, EventsOf(r)) BY <1>2 DEF Witnessed
  <2>2. Honest(Leaves(req[r], 503), EventsOf(r)) /\ ~Leaves(req[r], 503).place
    BY <1>1, <1>3, <2>1, LeavesAreHonest
  <2> QED BY <1>1, <1>4, <2>2, QuietStep DEF IInv
<1>5. CASE Becomes(r, Answers([req[r] EXCEPT !.unrecorded = TRUE], 503))
  <2> DEFINE x == [req[r] EXCEPT !.unrecorded = TRUE]
  <2>1. /\ x \in States /\ x.told = req[r].told /\ x.who = req[r].who /\ (x.place <=> req[r].place)
        /\ x.unrecorded
    BY <1>1 DEF States
  <2>2. Becomes(r, Answers(x, 503)) BY <1>5
  <2> HIDE DEF x
  <2> QED BY <1>1, <1>3, <2>1, <2>2, AnsweredRecords DEF Records
<1> QED BY <1>4, <1>5 DEF Busy

LEMMA TakeRecords ==
  ASSUME RequestsAssumption, IInv, RecordInv, NEW r \in Request, NEW c \in Connection, Take(r, c)
  PROVE  RecordInv'
<1>1. req[r] \in States /\ Honest(req[r], EventsOf(r)) /\ req[r].at = "queue" /\ UNCHANGED audit
  BY DEF IInv, TypeOK, RecordInv, RequestsAreHonest, Take
<1> DEFINE y == [req[r] EXCEPT !.at = "txn"]
<1>2. /\ y.at = "txn" /\ y.told = req[r].told /\ (y.unrecorded <=> req[r].unrecorded)
      /\ y.who = req[r].who /\ (y.place <=> req[r].place) /\ y.for = req[r].for
      /\ y.status = req[r].status
  BY <1>1 DEF States
<1>3. Becomes(r, y) BY DEF Take
<1> HIDE DEF y
<1>4. Honest(y, EventsOf(r)) BY <1>1, <1>2 DEF Honest
<1> QED BY <1>1, <1>2, <1>3, <1>4, QuietStep DEF IInv

\* A transaction that ends without a word to record.
LEMMA GivesRecords ==
  ASSUME RequestsAssumption, IInv, RecordInv, NEW r \in Request, NEW y, req[r].at = "txn",
         y.at = "give", y.after \in {"raise", "stop"}, y.told = req[r].told,
         y.unrecorded <=> req[r].unrecorded, y.served <=> req[r].served, y.who = req[r].who,
         y.place <=> req[r].place, y.for = req[r].for, Becomes(r, y), UNCHANGED audit
  PROVE  RecordInv'
<1>1. Honest(req[r], EventsOf(r)) /\ Sound(req[r]) /\ req[r] \in States
  BY DEF RecordInv, RequestsAreHonest, IInv, RequestsAreSound, TypeOK
<1>2. Honest(y, EventsOf(r)) BY <1>1 DEF Honest, Sound
<1> QED BY <1>2, QuietStep DEF IInv

LEMMA RollbackRecords ==
  ASSUME RequestsAssumption, IInv, RecordInv, NEW r \in Request, Rollback(r)
  PROVE  RecordInv'
<1>1. req[r] \in States /\ req[r].at = "txn" BY DEF IInv, TypeOK, Rollback
<1> DEFINE y == [req[r] EXCEPT !.at = "give", !.after = "raise", !.status = 0]
<1>2. /\ y.at = "give" /\ y.after = "raise" /\ y.told = req[r].told
      /\ (y.unrecorded <=> req[r].unrecorded) /\ (y.served <=> req[r].served)
      /\ y.who = req[r].who /\ (y.place <=> req[r].place) /\ y.for = req[r].for
  BY <1>1 DEF States
<1>3. Becomes(r, y) /\ UNCHANGED audit BY DEF Rollback
<1> HIDE DEF y
<1> QED BY <1>1, <1>2, <1>3, GivesRecords

\* A transaction that commits: the route's leaves no event of the request, and that of
\* the event leaves one, with the status that the response will have.
LEMMA CommitsRecord ==
  ASSUME RequestsAssumption, IInv, RecordInv, NEW r \in Request, NEW c \in Connection,
         NEW after \in {"answer", "raise", "stop"},
         req[r].at = "txn", Commits(r, c, after)
  PROVE  RecordInv'
<1>1. req[r] \in States /\ Sound(req[r]) /\ Honest(req[r], EventsOf(r))
  BY DEF IInv, TypeOK, RequestsAreSound, RecordInv, RequestsAreHonest
<1>2. EventsOf(r) = {} /\ req[r].told = 0 /\ ~req[r].unrecorded BY <1>1 DEF Honest
<1> DEFINE given(seen, status) ==
             [req[r] EXCEPT !.at = "give", !.after = after, !.seen = seen, !.status = status]
           told(s) == IF after = "answer" THEN s ELSE 0
<1>3. ASSUME NEW seen, NEW status
      PROVE  LET y == given(seen, status)
             IN  /\ y.at = "give" /\ y.after = after /\ y.status = status /\ y.told = req[r].told
                 /\ (y.unrecorded <=> req[r].unrecorded) /\ (y.served <=> req[r].served)
                 /\ y.who = req[r].who /\ (y.place <=> req[r].place) /\ y.for = req[r].for
  BY <1>1 DEF States
<1> HIDE DEF given, told
<1>4. CASE req[r].for = "event"
  <2>1. Becomes(r, given(req[r].seen, told(req[r].status))) /\ audit' = audit \union {RequestEvent(r)}
    BY <1>4 DEF Commits, given, told
  <2> DEFINE y == given(req[r].seen, told(req[r].status))
  <2>2. /\ Becomes(r, y)
        /\ y.at = "give" /\ y.after = after /\ y.status = told(req[r].status) /\ y.told = req[r].told
        /\ (y.unrecorded <=> req[r].unrecorded) /\ (y.served <=> req[r].served)
        /\ y.who = req[r].who /\ (y.place <=> req[r].place) /\ y.for = req[r].for
    BY <1>3, <2>1
  <2> HIDE DEF y
  <2>3. /\ RequestEvent(r).of = "request" /\ RequestEvent(r).by = r
        /\ RequestEvent(r).status = req[r].status
    BY DEF RequestEvent
  <2>4. EventsOf(r)' = {RequestEvent(r)} BY <1>2, <2>1, <2>3 DEF EventsOf
  <2>5. req[r].served /\ req[r].status \in Recorded BY <1>1, <1>4 DEF Sound, Honest
  <2>6. Honest(y, {RequestEvent(r)})
    BY <1>1, <1>2, <1>4, <2>2, <2>3, <2>5 DEF Honest, told
  <2>7. RequestsAreHonest'
    BY <2>1, <2>2, <2>3, <2>4, <2>6, OthersStayHonest DEF IInv, RecordInv
  <2> QED BY <2>2, <2>7, PlacesStillFit DEF IInv, RecordInv
<1>5. CASE req[r].for = "route"
  <2>1. PICK seen : \E status \in {200, 201, 204, 404} : Becomes(r, given(seen, told(status)))
    <3>1. \/ Becomes(r, given(req[r].seen, told(201))) \/ Becomes(r, given(req[r].seen, told(204)))
          \/ Becomes(r, given(req[r].seen, told(404))) \/ Becomes(r, given(req[r].seen, told(200)))
          \/ Becomes(r, given({t.tenant : t \in Visible(c)}, told(200)))
      BY <1>5, Zenon DEF Commits, given, told
    <3> QED BY <3>1
  <2> PICK status \in {200, 201, 204, 404} : Becomes(r, given(seen, told(status)))
    BY <2>1
  <2> DEFINE y == given(seen, told(status))
  <2>2. /\ Becomes(r, y)
        /\ y.at = "give" /\ y.after = after /\ y.status = told(status) /\ y.told = req[r].told
        /\ (y.unrecorded <=> req[r].unrecorded) /\ (y.served <=> req[r].served)
        /\ y.who = req[r].who /\ (y.place <=> req[r].place) /\ y.for = req[r].for
    BY <1>3
  <2> HIDE DEF y
  <2>3. audit \subseteq audit' /\ \A e \in audit' : e \in audit \/ (e.by = r /\ e.of = "row")
    BY <1>5 DEF Commits, RowEvent
  <2>4. EventsOf(r)' = {} BY <1>2, <2>3 DEF EventsOf
  <2>5. after = "answer" => y.status \in Recorded BY <2>2 DEF Recorded, told
  <2>6. Honest(y, {}) BY <1>1, <1>2, <1>5, <2>2, <2>5 DEF Honest
  <2>7. RequestsAreHonest' BY <2>2, <2>3, <2>4, <2>6, OthersStayHonest DEF IInv, RecordInv
  <2> QED BY <2>2, <2>7, PlacesStillFit DEF IInv, RecordInv
<1> QED BY <1>1, <1>4, <1>5 DEF States

\* The response that starts when the connection is back, or the end of the request.
LEMMA ReleaseRecords ==
  ASSUME RequestsAssumption, IInv, RecordInv, NEW r \in Request, NEW c \in Connection, Release(r, c)
  PROVE  RecordInv'
<1>1. /\ req[r] \in States /\ Sound(req[r]) /\ Honest(req[r], EventsOf(r)) /\ req[r].at = "give"
      /\ UNCHANGED audit
  BY DEF IInv, TypeOK, RequestsAreSound, RecordInv, RequestsAreHonest, Release
<1>2. req[r].status \in Status /\ 500 \in Status BY <1>1, StatusesAreKnown DEF States
<1>3. req[r].told = 0 /\ ~req[r].unrecorded BY <1>1 DEF Honest
<1>4. ASSUME NEW status \in Recorded \intersect Status, req[r].for = "route",
             Becomes(r, Answers(req[r], status))
      PROVE  RecordInv'
  <2>1. Records(req[r]) /\ enforced => req[r].place BY <1>1 DEF Records, Sound, Honest
  <2>2. ~Records(req[r]) => ~req[r].served BY <1>3 DEF Records
  <2> QED BY <1>1, <1>4, <2>1, <2>2, AnsweredRecords
<1>5. ASSUME NEW status \in Status, Becomes(r, Leaves(req[r], status)),
             Witnessed(req[r].served, status, EventsOf(r))
      PROVE  RecordInv'
  <2>1. Honest(Leaves(req[r], status), EventsOf(r)) /\ ~Leaves(req[r], status).place
    BY <1>1, <1>5, LeavesAreHonest
  <2> QED BY <1>1, <1>5, <2>1, QuietStep DEF IInv
<1>6. CASE req[r].after = "stop" /\ Becomes(r, Ended(req[r]))
  <2>1. Witnessed(req[r].served, req[r].told, EventsOf(r))
    BY <1>1, <1>3 DEF Honest, Witnessed, States
  <2>2. Honest(Ended(req[r]), EventsOf(r)) /\ ~Ended(req[r]).place BY <1>1, <2>1, EndedAreHonest
  <2> QED BY <1>1, <1>6, <2>2, QuietStep DEF IInv
<1>7. CASE req[r].after = "answer" /\ req[r].for = "route" /\ Becomes(r, Answers(req[r], req[r].status))
  <2>1. req[r].status \in Recorded BY <1>1, <1>7 DEF Honest
  <2> QED BY <1>2, <1>4, <1>7, <2>1
<1>8. CASE req[r].after = "answer" /\ req[r].for = "event" /\ Becomes(r, Leaves(req[r], req[r].status))
  <2>1. Witnessed(req[r].served, req[r].status, EventsOf(r))
    BY <1>1, <1>8 DEF Honest, Witnessed, Recorded
  <2> QED BY <1>2, <1>5, <1>8, <2>1
<1>9. CASE req[r].after = "raise" /\ req[r].for = "route" /\ Becomes(r, Answers(req[r], 500))
  BY <1>2, <1>4, <1>9 DEF Recorded
<1>10. CASE req[r].after = "raise" /\ req[r].for = "event" /\ Becomes(r, Leaves(req[r], 500))
  <2>1. Witnessed(req[r].served, 500, EventsOf(r)) BY <1>1, <1>10 DEF Honest, Witnessed
  <2> QED BY <1>2, <1>5, <1>10, <2>1
<1> QED BY <1>6, <1>7, <1>8, <1>9, <1>10 DEF Release

LEMMA EndRecords ==
  ASSUME RequestsAssumption, IInv, RecordInv, NEW r \in Request,
         req[r].at \in {"arrived", "queue", "give"}, Becomes(r, Ended(req[r])), UNCHANGED audit
  PROVE  RecordInv'
<1>1. req[r] \in States /\ Honest(req[r], EventsOf(r))
  BY DEF IInv, TypeOK, RecordInv, RequestsAreHonest
<1>2. Witnessed(req[r].served, req[r].told, EventsOf(r)) BY <1>1 DEF Honest, Witnessed, States
<1>3. Honest(Ended(req[r]), EventsOf(r)) /\ ~Ended(req[r]).place BY <1>1, <1>2, EndedAreHonest
<1> QED BY <1>3, QuietStep DEF IInv

LEMMA CancelRecords ==
  ASSUME RequestsAssumption, IInv, RecordInv, NEW r \in Request, Cancel(r)
  PROVE  RecordInv'
<1>1. CASE /\ req[r].at \in {"arrived", "queue"}
           /\ Becomes(r, Ended(req[r]))
           /\ UNCHANGED <<conn, tasks, audit>>
  BY <1>1, EndRecords
<1>2. CASE req[r].at = "txn" /\ \E c \in Connection : conn[c].by = r /\ Commits(r, c, "stop")
  BY <1>2, CommitsRecord
<1>4. CASE /\ req[r].at = "give"
           /\ Becomes(r, Ended(req[r]))
           /\ UNCHANGED <<conn, tasks, audit>>
  BY <1>4, EndRecords
<1>3. CASE /\ req[r].at = "txn"
           /\ Becomes(r, [req[r] EXCEPT !.at = "give", !.after = "stop"])
           /\ UNCHANGED <<tasks, audit>>
  <2>1. req[r] \in States BY DEF IInv, TypeOK
  <2> DEFINE y == [req[r] EXCEPT !.at = "give", !.after = "stop"]
  <2>2. /\ y.at = "give" /\ y.after = "stop" /\ y.told = req[r].told
        /\ (y.unrecorded <=> req[r].unrecorded) /\ (y.served <=> req[r].served)
        /\ y.who = req[r].who /\ (y.place <=> req[r].place) /\ y.for = req[r].for
    BY <2>1 DEF States
  <2>3. Becomes(r, y) BY <1>3
  <2> HIDE DEF y
  <2> QED BY <1>3, <2>2, <2>3, GivesRecords
<1> QED BY <1>1, <1>2, <1>3, <1>4 DEF Cancel

LEMMA ReturnRecords ==
  ASSUME RecordInv, NEW c \in Connection, Return(c)
  PROVE  RecordInv'
BY DEF Return, RecordInv, RequestsAreHonest, Honest, EventsOf, ServingFits, Serving

LEMMA InitRecords == RequestsAssumption /\ Init => RecordInv
<1> SUFFICES ASSUME RequestsAssumption, Init PROVE RecordInv OBVIOUS
<1>1. Honest(NotThere, {}) BY DEF Honest, NotThere
<1>2. \A r \in Request : EventsOf(r) = {} BY DEF Init, EventsOf
<1>3. RequestsAreHonest BY <1>1, <1>2 DEF Init, RequestsAreHonest
<1>4. \A a \in Actors : Serving(a) = {} BY DEF Init, Serving, NotThere
<1>5. IsFiniteSet({}) /\ Cardinality({}) <= InFlight BY FS_EmptySet DEF RequestsAssumption
<1>6. ServingFits BY <1>4, <1>5 DEF ServingFits
<1> QED BY <1>3, <1>6 DEF RecordInv

LEMMA NextRecords == RequestsAssumption /\ IInv /\ RecordInv /\ [Next]_vars => RecordInv'
<1> SUFFICES ASSUME RequestsAssumption, IInv, RecordInv, [Next]_vars PROVE RecordInv' OBVIOUS
<1>1. CASE UNCHANGED vars
  BY <1>1 DEF vars, RecordInv, RequestsAreHonest, Honest, EventsOf, ServingFits, Serving
<1>2. CASE Next
  <2> SUFFICES ASSUME NEW r \in Request,
                      \/ \E kind \in Kinds : Arrive(r, kind)
                      \/ Open(r) \/ Refuse(r) \/ Busy(r) \/ Rollback(r) \/ Cancel(r)
                      \/ \E p \in Principal : Resolve(r, p)
                      \/ \E c \in Connection : Take(r, c) \/ Commit(r, c) \/ Release(r, c)
               PROVE  RecordInv'
    BY <1>2, ReturnRecords DEF Next
  <2>1. ASSUME NEW kind \in Kinds, Arrive(r, kind) PROVE RecordInv' BY <2>1, ArriveRecords
  <2>2. CASE Open(r) BY <2>2, OpenRecords
  <2>3. CASE Refuse(r) BY <2>3, RefuseRecords
  <2>4. CASE Busy(r) BY <2>4, BusyRecords
  <2>5. CASE Rollback(r) BY <2>5, RollbackRecords
  <2>7. CASE Cancel(r) BY <2>7, CancelRecords
  <2>8. ASSUME NEW p \in Principal, Resolve(r, p) PROVE RecordInv' BY <2>8, ResolveRecords
  <2>9. ASSUME NEW c \in Connection, Take(r, c) PROVE RecordInv' BY <2>9, TakeRecords
  <2>10. ASSUME NEW c \in Connection, Commit(r, c) PROVE RecordInv'
    BY <2>10, CommitsRecord DEF Commit
  <2>11. ASSUME NEW c \in Connection, Release(r, c) PROVE RecordInv' BY <2>11, ReleaseRecords
  <2> QED BY <2>1, <2>2, <2>3, <2>4, <2>5, <2>7, <2>8, <2>9, <2>10, <2>11
<1> QED BY <1>1, <1>2

\* What is recorded of a request, and the place it has, are invariant with whom its
\* connection is lent to.
THEOREM RecordsInductive == Spec => [](IInv /\ RecordInv)
<1>1. Init => IInv /\ RecordInv BY RequestsAssumption, InitIInv, InitRecords
<1>2. IInv /\ RecordInv /\ [Next]_vars => (IInv /\ RecordInv)'
  BY RequestsAssumption, NextIInv, NextRecords
<1> QED BY <1>1, <1>2, PTL DEF Spec

\* Whatever is cancelled, fails or gets no connection: a response that says that
\* something was done left after its one event was committed, and one that says that
\* nothing was served has none.
THEOREM ResponsesAreRecorded == Spec => []RecordedBeforeItLeaves
<1>1. IInv /\ RecordInv => RecordedBeforeItLeaves
  <2> SUFFICES ASSUME IInv, RecordInv, NEW r \in Request
               PROVE  /\ Cardinality(EventsOf(r)) <= 1
                      /\ req[r].told \in {201, 204, 404, 200} /\ req[r].served
                           => \E e \in EventsOf(r) : e.status = req[r].told
                      /\ req[r].told \in {401, 429, 503} \/ ~req[r].served => EventsOf(r) = {}
    BY DEF RecordedBeforeItLeaves
  <2>1. Honest(req[r], EventsOf(r)) /\ req[r] \in States
    BY DEF RecordInv, RequestsAreHonest, IInv, TypeOK
  <2>2. EventsOf(r) = {} \/ \E e \in EventsOf(r) : EventsOf(r) = {e}
    BY <2>1 DEF Honest, Witnessed, States
  <2>3. Cardinality(EventsOf(r)) <= 1
    <3>1. CASE EventsOf(r) = {} BY <3>1, FS_EmptySet
    <3>2. ASSUME NEW e, EventsOf(r) = {e} PROVE Cardinality(EventsOf(r)) <= 1
      <4>1. Cardinality({e}) = 1 BY FS_Singleton
      <4> QED BY <3>2, <4>1
    <3> QED BY <2>2, <3>1, <3>2
  <2>4. CASE req[r].at = "ended"
    BY <2>1, <2>3, <2>4 DEF Honest, Witnessed
  <2>5. CASE req[r].at # "ended"
    <3>1. req[r].told = 0 BY <2>1, <2>5 DEF Honest
    <3>2. ~req[r].served => EventsOf(r) = {} BY <2>1, <2>5 DEF Honest, States
    <3> QED BY <2>3, <3>1, <3>2
  <2> QED BY <2>4, <2>5
<1> QED BY <1>1, RecordsInductive, PTL

\* Under a policy that is enforced, the requests of an actor that still run never have
\* more connections than admission lets it have requests: each connection is lent to
\* another request that still has its place.
THEOREM PoolIsShared == Spec => []ActorsShareThePool
<1>1. IInv /\ RecordInv => ActorsShareThePool
  <2> DEFINE lent(a) == {c \in Connection : /\ conn[c].by # None
                                            /\ req[conn[c].by].at # "ended"
                                            /\ req[conn[c].by].who.actor = a}
  <2> SUFFICES ASSUME IInv, RecordInv, enforced, NEW a \in Actors
               PROVE  Cardinality(lent(a)) <= InFlight
    BY DEF ActorsShareThePool
  <2> DEFINE borrower == [c \in lent(a) |-> conn[c].by]
  <2>1. \A c \in lent(a) : conn[c].by \in Serving(a)
    <3> SUFFICES ASSUME NEW c \in lent(a) PROVE conn[c].by \in Serving(a) OBVIOUS
    <3>1. conn[c].by \in Request BY DEF IInv, TypeOK
    <3>2. req[conn[c].by].at \in {"txn", "give"} BY DEF IInv, LentToOne
    <3>3. req[conn[c].by].who \in Principal
      <4>1. req[conn[c].by].who \in Principal \union {Nobody} BY <3>1 DEF IInv, TypeOK, States
      <4>2. a # None BY PrincipalsAreKnown, RequestsAssumption DEF Actors, RequestsAssumption
      <4> QED BY <4>1, <4>2 DEF Nobody
    <3>4. req[conn[c].by].place BY <3>1, <3>2, <3>3 DEF RecordInv, RequestsAreHonest, Honest
    <3> QED BY <3>1, <3>4 DEF Serving
  <2>2. \A c, d \in lent(a) : conn[c].by = conn[d].by => c = d BY DEF IInv, LentToOne
  <2>3. borrower \in Injection(lent(a), Serving(a))
    BY <2>1, <2>2 DEF Injection, IsInjective
  <2>4. IsFiniteSet(Serving(a)) /\ Cardinality(Serving(a)) <= InFlight BY DEF RecordInv, ServingFits
  <2> HIDE DEF lent, borrower
  <2>5. IsFiniteSet(lent(a)) /\ Cardinality(lent(a)) <= Cardinality(Serving(a))
    BY <2>3, <2>4, FS_Injection
  <2>6. Cardinality(lent(a)) \in Nat /\ Cardinality(Serving(a)) \in Nat
    BY <2>4, <2>5, FS_CardinalityType
  <2> QED BY <2>4, <2>5, <2>6, RequestsAssumption DEF RequestsAssumption
<1> QED BY <1>1, RecordsInductive, PTL
=============================================================================
