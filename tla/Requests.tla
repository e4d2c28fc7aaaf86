------------------------------ MODULE Requests ------------------------------
(***************************************************************************)
(* The requests of one process on the connections of its pool: the         *)
(* middleware of app/main.py, the tenant routes, the scoped transaction of *)
(* store/pg.py, and the event of app/request_events.py, which is recorded  *)
(* before the response leaves.                                             *)
(*                                                                         *)
(* A step is what a request does between two waits.  A transaction is one  *)
(* step that commits or one that does not; its connection comes back in    *)
(* the next, so that other requests see it lent meanwhile; when its request *)
(* is cancelled there, it comes back on its own.                           *)
(***************************************************************************)
EXTENDS Naturals, FiniteSets

CONSTANTS
  Request, Connection,
  Principal,  \* what principal_for may resolve: records of a tenant and an actor
  Kinds,      \* the routes that are called
  InFlight,   \* Limits.in_flight of app/admission.py
  Policies,   \* the values Policy.enforced may have
  None        \* no request, no actor, no tenant

Routes == {"create", "remove", "list", "ready", "health"}
Public == {"ready", "health"}

ASSUME RequestsAssumption ==
  /\ Kinds \subseteq Routes
  /\ InFlight \in Nat \ {0}
  /\ Policies \subseteq BOOLEAN
  /\ \A p \in Principal : p.tenant # None /\ p.actor # None
  /\ None \notin Request

VARIABLES
  enforced,  \* Policy.enforced: whether a request over a bound is refused
  req,    \* each request: where it is, and what its state and its middleware hold
  conn,   \* each connection: who it is lent to, and its settings
  tasks,  \* the rows: the tenant, and the request that made it
  audit   \* audit_events

vars == <<enforced, req, conn, tasks, audit>>

Tenants == {p.tenant : p \in Principal}
Actors == {p.actor : p \in Principal}
Status == {0, 200, 201, 204, 401, 404, 429, 500, 503}
Nobody == [tenant |-> None, actor |-> None]

NotThere == [at |-> "none", kind |-> "health", who |-> Nobody, served |-> FALSE,
             unrecorded |-> FALSE, place |-> FALSE, for |-> "route", after |-> "answer",
             status |-> 0, told |-> 0, seen |-> {}]

Idle == [by |-> None, acting |-> None, scope |-> None]

States ==
  [at : {"none", "arrived", "queue", "txn", "give", "ended"}, kind : Routes,
   who : Principal \union {Nobody}, served : BOOLEAN, unrecorded : BOOLEAN,
   place : BOOLEAN, for : {"route", "event"}, after : {"answer", "raise", "stop"},
   status : Status, told : Status, seen : SUBSET Tenants]

TypeOK ==
  /\ enforced \in BOOLEAN
  /\ req \in [Request -> States]
  /\ conn \in [Connection -> [by : Request \union {None}, acting : Actors \union {None},
                              scope : Tenants \union {None}]]
  /\ tasks \subseteq [tenant : Tenants, by : Request]
  /\ audit \subseteq [of : {"row", "request"}, by : Request, tenant : Tenants, actor : Actors,
                      status : Status]

Init ==
  /\ enforced \in Policies
  /\ req = [r \in Request |-> NotThere]
  /\ conn = [c \in Connection |-> Idle]
  /\ tasks = {}
  /\ audit = {}

-----------------------------------------------------------------------------
(* What the middleware does with an answer.                                *)

\* record: a request with no principal, and one that is not to be recorded,
\* need no event.
Records(x) == x.served /\ ~x.unrecorded

\* What is left to say of a request that ended, and that has its place no more: who it
\* was, and what it was told.
Ended(x) == [NotThere EXCEPT !.at = "ended", !.who = x.who, !.served = x.served, !.told = x.told]

\* The start of a response leaves, and AdmitsRequests gives the place back on its way;
\* or the server answers for what was raised through both.
Leaves(x, status) == Ended([x EXCEPT !.told = status])

\* Mutant: the middlewares are added in the other order, and the place comes
\* back before the event is recorded.
MutantAnswersEarly(x, status) ==
  IF Records(x) THEN [x EXCEPT !.at = "queue", !.for = "event", !.status = status, !.place = FALSE]
  ELSE Leaves(x, status)

\* _Recording.send at the start of a response, and end for what was raised,
\* with FAILED.
Answers(x, status) ==
  IF Records(x) THEN [x EXCEPT !.at = "queue", !.for = "event", !.status = status]
  ELSE Leaves(x, status)

Becomes(r, x) == req' = [req EXCEPT ![r] = x] /\ UNCHANGED enforced

Arrive(r, kind) ==
  /\ req[r].at = "none"
  /\ Becomes(r, [req[r] EXCEPT !.at = "arrived", !.kind = kind])
  /\ UNCHANGED <<conn, tasks, audit>>

\* A public route resolves nobody; one of them takes a connection.
Open(r) ==
  /\ req[r].at = "arrived"
  /\ req[r].kind \in Public
  /\ Becomes(r, IF req[r].kind = "ready" THEN [req[r] EXCEPT !.at = "queue"]
                ELSE Answers(req[r], 200))
  /\ UNCHANGED <<conn, tasks, audit>>

\* principal_for raises Unauthenticated.
Refuse(r) ==
  /\ req[r].at = "arrived"
  /\ req[r].kind \notin Public
  /\ Becomes(r, Answers(req[r], 401))
  /\ UNCHANGED <<conn, tasks, audit>>

Serving(actor) == {r \in Request : req[r].place /\ req[r].who.actor = actor}

\* resolved_principal: over in_flight, or over the rate, which may be spent at any
\* time, a policy that is enforced refuses, and one that evaluates admits outside
\* the count; then the principal is served.  A body or an id that does not parse is
\* refused before a connection is asked for.
Resolve(r, p) ==
  /\ req[r].at = "arrived"
  /\ req[r].kind \notin Public
  /\ LET x == [req[r] EXCEPT !.who = p]
         served(place) == [x EXCEPT !.served = TRUE, !.place = place]
     IN  \/ \E place \in BOOLEAN :
              /\ IF place THEN Cardinality(Serving(p.actor)) < InFlight ELSE ~enforced
              /\ \/ Becomes(r, [served(place) EXCEPT !.at = "queue"])
                 \/ Becomes(r, Answers(served(place), 404))
         \/ enforced /\ Becomes(r, Answers([x EXCEPT !.unrecorded = TRUE], 429))
  /\ UNCHANGED <<conn, tasks, audit>>

-----------------------------------------------------------------------------
(* Connections and transactions.                                           *)

\* Mutant: who acts is set on a connection that has nobody yet, and kept.
MutantNamesOnce(c, x) == IF conn[c].acting = None THEN x.who.actor ELSE conn[c].acting

\* _name_who_acts: the actor of the context, which serve has set.
Names(c, x) == IF x.served THEN x.who.actor ELSE None

\* The pool lends a connection; scoped sets the tenant for the transaction.
Take(r, c) ==
  /\ req[r].at = "queue"
  /\ conn[c].by = None
  /\ conn' = [conn EXCEPT ![c] = [by |-> r, acting |-> Names(c, req[r]),
                                  scope |-> req[r].who.tenant]]
  /\ Becomes(r, [req[r] EXCEPT !.at = "txn"])
  /\ UNCHANGED <<tasks, audit>>

\* Mutant: the event that gets no connection is tried no more, and its response
\* leaves.
MutantBusyLetsGo(r) ==
  /\ req[r].at = "queue"
  /\ Becomes(r, IF req[r].for = "event" THEN Leaves(req[r], req[r].status)
                ELSE Answers([req[r] EXCEPT !.unrecorded = TRUE], 503))
  /\ UNCHANGED <<conn, tasks, audit>>

\* DatabaseBusy: no connection came in time, or the server refused one.  The
\* route's becomes a 503 that is not recorded, the event's a 503 in the place of
\* the response.
Busy(r) ==
  /\ req[r].at = "queue"
  /\ Becomes(r, IF req[r].for = "event" THEN Leaves(req[r], 503)
                ELSE Answers([req[r] EXCEPT !.unrecorded = TRUE], 503))
  /\ UNCHANGED <<conn, tasks, audit>>

\* Mutant: the policy of the tables is not forced.
MutantVisibleAll(c) == tasks

\* The rows the policy shows to a transaction.
Visible(c) == {t \in tasks : t.tenant = conn[c].scope}

RowEvent(r, c, t) ==
  [of |-> "row", by |-> r, tenant |-> t.tenant, actor |-> conn[c].acting, status |-> 0]

RequestEvent(r) ==
  [of |-> "request", by |-> r, tenant |-> req[r].who.tenant, actor |-> req[r].who.actor,
   status |-> req[r].status]

\* The statement of a transaction, committed: what it leaves of the request, and
\* one event for the rows it wrote.  A write that names no actor, or a tenant
\* that is not the transaction's, is refused, and commits nothing.
Commits(r, c, after) ==
  LET x == req[r]
      gives(status, seen) ==
        Becomes(r, [x EXCEPT !.at = "give", !.after = after, !.seen = seen,
                             !.status = IF after = "answer" THEN status ELSE 0])
      audited(t) == conn[c].acting # None /\ audit' = audit \union {RowEvent(r, c, t)}
  IN  \/ /\ x.for = "event"
         /\ x.who.tenant = conn[c].scope
         /\ audit' = audit \union {RequestEvent(r)}
         /\ gives(x.status, x.seen)
         /\ UNCHANGED tasks
      \/ /\ x.for = "route" /\ x.kind = "create"
         /\ LET t == [tenant |-> x.who.tenant, by |-> r]
            IN  t.tenant = conn[c].scope /\ tasks' = tasks \union {t} /\ audited(t)
         /\ gives(201, x.seen)
      \/ /\ x.for = "route" /\ x.kind = "remove"
         /\ \E t \in Visible(c) : tasks' = tasks \ {t} /\ audited(t)
         /\ gives(204, x.seen)
      \/ /\ x.for = "route" /\ x.kind = "remove" /\ Visible(c) = {}
         /\ gives(404, x.seen)
         /\ UNCHANGED <<tasks, audit>>
      \/ /\ x.for = "route" /\ x.kind = "list"
         /\ gives(200, {t.tenant : t \in Visible(c)})
         /\ UNCHANGED <<tasks, audit>>
      \/ /\ x.for = "route" /\ x.kind = "ready"
         /\ gives(200, x.seen)
         /\ UNCHANGED <<tasks, audit>>

\* The answer to the COMMIT comes, or it does not come and the request fails.
Commit(r, c) ==
  /\ req[r].at = "txn" /\ conn[c].by = r
  /\ \E after \in {"answer", "raise"} : Commits(r, c, after)
  /\ UNCHANGED conn

\* A statement fails, or the session ends.
Rollback(r) ==
  /\ req[r].at = "txn"
  /\ Becomes(r, [req[r] EXCEPT !.at = "give", !.after = "raise", !.status = 0])
  /\ UNCHANGED <<conn, tasks, audit>>

\* Mutant: the release is not shielded, and a cancel loses the connection.
MutantReleaseUnshielded(c) == conn[c].by # None /\ req[conn[c].by].at # "ended"

\* Whether the exit of connection() lets the connection go, or has it let go.
Releases(c) == conn[c].by # None

\* The settings that stay on a connection that comes back: who acts is kept or reset.
GivesBack(c, acting) ==
  conn' = IF Releases(c) THEN [conn EXCEPT ![c] = [by |-> None, acting |-> acting, scope |-> None]]
          ELSE conn

\* The connection comes back, or is terminated and opened anew; the tenant ended
\* with the transaction, and the session settings may be kept or reset.  Then the
\* response starts, or what was raised goes out.
Release(r, c) ==
  /\ req[r].at = "give" /\ conn[c].by = r
  /\ \E acting \in {conn[c].acting, None} : GivesBack(c, acting)
  /\ LET x == req[r]
     IN  \/ x.after = "stop" /\ Becomes(r, Ended(x))
         \/ x.after = "answer" /\ x.for = "route" /\ Becomes(r, Answers(x, x.status))
         \/ x.after = "answer" /\ x.for = "event" /\ Becomes(r, Leaves(x, x.status))
         \/ x.after = "raise" /\ x.for = "route" /\ Becomes(r, Answers(x, 500))
         \/ x.after = "raise" /\ x.for = "event" /\ Becomes(r, Leaves(x, 500))
  /\ UNCHANGED <<tasks, audit>>

-----------------------------------------------------------------------------
(* A request that is cancelled.                                            *)

\* The task of a request is cancelled at one of its waits: a COMMIT that was sent
\* may be done.  A request that was cancelled records no event of its own.  One that
\* is cancelled while its connection comes back ends, and gives its place back; the
\* driver shields the release, which goes on.
Cancel(r) ==
  \/ /\ req[r].at \in {"arrived", "queue"}
     /\ Becomes(r, Ended(req[r]))
     /\ UNCHANGED <<conn, tasks, audit>>
  \/ /\ req[r].at = "txn"
     /\ \/ \E c \in Connection : conn[c].by = r /\ Commits(r, c, "stop")
        \/ Becomes(r, [req[r] EXCEPT !.at = "give", !.after = "stop"])
           /\ UNCHANGED <<tasks, audit>>
     /\ UNCHANGED conn
  \/ /\ req[r].at = "give"
     /\ Becomes(r, Ended(req[r]))
     /\ UNCHANGED <<conn, tasks, audit>>

\* The release of a request that ended meanwhile is done.
Return(c) ==
  /\ conn[c].by # None
  /\ req[conn[c].by].at = "ended"
  /\ Releases(c)
  /\ \E acting \in {conn[c].acting, None} : GivesBack(c, acting)
  /\ UNCHANGED <<enforced, req, tasks, audit>>

Next ==
  \/ \E r \in Request :
       \/ \E kind \in Kinds : Arrive(r, kind)
       \/ Open(r) \/ Refuse(r) \/ Busy(r) \/ Rollback(r) \/ Cancel(r)
       \/ \E p \in Principal : Resolve(r, p)
       \/ \E c \in Connection : Take(r, c) \/ Commit(r, c) \/ Release(r, c)
  \/ \E c \in Connection : Return(c)

Spec == Init /\ [][Next]_vars

\* A request that has something to do does it: every wait has its bound, and a
\* wait for a connection ends in one or in Busy; a release that goes on by itself is
\* done.  Whether a request comes or is
\* cancelled is not fair.
Goes(r) ==
  \/ Open(r) \/ Refuse(r) \/ Busy(r) \/ Rollback(r)
  \/ \E c \in Connection : Take(r, c) \/ Commit(r, c) \/ Release(r, c)

Fairness ==
  /\ \A r \in Request : WF_vars(Goes(r))
  /\ \A c \in Connection : WF_vars(Return(c))

FairSpec == Spec /\ Fairness

-----------------------------------------------------------------------------
(* What is right about it.                                                 *)

\* The request events of a request.
EventsOf(r) == {e \in audit : e.of = "request" /\ e.by = r}

\* A row is in the tenant of the request that made it, and a request is shown
\* the rows of its own tenant only, whatever connection it was lent.
TenantsAreApart ==
  /\ \A t \in tasks : t.tenant = req[t.by].who.tenant
  /\ \A r \in Request : req[r].seen \subseteq {req[r].who.tenant}

\* Every event is recorded under the tenant and the actor of the request it is
\* of, though the connection was lent to others before.
EventsNameWhoActed == \A e \in audit :
  e.tenant = req[e.by].who.tenant /\ e.actor = req[e.by].who.actor

\* A response that leaves was recorded with its status, once; a 503 was not, even
\* when the route had committed; nor was a request with no principal, or one that
\* admission refused.
RecordedBeforeItLeaves == \A r \in Request :
  LET told == req[r].told  events == EventsOf(r)
  IN  /\ Cardinality(events) <= 1
      /\ told \in {201, 204, 404, 200} /\ req[r].served => \E e \in events : e.status = told
      /\ told \in {401, 429, 503} \/ ~req[r].served => events = {}

\* Under a policy that is enforced, the requests of an actor that are not over have no
\* more connections than admission lets it have requests, the one its event is
\* recorded on included.
ActorsShareThePool == enforced => \A a \in Actors :
  Cardinality({c \in Connection : /\ conn[c].by # None
                                  /\ req[conn[c].by].at # "ended"
                                  /\ req[conn[c].by].who.actor = a}) <= InFlight

\* Every request that came ends, and its connection comes back, also when it was
\* cancelled while it gave it back.
EveryRequestEnds == \A r \in Request :
  req[r].at = "arrived" ~> req[r].at = "ended" /\ \A c \in Connection : conn[c].by # r
=============================================================================
