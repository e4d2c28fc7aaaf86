----------------------------- MODULE Deployment -----------------------------
(***************************************************************************)
(* The processes of a deployment and the connections they hold: what the   *)
(* settings let start (app/deployment.py, environment.py, wiring.py), the  *)
(* connection budget (store/budget.py), the one pool of a process          *)
(* (store/pg.py), and the start and the stop of the web process            *)
(* (lifespan.py) and of the worker.                                        *)
(***************************************************************************)
EXTENDS Integers, FiniteSets, FiniteSetsExt

CONSTANTS
  Process,   \* the processes that the platform starts, each again after it exits
  Workers,   \* those that run app/worker.py; the others serve requests
  Caller,    \* the tasks of a process that may ask for its pool at once
  Settings,  \* the environments that a deployment may have
  Limits,    \* what the server may allow: its max_connections and reserved
  Outside,   \* the connections of connection_budget.OUTSIDE
  Beside,    \* those of TEMPLATE_IN_PROCESS and connection_budget.IN_PROCESS
  None       \* no task, no pool

\* DATABASE_INSTANCES when it is not set, and when it is not a number of processes.
Unset == 0
NotACount == -1

ASSUME DeploymentAssumption ==
  /\ IsFiniteSet(Process) /\ Workers \subseteq Process
  /\ None \notin Caller /\ None \notin Int
  /\ Outside \in Nat /\ Beside \in Nat \ {0}
  /\ \A s \in Settings :
       /\ s.app \in {"development", "production", "other"}
       /\ s.url \in BOOLEAN /\ s.owner \in BOOLEAN
       /\ s.timeouts \in {"unset", "good", "long", "bad"}
       /\ s.instances \in Nat \union {NotACount}
       /\ s.attributes \in BOOLEAN /\ s.admission \in BOOLEAN
       /\ s.endpoint \in {"unset", "url", "other"}
       /\ s.telemetry \subseteq {"service", "unread", "malformed"}
  /\ \A l \in Limits : l.max \in Nat /\ l.reserved \in Nat

VARIABLES
  said,    \* the environment of the deployment
  server,  \* the limits of the server
  proc,    \* where each process is
  pool,    \* the connections of the pool a process lends from, None before it opens
  leaked,  \* those of a pool that a process opened and no longer lends from
  opening, \* the task that holds the lock of the pool
  asks,    \* the tasks that found no pool and wait for the lock
  probes,  \* the processes that hold the connection that reads the limits
  hears,   \* the workers whose LISTEN connection is open
  outside  \* the connections that the other holders have

vars == <<said, server, proc, pool, leaked, opening, asks, probes, hears, outside>>

TypeOK ==
  /\ said \in Settings /\ server \in Limits
  /\ proc \in [Process -> {"down", "checks", "fails", "serves", "closes", "closed"}]
  /\ pool \in [Process -> Nat \union {None}]
  /\ leaked \in [Process -> Nat]
  /\ opening \in [Process -> Caller \union {None}]
  /\ asks \in [Process -> SUBSET Caller]
  /\ probes \subseteq Process /\ hears \subseteq Workers
  /\ outside \in 0..Outside

Init ==
  /\ said \in Settings /\ server \in Limits
  /\ proc = [p \in Process |-> "down"]
  /\ pool = [p \in Process |-> None]
  /\ leaked = [p \in Process |-> 0]
  /\ opening = [p \in Process |-> None]
  /\ asks = [p \in Process |-> {}]
  /\ probes = {} /\ hears = {} /\ outside = 0

-----------------------------------------------------------------------------
\* What the settings refuse.

InDevelopment == said.app = "development"

RefusesTimeouts(p) ==
  \/ said.timeouts = "bad"
  \/ said.timeouts = "long" /\ p \notin Workers

RefusesInstances ==
  \/ said.instances = NotACount
  \/ said.instances = Unset /\ ~InDevelopment

RefusesToBuild(p) ==
  \/ said.owner
  \/ said.url /\ (RefusesInstances \/ RefusesTimeouts(p))
  \/ ~said.url /\ (said.timeouts # "unset" \/ said.instances # Unset)

RefusesDevelopmentSettings == said.app = "other" \/ (~InDevelopment /\ ~said.url)

RefusesVersion == ~said.attributes

\* "service" is a variable that needs the endpoint, "unread" one that this process
\* does not read, "malformed" one that it cannot act on.
RefusesTelemetry ==
  IF said.endpoint = "unset" THEN "service" \in said.telemetry
  ELSE \/ said.endpoint = "other" \/ "service" \notin said.telemetry
       \/ "unread" \in said.telemetry \/ "malformed" \in said.telemetry

RefusesAdmission == ~said.admission

\* A process that exits before it holds a connection.
Refuses(p) ==
  \/ RefusesDevelopmentSettings \/ RefusesVersion \/ RefusesToBuild(p)
  \/ p \in Workers /\ ~said.url
  \/ p \notin Workers /\ (RefusesTelemetry \/ RefusesAdmission)

\* The processes that the deployment says hold connections at once, two in the
\* development loop.
Instances == IF said.instances = Unset THEN 2 ELSE said.instances

-----------------------------------------------------------------------------
\* The connection budget.

PerProcess == (server.max - server.reserved - Outside) \div Instances

\* Mutant: the budget counts only the pools.
MutantShareIsThePool == PerProcess

PoolSize == PerProcess - Beside

OverBudget == PoolSize < 1

\* The connections that a process holds.
Held(p) ==
  leaked[p] + (IF pool[p] = None THEN 0 ELSE pool[p])
    + (IF p \in probes THEN 1 ELSE 0) + (IF p \in hears THEN 1 ELSE 0)

-----------------------------------------------------------------------------
\* The platform, and the holders outside the processes.  It keeps no more
\* processes up than the deployment says.

Up == {p \in Process : proc[p] # "down"}

Start(p) ==
  /\ proc[p] = "down" /\ ~Refuses(p)
  /\ said.url => Cardinality(Up) < Instances
  /\ proc' = [proc EXCEPT ![p] = IF said.url THEN "checks" ELSE "serves"]
  /\ UNCHANGED <<said, server, pool, leaked, opening, asks, probes, hears, outside>>

\* The process exits, and the server closes what it held: after its start failed,
\* after its stop, or in a crash at any step.
Exit(p) ==
  /\ proc[p] # "down"
  /\ proc' = [proc EXCEPT ![p] = "down"]
  /\ pool' = [pool EXCEPT ![p] = None]
  /\ leaked' = [leaked EXCEPT ![p] = 0]
  /\ opening' = [opening EXCEPT ![p] = None]
  /\ asks' = [asks EXCEPT ![p] = {}]
  /\ probes' = probes \ {p} /\ hears' = hears \ {p}
  /\ UNCHANGED <<said, server, outside>>

Others ==
  /\ outside' \in 0..Outside
  /\ UNCHANGED <<said, server, proc, pool, leaked, opening, asks, probes, hears>>

-----------------------------------------------------------------------------
\* The one pool of a process.

\* A task finds no pool.  The check of the start asks alone.  After close(), work
\* that outlived its request may ask.
Ask(p, c) ==
  /\ said.url /\ pool[p] = None /\ c # opening[p] /\ c \notin asks[p]
  /\ \/ proc[p] = "checks" /\ opening[p] = None /\ asks[p] = {}
     \/ proc[p] = "closed" /\ p \notin Workers
  /\ asks' = [asks EXCEPT ![p] = @ \union {c}]
  /\ UNCHANGED <<said, server, proc, pool, leaked, opening, probes, hears, outside>>

\* Mutant: a task that got the lock opens a pool without looking again.
MutantOpensAgain(p) == TRUE

\* What a task that got the lock still has to open.
Opens(p) == pool[p] = None

\* The lock is handed to a task that waits: it reads the limits of the server on
\* a connection of its own, or finds that another task opened the pool.
Enter(p, c) ==
  /\ opening[p] = None /\ c \in asks[p]
  /\ asks' = [asks EXCEPT ![p] = @ \ {c}]
  /\ IF Opens(p)
     THEN /\ opening' = [opening EXCEPT ![p] = c]
          /\ probes' = probes \union {p}
     ELSE UNCHANGED <<opening, probes>>
  /\ UNCHANGED <<said, server, proc, pool, leaked, hears, outside>>

\* The connection that read the limits closes before the pool opens.
Budgeted(p) ==
  /\ p \in probes /\ ~OverBudget
  /\ probes' = probes \ {p}
  /\ UNCHANGED <<said, server, proc, pool, leaked, opening, asks, hears, outside>>

\* The pool opens with its least size, and the lock is free.
Create(p) ==
  /\ opening[p] # None /\ p \notin probes
  /\ leaked' = [leaked EXCEPT ![p] = @ + (IF pool[p] = None THEN 0 ELSE pool[p])]
  /\ pool' = [pool EXCEPT ![p] = 1]
  /\ opening' = [opening EXCEPT ![p] = None]
  /\ UNCHANGED <<said, server, proc, asks, probes, hears, outside>>

\* The server cannot be reached, the draws do not fit, or the task is cancelled:
\* the lock and the connection that reads the limits end with the task.  A start
\* that fails here ends the process.
Fail(p) ==
  /\ opening[p] # None
  /\ opening' = [opening EXCEPT ![p] = None]
  /\ probes' = probes \ {p}
  /\ proc' = [proc EXCEPT ![p] = IF @ = "checks" THEN "fails" ELSE @]
  /\ UNCHANGED <<said, server, pool, leaked, asks, hears, outside>>

\* asyncpg opens one more for a task that finds none free, and closes an idle one.
Resize(p) ==
  /\ pool[p] # None
  /\ \/ pool[p] < PoolSize /\ pool' = [pool EXCEPT ![p] = @ + 1]
     \/ pool[p] > 0 /\ pool' = [pool EXCEPT ![p] = @ - 1]
  /\ UNCHANGED <<said, server, proc, leaked, opening, asks, probes, hears, outside>>

-----------------------------------------------------------------------------
\* The life of a process.

\* The check of the schema answers.
Serve(p) ==
  /\ proc[p] = "checks" /\ pool[p] # None
  /\ proc' = [proc EXCEPT ![p] = "serves"]
  /\ UNCHANGED <<said, server, pool, leaked, opening, asks, probes, hears, outside>>

\* The check raises.  The worker closes its pool.  The web process leaves its pool
\* to the exit: what closes it starts after the check.
FailCheck(p) ==
  /\ proc[p] = "checks" /\ pool[p] # None
  /\ proc' = [proc EXCEPT ![p] = "fails"]
  /\ pool' = IF p \in Workers THEN [pool EXCEPT ![p] = None] ELSE pool
  /\ UNCHANGED <<said, server, leaked, opening, asks, probes, hears, outside>>

Listen(p) ==
  /\ p \in Workers /\ proc[p] = "serves"
  /\ hears' = IF p \in hears THEN hears \ {p} ELSE hears \union {p}
  /\ UNCHANGED <<said, server, proc, pool, leaked, opening, asks, probes, outside>>

\* A signal: the worker cancels its work, which ends what listens.
Stop(p) ==
  /\ proc[p] = "serves"
  /\ proc' = [proc EXCEPT ![p] = "closes"]
  /\ hears' = hears \ {p}
  /\ UNCHANGED <<said, server, pool, leaked, opening, asks, probes, outside>>

\* close() forgets the pool once it is closed.  In the web process a task that
\* outlived the requests may open it again before the process exits.
Close(p) ==
  /\ proc[p] = "closes"
  /\ proc' = [proc EXCEPT ![p] = "closed"]
  /\ pool' = [pool EXCEPT ![p] = None]
  /\ UNCHANGED <<said, server, leaked, opening, asks, probes, hears, outside>>

Opening(p) ==
  \/ \E c \in Caller : Ask(p, c) \/ Enter(p, c)
  \/ Budgeted(p) \/ Create(p) \/ Fail(p) \/ Resize(p)

Next ==
  \/ Others
  \/ \E p \in Process :
       \/ Start(p) \/ Exit(p) \/ Opening(p)
       \/ Serve(p) \/ FailCheck(p) \/ Listen(p) \/ Stop(p) \/ Close(p)

Spec == Init /\ [][Next]_vars

-----------------------------------------------------------------------------
\* The processes and the other holders never hold more connections than the server
\* allows them, while each process that runs got a budget: with a rollout, a worker
\* and its LISTEN connection, the probe, and a pool opened again after close()
\* (store/budget.py: budgeted; store/pg.py: pool, _budgeted).
ConnectionsFit ==
  Up # {} /\ said.url /\ ~OverBudget =>
    outside + MapThenSumSet(Held, Process) <= server.max - server.reserved

\* Each process keeps to its share, whatever the others do.
ShareIsKept ==
  \A p \in Process : proc[p] # "down" /\ said.url /\ ~OverBudget => Held(p) <= PerProcess

\* No process opens a pool while it lends from one: the connections of the first
\* would stay open with nothing that closes them (store/pg.py: pool).
NoPoolIsLeaked == \A p \in Process : leaked[p] = 0

=============================================================================
