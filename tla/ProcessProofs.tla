--------------------------- MODULE ProcessProofs ----------------------------
(***************************************************************************)
(* The parts of the backend's processes that share no state, for every     *)
(* value of their constants: the processes of a deployment and their       *)
(* connections (Deployment), the watch of the event loop (LoopWatch), the  *)
(* jobs of the in-memory substrate (MemoryJobs), and the pages of a list   *)
(* that changes under its reader (Pages).                                  *)
(***************************************************************************)
EXTENDS MCProcess, FiniteSetTheorems, SequenceTheorems, WellFoundedInduction, TLAPS

-----------------------------------------------------------------------------
\* Numbers, and sums over a set.

\* A set of numbers that is not empty has a smallest: what induction needs.
LEMMA SmallestNumber ==
  ASSUME NEW T \in SUBSET Nat, T # {}
  PROVE  \E n \in T : \A m \in T : n <= m
<1>1. PICK n \in T : \A m \in T : ~(<<m, n>> \in OpToRel(<, Nat))
  BY WFMin, NatLessThanWellFounded, Zenon
<1>2. \A m \in T : ~(m < n)
  BY <1>1 DEF OpToRel
<1> QED
  BY <1>2

\* What MapThenSumSet picks of a set, and the sum of h over the subsets of P, one
\* element taken away after another.
First(s) == CHOOSE x \in s : TRUE
IsSum(f, h, P) ==
  f = [s \in SUBSET P |-> IF s = {} THEN 0 ELSE h[First(s)] + f[s \ {First(s)}]]

LEMMA FirstIsIn == ASSUME NEW s, s # {} PROVE First(s) \in s
BY DEF First

SumsTo(f, h, P, n) ==
  /\ f \in [SUBSET P -> Int]
  /\ \A s \in SUBSET P : Cardinality(s) <= n =>
       f[s] = IF s = {} THEN 0 ELSE h[First(s)] + f[s \ {First(s)}]

LEMMA SumsOfFewer ==
  ASSUME NEW P, IsFiniteSet(P), NEW h \in [P -> Int], NEW n \in Nat
  PROVE  \E f : SumsTo(f, h, P, n)
<1> DEFINE T == {m \in Nat : ~\E f : SumsTo(f, h, P, m)}
<1> SUFFICES ASSUME T # {} PROVE FALSE
  OBVIOUS
<1>1. PICK m \in T : \A k \in T : m <= k
  <2> HIDE DEF T
  <2> QED
    BY SmallestNumber DEF T
<1>5. m \in Nat /\ ~\E f : SumsTo(f, h, P, m)
  OBVIOUS
<1>2. CASE m = 0
  <2>1. SumsTo([s \in SUBSET P |-> 0], h, P, 0)
    <3>1. \A s \in SUBSET P : Cardinality(s) <= 0 => s = {}
      BY FS_Subset, FS_EmptySet, FS_CardinalityType
    <3> QED
      BY <3>1 DEF SumsTo
  <2> QED
    BY <2>1, <1>2, <1>5
<1>3. CASE m # 0
  <2>1. m - 1 \in Nat /\ m - 1 \notin T
    BY <1>1, <1>3, <1>5
  <2>2. PICK g : SumsTo(g, h, P, m - 1)
    BY <2>1
  <2> DEFINE f == [s \in SUBSET P |-> IF s = {} THEN 0 ELSE h[First(s)] + g[s \ {First(s)}]]
  <2>3. f \in [SUBSET P -> Int]
    BY <2>2, FirstIsIn DEF SumsTo
  <2>4. ASSUME NEW s \in SUBSET P, Cardinality(s) <= m, s # {}
        PROVE  f[s] = h[First(s)] + f[s \ {First(s)}]
    <3> DEFINE t == s \ {First(s)}
    <3>1. t \in SUBSET P /\ Cardinality(t) <= m - 1
      <4>1. IsFiniteSet(s) /\ Cardinality(s) \in Nat
        BY FS_Subset, FS_CardinalityType
      <4>2. Cardinality(t) = Cardinality(s) - 1
        BY <4>1, <2>4, FirstIsIn, FS_RemoveElement
      <4> QED
        BY <4>1, <4>2, <2>4, <1>5
    <3>2. g[t] = IF t = {} THEN 0 ELSE h[First(t)] + g[t \ {First(t)}]
      BY <3>1, <2>2 DEF SumsTo
    <3>3. f[t] = g[t]
      BY <3>1, <3>2
    <3> HIDE DEF t
    <3>4. f[s] = h[First(s)] + g[t]
      BY <2>4 DEF t
    <3> QED
      BY <3>3, <3>4 DEF t
  <2>5. SumsTo(f, h, P, m)
    <3>1. f[{}] = 0
      OBVIOUS
    <3> HIDE DEF f
    <3> QED
      BY <2>3, <2>4, <3>1 DEF SumsTo
  <2> QED
    BY <2>5, <1>5
<1> QED
  BY <1>2, <1>3

LEMMA SumExists ==
  ASSUME NEW P, IsFiniteSet(P), NEW h \in [P -> Int]
  PROVE  \E f : IsSum(f, h, P) /\ f \in [SUBSET P -> Int]
<1>1. Cardinality(P) \in Nat
  BY FS_CardinalityType
<1>2. PICK f : SumsTo(f, h, P, Cardinality(P))
  BY <1>1, SumsOfFewer
<1>3. \A s \in SUBSET P : Cardinality(s) <= Cardinality(P)
  BY FS_Subset
<1> QED
  BY <1>2, <1>3 DEF SumsTo, IsSum

LEMMA SumIsBounded ==
  ASSUME NEW P, IsFiniteSet(P), NEW h \in [P -> Int], NEW most \in Nat,
         NEW U \in SUBSET P,
         \A p \in P : h[p] <= IF p \in U THEN most ELSE 0,
         NEW f, IsSum(f, h, P)
  PROVE  f[P] \in Int /\ f[P] <= Cardinality(U) * most
<1> DEFINE Holds(s) == f[s] \in Int /\ f[s] <= Cardinality(s \cap U) * most
           T == {Cardinality(s) : s \in {s \in SUBSET P : ~Holds(s)}}
<1>0. \A s \in SUBSET P : IsFiniteSet(s) /\ Cardinality(s) \in Nat
  BY FS_Subset, FS_CardinalityType
<1>1. SUFFICES ASSUME T # {} PROVE FALSE
  <2>1. P \cap U = U /\ P \in SUBSET P
    OBVIOUS
  <2>2. ~Holds(P) => Cardinality(P) \in T
    BY <2>1
  <2>3. Holds(P) => f[P] \in Int /\ f[P] <= Cardinality(U) * most
    BY <2>1
  <2> HIDE DEF T, Holds
  <2> QED
    BY <2>2, <2>3
<1>2. T \in SUBSET Nat
  BY <1>0
<1>3. PICK n \in T : \A m \in T : n <= m
  <2> HIDE DEF T
  <2> QED
    BY <1>1, <1>2, SmallestNumber
<1>4. PICK s \in SUBSET P : n = Cardinality(s) /\ ~Holds(s)
  OBVIOUS
<1>5. \A t \in SUBSET P : Cardinality(t) < n => Holds(t)
  <2> SUFFICES ASSUME NEW t \in SUBSET P, Cardinality(t) < n, ~Holds(t) PROVE FALSE
    BY Zenon
  <2>1. Cardinality(t) \in T
    OBVIOUS
  <2>2. n \in Nat /\ Cardinality(t) \in Nat
    BY <1>2, <1>3, <1>0
  <2> HIDE DEF T
  <2> QED
    BY <2>1, <2>2, <1>3
<1>6. s # {}
  <2>1. f[{}] = 0
    BY DEF IsSum
  <2>2. Cardinality({} \cap U) = 0 /\ 0 * most = 0
    <3>1. {} \cap U = {}
      OBVIOUS
    <3> QED
      BY <3>1, FS_EmptySet
  <2>3. Holds({})
    BY <2>1, <2>2
  <2> HIDE DEF Holds
  <2> QED
    BY <2>3, <1>4
<1> DEFINE x == First(s)
           t == s \ {x}
<1>7. x \in s /\ x \in P
  BY <1>6, FirstIsIn
<1>8. f[s] = h[x] + f[t]
  BY <1>6 DEF IsSum
<1>9. t \in SUBSET P /\ Cardinality(t) < n
  <2>1. Cardinality(t) = Cardinality(s) - 1
    BY <1>7, <1>0, FS_RemoveElement
  <2> QED
    BY <2>1, <1>4, <1>0
<1> HIDE DEF x, t
<1>10. f[t] \in Int /\ f[t] <= Cardinality(t \cap U) * most
  BY <1>5, <1>9
<1> DEFINE k == Cardinality(t \cap U)
<1>11. k \in Nat
  BY <1>0, <1>9
<1>12. Cardinality(s \cap U) = IF x \in U THEN k + 1 ELSE k
  <2>1. CASE x \in U
    <3>1. s \cap U = (t \cap U) \union {x} /\ x \notin t \cap U
      BY <2>1, <1>7 DEF t
    <3> QED
      BY <3>1, <2>1, <1>0, <1>9, FS_AddElement
  <2>2. CASE x \notin U
    <3>1. s \cap U = t \cap U
      BY <2>2 DEF t
    <3> QED
      BY <3>1, <2>2
  <2> QED
    BY <2>1, <2>2
<1>13. (k + 1) * most = k * most + most /\ k * most \in Int
  BY <1>11
<1>14. f[s] \in Int /\ f[t] \in Int /\ h[x] \in Int
  BY <1>7, <1>8, <1>10
<1>15. Holds(s)
  <2>1. CASE x \in U
    <3>1. h[x] <= most
      BY <2>1, <1>7
    <3>2. Cardinality(s \cap U) * most = k * most + most
      BY <1>12, <1>13, <2>1
    <3> QED
      BY <3>1, <3>2, <1>8, <1>10, <1>13, <1>14
  <2>2. CASE x \notin U
    <3>1. h[x] <= 0
      BY <2>2, <1>7
    <3> QED
      BY <3>1, <2>2, <1>8, <1>10, <1>12, <1>13, <1>14
  <2> QED
    BY <2>1, <2>2
<1> QED
  BY <1>15, <1>4

-----------------------------------------------------------------------------
\* The processes of a deployment.

\* While a task has the lock there is no pool, the connection that reads the limits
\* goes with the lock, and the check of the start is the only task that asks then.
OpenerIsAlone ==
  \A p \in Process :
    /\ opening[p] # None => pool[p] = None /\ proc[p] \in {"checks", "closed"}
    /\ p \in probes => opening[p] # None
    /\ p \in hears => proc[p] = "serves"
    /\ asks[p] # {} => proc[p] \in {"checks", "closed"}
    /\ asks[p] # {} /\ proc[p] = "checks" => opening[p] = None /\ pool[p] = None
    /\ proc[p] = "checks" => \A c, d \in asks[p] : c = d

\* A process is up only under settings that let it start, and opens a pool only
\* under a budget that has one for it.
PoolFits ==
  \A p \in Process :
    /\ proc[p] # "down" => ~Refuses(p)
    /\ asks[p] # {} \/ opening[p] # None \/ pool[p] # None => said.url /\ proc[p] # "down"
    /\ opening[p] # None /\ p \notin probes => ~OverBudget
    /\ pool[p] # None => pool[p] <= PoolSize

PoolInv == TypeOK /\ NoPoolIsLeaked /\ OpenerIsAlone /\ PoolFits

-----------------------------------------------------------------------------
\* The size of the pool is a number under settings that let a process start.
LEMMA SizeIsANumber ==
  ASSUME DeploymentAssumption, TypeOK, NEW p \in Process, ~Refuses(p), said.url
  PROVE  PerProcess \in Int /\ PoolSize \in Int
<1>1. Instances \in Nat \ {0}
  BY
  DEF DeploymentAssumption, TypeOK, Refuses, RefusesDevelopmentSettings, RefusesToBuild, RefusesInstances,
      Instances,
         Unset, NotACount
<1>2. server.max - server.reserved - Outside \in Int
  BY DEF DeploymentAssumption, TypeOK
<1>3. PerProcess \in Int
  BY <1>1, <1>2 DEF PerProcess
<1> QED
  BY <1>3 DEF PoolSize, DeploymentAssumption

LEMMA PoolBegins == ASSUME DeploymentAssumption, Init PROVE PoolInv
BY DEF DeploymentAssumption, Init, PoolInv, TypeOK, NoPoolIsLeaked, OpenerIsAlone, PoolFits

\* What the settings refuse does not change.
LEMMA SettingsStay ==
  ASSUME said' = said, server' = server
  PROVE  /\ \A p \in Process : Refuses(p)' = Refuses(p)
         /\ PoolSize' = PoolSize /\ OverBudget' = OverBudget
BY DEF Refuses, RefusesDevelopmentSettings, RefusesVersion, RefusesTelemetry, RefusesAdmission,
       RefusesToBuild, RefusesInstances, RefusesTimeouts, InDevelopment,
       PoolSize, PerProcess, Instances, OverBudget

LEMMA ProcessesKeepPoolInv ==
  ASSUME DeploymentAssumption, PoolInv, NEW p \in Process,
         Start(p) \/ Exit(p) \/ Serve(p) \/ FailCheck(p) \/ Listen(p) \/ Stop(p) \/ Close(p)
  PROVE  PoolInv'
<1>1. said' = said /\ server' = server
  BY DEF Start, Exit, Serve, FailCheck, Listen, Stop, Close
<1>2. CASE Start(p)
  BY <1>1, <1>2, SettingsStay
  DEF Start, PoolInv, TypeOK, NoPoolIsLeaked, OpenerIsAlone, PoolFits,
      DeploymentAssumption
<1>3. CASE Exit(p)
  BY <1>1, <1>3, SettingsStay
  DEF Exit, PoolInv, TypeOK, NoPoolIsLeaked, OpenerIsAlone, PoolFits,
      DeploymentAssumption
<1>4. CASE Serve(p)
  BY <1>1, <1>4, SettingsStay
  DEF Serve, PoolInv, TypeOK, NoPoolIsLeaked, OpenerIsAlone, PoolFits,
      DeploymentAssumption
<1>5. CASE FailCheck(p)
  BY <1>1, <1>5, SettingsStay
  DEF FailCheck, PoolInv, TypeOK, NoPoolIsLeaked, OpenerIsAlone, PoolFits,
      DeploymentAssumption
<1>6. CASE Listen(p)
  BY <1>1, <1>6, SettingsStay
  DEF Listen, PoolInv, TypeOK, NoPoolIsLeaked, OpenerIsAlone, PoolFits,
      DeploymentAssumption
<1>7. CASE Stop(p)
  BY <1>1, <1>7, SettingsStay
  DEF Stop, PoolInv, TypeOK, NoPoolIsLeaked, OpenerIsAlone, PoolFits,
      DeploymentAssumption
<1>8. CASE Close(p)
  BY <1>1, <1>8, SettingsStay
  DEF Close, PoolInv, TypeOK, NoPoolIsLeaked, OpenerIsAlone, PoolFits,
      DeploymentAssumption
<1> QED
  BY <1>2, <1>3, <1>4, <1>5, <1>6, <1>7, <1>8

LEMMA OpeningKeepsPoolInv ==
  ASSUME DeploymentAssumption, PoolInv, NEW p \in Process, Opening(p)
  PROVE  PoolInv'
<1>1. said' = said /\ server' = server
  BY DEF Opening, Ask, Enter, Budgeted, Create, Fail, Resize
<1>2. ASSUME NEW c \in Caller, Ask(p, c) PROVE PoolInv'
  BY <1>1, <1>2, SettingsStay
  DEF Ask, PoolInv, TypeOK, NoPoolIsLeaked, OpenerIsAlone, PoolFits, DeploymentAssumption
<1>3. ASSUME NEW c \in Caller, Enter(p, c) PROVE PoolInv'
  <2>1. /\ asks' \in [Process -> SUBSET Caller]
        /\ asks[p] # {} /\ \A q \in Process : asks'[q] # {} => asks[q] # {}
        /\ c # None
    BY <1>3 DEF Enter, PoolInv, TypeOK, DeploymentAssumption
  <2>2. opening[p] = None /\ proc[p] \in {"checks", "closed"} /\ said.url /\ p \notin probes
    BY <2>1, <1>3 DEF Enter, PoolInv, OpenerIsAlone, PoolFits
  <2>3. CASE pool[p] = None
    <3>1. opening' = [opening EXCEPT ![p] = c] /\ probes' = probes \union {p}
      BY <2>3, <1>3 DEF Enter, Opens
    <3>2. TypeOK' /\ NoPoolIsLeaked'
      BY <3>1, <2>1, <1>3 DEF Enter, PoolInv, TypeOK, NoPoolIsLeaked
    <3>3. OpenerIsAlone'
      <4>1. proc[p] = "checks" => asks'[p] = {}
        BY <1>3 DEF Enter, PoolInv, TypeOK, OpenerIsAlone
      <4> QED
        BY <4>1, <3>1, <2>1, <2>2, <2>3, <1>3 DEF Enter, PoolInv, TypeOK, OpenerIsAlone
    <3>4. PoolFits'
      BY <3>1, <2>1, <2>2, <2>3, <1>1, <1>3, SettingsStay
      DEF Enter, PoolInv, TypeOK, PoolFits
    <3> QED
      BY <3>2, <3>3, <3>4 DEF PoolInv
  <2>4. CASE pool[p] # None
    BY <2>1, <2>4, <1>1, <1>3, SettingsStay
    DEF Enter, Opens, PoolInv, TypeOK, NoPoolIsLeaked, OpenerIsAlone, PoolFits
  <2> QED
    BY <2>3, <2>4
<1>4. CASE Budgeted(p)
  BY <1>1, <1>4, SettingsStay
  DEF Budgeted, PoolInv, TypeOK, NoPoolIsLeaked, OpenerIsAlone, PoolFits,
      DeploymentAssumption
<1>5. CASE Create(p)
  BY <1>1, <1>5, SettingsStay, SizeIsANumber
  DEF Create, OverBudget, PoolInv, TypeOK, NoPoolIsLeaked, OpenerIsAlone, PoolFits,
      DeploymentAssumption
<1>6. CASE Fail(p)
  BY <1>1, <1>6, SettingsStay
  DEF Fail, PoolInv, TypeOK, NoPoolIsLeaked, OpenerIsAlone, PoolFits,
      DeploymentAssumption
<1>7. CASE Resize(p)
  BY <1>1, <1>7, SettingsStay, SizeIsANumber
  DEF Resize, PoolInv, TypeOK, NoPoolIsLeaked, OpenerIsAlone, PoolFits,
      DeploymentAssumption
<1> QED
  BY <1>2, <1>3, <1>4, <1>5, <1>6, <1>7 DEF Opening

-----------------------------------------------------------------------------
\* No more than one task opens the pool, and each pool that is open fits the budget,
\* in every reachable state.
THEOREM PoolInductive == Spec => []PoolInv
<1> USE DeploymentAssumption
<1>1. Init => PoolInv
  BY PoolBegins
<1>2. PoolInv /\ [Next]_vars => PoolInv'
  <2> SUFFICES ASSUME PoolInv, [Next]_vars PROVE PoolInv'
    OBVIOUS
  <2>1. CASE Others
    BY <2>1, SettingsStay
    DEF Others, PoolInv, TypeOK, NoPoolIsLeaked, OpenerIsAlone, PoolFits
  <2>2. ASSUME NEW p \in Process,
               Start(p) \/ Exit(p) \/ Serve(p) \/ FailCheck(p) \/ Listen(p) \/ Stop(p) \/ Close(p)
        PROVE PoolInv'
    BY <2>2, ProcessesKeepPoolInv
  <2>3. ASSUME NEW p \in Process, Opening(p) PROVE PoolInv'
    BY <2>3, OpeningKeepsPoolInv
  <2>4. CASE UNCHANGED vars
    BY <2>4, SettingsStay
    DEF vars, PoolInv, TypeOK, NoPoolIsLeaked, OpenerIsAlone, PoolFits
  <2> QED
    BY <2>1, <2>2, <2>3, <2>4 DEF Next
<1> QED
  BY <1>1, <1>2, PTL DEF Spec

\* The variables keep to their types, so a pool never has fewer than no connections.
THEOREM DeploymentTypeCorrect == Spec => []TypeOK
<1>1. PoolInv => TypeOK
  BY DEF PoolInv
<1> QED
  BY <1>1, PoolInductive, PTL

\* However many tasks ask for the pool at once, before a process serves and after
\* close(), a process never loses a pool that it opened (store/pg.py: pool).
THEOREM NoPoolIsEverLeaked == Spec => []NoPoolIsLeaked
<1>1. PoolInv => NoPoolIsLeaked
  BY DEF PoolInv
<1> QED
  BY <1>1, PoolInductive, PTL

LEMMA SharesFit == ASSUME DeploymentAssumption, PoolInv PROVE ShareIsKept
<1> SUFFICES ASSUME NEW p \in Process, proc[p] # "down", said.url, ~OverBudget
             PROVE  Held(p) <= PerProcess
  BY DEF ShareIsKept
<1>1. PerProcess \in Int /\ PoolSize \in Int /\ PoolSize >= 1 /\ Beside \in Nat \ {0}
  BY SizeIsANumber DEF PoolInv, PoolFits, OverBudget, DeploymentAssumption
<1>2. PerProcess >= PoolSize + 1 /\ PerProcess >= 2
  BY <1>1 DEF PoolSize
<1>3. CASE opening[p] # None
  BY <1>2, <1>1, <1>3 DEF Held, PoolInv, NoPoolIsLeaked, OpenerIsAlone, TypeOK
<1>4. CASE opening[p] = None
  <2>1. p \notin probes /\ leaked[p] = 0
    BY <1>4 DEF PoolInv, OpenerIsAlone, NoPoolIsLeaked
  <2>2. pool[p] = None \/ (pool[p] \in Nat /\ pool[p] <= PoolSize)
    BY DEF PoolInv, TypeOK, PoolFits
  <2> QED
    BY <2>1, <2>2, <1>1, <1>2 DEF Held
<1> QED
  BY <1>3, <1>4

\* Each process that runs under a budget holds no more than its share, whatever the
\* others do: the pool, the LISTEN connection and the connection that reads the
\* limits together (store/budget.py: budgeted).
THEOREM SharesAreKept == Spec => []ShareIsKept
<1>1. PoolInv => ShareIsKept
  BY DeploymentAssumption, SharesFit
<1> QED
  BY <1>1, PoolInductive, PTL

-----------------------------------------------------------------------------
\* What a property says of the sum of the connections, said of a function that
\* sums them.
LEMMA SumOfHeld ==
  ASSUME NEW most \in Nat, NEW U \in SUBSET Process, IsFiniteSet(Process),
         \A p \in Process : Held(p) \in Int /\ Held(p) <= IF p \in U THEN most ELSE 0
  PROVE  /\ MapThenSumSet(Held, Process) \in Int
         /\ MapThenSumSet(Held, Process) <= Cardinality(U) * most
<1> DEFINE h == [p \in Process |-> Held(p)]
           Adds(f) == f = [s \in SUBSET Process |->
                             IF s = {} THEN 0 ELSE Held(First(s)) + f[s \ {First(s)}]]
           it == CHOOSE f : Adds(f)
<1>1. \A f : Adds(f) <=> IsSum(f, h, Process)
  <2>1. \A s \in SUBSET Process : s # {} => h[First(s)] = Held(First(s))
    BY FirstIsIn
  <2> HIDE DEF h
  <2>2. \A f : [s \in SUBSET Process |-> IF s = {} THEN 0 ELSE Held(First(s)) + f[s \ {First(s)}]]
             = [s \in SUBSET Process |-> IF s = {} THEN 0 ELSE h[First(s)] + f[s \ {First(s)}]]
    BY <2>1
  <2> QED
    BY <2>2 DEF IsSum
<1>2. h \in [Process -> Int]
  OBVIOUS
<1>3. Adds(it)
  <2>1. \E f : IsSum(f, h, Process)
    BY <1>2, SumExists
  <2> HIDE DEF h, Adds
  <2> QED
    BY <2>1, <1>1
<1>4. MapThenSumSet(Held, Process) = it[Process]
  BY DEF MapThenSumSet, MapThenFoldSet, First
<1>5. \A p \in Process : h[p] <= IF p \in U THEN most ELSE 0
  OBVIOUS
<1>6. IsSum(it, h, Process)
  BY <1>1, <1>3
<1> HIDE DEF h, it
<1>7. it[Process] \in Int /\ it[Process] <= Cardinality(U) * most
  BY <1>2, <1>5, <1>6, SumIsBounded
<1> QED
  BY <1>4, <1>7

-----------------------------------------------------------------------------
\* The platform keeps no more processes up than the deployment says.
UpFits == Up # {} /\ said.url => Cardinality(Up) <= Instances

LEMMA UpKept == ASSUME DeploymentAssumption, PoolInv, UpFits, [Next]_vars PROVE UpFits'
<1>1. said' = said /\ Instances' = Instances
  BY DEF Next, Others, Opening, Start, Exit, Ask, Enter, Budgeted, Create, Fail, Resize,
         Serve, FailCheck, Listen, Stop, Close, vars, Instances
<1>2. IsFiniteSet(Up) /\ Cardinality(Up) \in Nat
  BY FS_Subset, FS_CardinalityType DEF Up, DeploymentAssumption
<1>3. ASSUME NEW p \in Process, Start(p) PROVE UpFits'
  <2>1. Up' = Up \union {p}
    BY <1>3 DEF Start, Up, PoolInv, TypeOK
  <2>2. Cardinality(Up') = Cardinality(Up) + 1
    <3>1. p \notin Up
      BY <1>3 DEF Start, Up
    <3>2. Cardinality(Up \union {p}) = IF p \in Up THEN Cardinality(Up) ELSE Cardinality(Up) + 1
      BY <1>2, FS_AddElement
    <3> QED
      BY <2>1, <3>1, <3>2
  <2>3. said.url => Cardinality(Up) + 1 <= Instances
    <3>1. said.url => Instances \in Nat
      BY <1>3
      DEF Start, Refuses, RefusesToBuild, RefusesInstances, Instances, PoolInv, TypeOK,
          DeploymentAssumption, Unset, NotACount
    <3> QED
      BY <3>1, <1>2, <1>3 DEF Start
  <2>4. said.url => Instances \in Int
    BY <1>3
    DEF Start, Refuses, RefusesToBuild, RefusesInstances, Instances, PoolInv, TypeOK,
        DeploymentAssumption, Unset, NotACount
  <2> QED
    BY <2>2, <2>3, <2>4, <1>1, <1>2 DEF UpFits
<1>4. CASE Up' \subseteq Up
  <2>1. Cardinality(Up') <= Cardinality(Up) /\ Cardinality(Up') \in Nat
    BY <1>2, <1>4, FS_Subset, FS_CardinalityType
  <2>2. said.url /\ Up # {} => Instances \in Int
    BY
    DEF Up, PoolInv, PoolFits, Refuses, RefusesToBuild, RefusesInstances, Instances, TypeOK,
        DeploymentAssumption, Unset, NotACount
  <2> QED
    BY <2>1, <2>2, <1>1, <1>2, <1>4 DEF UpFits
<1>5. ASSUME ~\E p \in Process : Start(p) PROVE Up' \subseteq Up
  BY <1>5
  DEF Next, Others, Opening, Exit, Ask, Enter, Budgeted, Create, Fail, Resize,
      Serve, FailCheck, Listen, Stop, Close, vars, Up, PoolInv, TypeOK
<1> QED
  BY <1>3, <1>4, <1>5

\* However many processes run, whatever each of them does, and whoever else holds
\* connections, together they hold no more than the server allows them
\* (store/budget.py: budgeted).
THEOREM ConnectionsAlwaysFit == Spec => []ConnectionsFit
<1> USE DeploymentAssumption
<1>1. Init => UpFits
  BY DEF Init, UpFits, Up
<1>2. PoolInv /\ UpFits /\ [Next]_vars => UpFits'
  BY UpKept
<1>3. PoolInv /\ UpFits => ConnectionsFit
  <2> SUFFICES ASSUME PoolInv, UpFits, Up # {}, said.url, ~OverBudget
               PROVE  outside + MapThenSumSet(Held, Process) <= server.max - server.reserved
    BY DEF ConnectionsFit
  <2>1. PICK q \in Process : ~Refuses(q)
    BY DEF Up, PoolInv, PoolFits
  <2>2. PerProcess \in Nat
    BY <2>1, SizeIsANumber DEF PoolInv, OverBudget, PoolSize, DeploymentAssumption
  <2>3. Instances \in Nat \ {0}
    BY <2>1
    DEF Refuses, RefusesToBuild, RefusesInstances, Instances, PoolInv, TypeOK,
        DeploymentAssumption, Unset, NotACount
  <2>4. Up \in SUBSET Process /\ Cardinality(Up) \in Nat /\ Cardinality(Up) <= Instances
    BY FS_Subset, FS_CardinalityType DEF UpFits, Up, DeploymentAssumption
  <2>5. \A p \in Process : Held(p) \in Int /\ Held(p) <= IF p \in Up THEN PerProcess ELSE 0
    <3> SUFFICES ASSUME NEW p \in Process
                 PROVE  Held(p) \in Int /\ Held(p) <= IF p \in Up THEN PerProcess ELSE 0
      OBVIOUS
    <3>1. Held(p) \in Int
      BY DEF Held, PoolInv, TypeOK
    <3>2. CASE p \in Up
      BY <3>1, <3>2, SharesFit DEF ShareIsKept, Up
    <3>3. CASE p \notin Up
      BY <3>3 DEF Held, Up, PoolInv, TypeOK, NoPoolIsLeaked, OpenerIsAlone, PoolFits
    <3> QED
      BY <3>1, <3>2, <3>3
  <2>6. /\ MapThenSumSet(Held, Process) \in Int
        /\ MapThenSumSet(Held, Process) <= Cardinality(Up) * PerProcess
    BY <2>2, <2>4, <2>5, SumOfHeld DEF DeploymentAssumption
  <2>7. Cardinality(Up) * PerProcess <= Instances * PerProcess
    BY <2>2, <2>3, <2>4
  <2>8. Instances * PerProcess <= server.max - server.reserved - Outside
    <3>1. server.max - server.reserved - Outside \in Int
      BY DEF DeploymentAssumption, PoolInv, TypeOK
    <3> QED
      BY <3>1, <2>3 DEF PerProcess
  <2>9. outside <= Outside /\ outside \in Int /\ Outside \in Int
    BY DEF PoolInv, TypeOK, DeploymentAssumption
  <2>10. server.max \in Int /\ server.reserved \in Int
    BY DEF DeploymentAssumption, PoolInv, TypeOK
  <2>11. Cardinality(Up) * PerProcess \in Int /\ Instances * PerProcess \in Int
    BY <2>2, <2>3, <2>4
  <2> QED
    BY <2>6, <2>7, <2>8, <2>9, <2>10, <2>11
<1> QED
  BY <1>1, <1>2, <1>3, PoolInductive, PTL DEF Spec

-----------------------------------------------------------------------------
\* The watch of the event loop.

\* What was seen or read for the tick that is expected was seen while it was overdue.
\* What was seen for an earlier tick may have been seen after that tick.
OfTheHold(s) == s # None => s.for <= due /\ (s.for = due => s.tick = due /\ s.pace = "late")

WatchInv ==
  /\ Watch!TypeOK
  /\ FramesAreOfTheHold
  /\ OfTheHold(seen)
  /\ tick = "runs" => OfTheHold(read)
  /\ lookDue <= due
  /\ look = "finds" /\ lookDue = due => pace = "late"
  /\ look = "writes" /\ lookDue = due => frame.tick = due /\ frame.pace = "late"

LEMMA WatchBegins == Watch!Init => WatchInv
BY
DEF Watch!Init, Watch!Place, WatchInv, Watch!TypeOK, Watch!Sight, Watch!Paces,
    FramesAreOfTheHold, Watch!FramesAreOfTheHold, OfTheHold

LEMMA TicksKeepWatchInv ==
  ASSUME WatchInv, Watch!Overdue \/ Watch!Ticked \/ Watch!Report \/ Watch!Exit
  PROVE  WatchInv'
<1> USE
    DEF WatchInv, Watch!TypeOK, Watch!Sight, Watch!Paces, OfTheHold, FramesAreOfTheHold,
        Watch!FramesAreOfTheHold
<1>1. CASE Watch!Overdue
  BY <1>1 DEF Watch!Overdue
<1>2. CASE Watch!Ticked
  BY <1>2 DEF Watch!Ticked
<1>3. CASE Watch!Report
  <2>1. due' = due + 1 /\ due' \in Nat /\ pace' = "due" /\ tick' = "expected"
    BY <1>3 DEF Watch!Report
  <2>2. Watch!Names(read) \in Watch!Sight /\ (Watch!Names(read) # None =>
        Watch!Names(read).tick = Watch!Names(read).for /\ Watch!Names(read).pace = "late")
    BY <1>3 DEF Watch!Report, Watch!Names
  <2>3. named' \in Watch!Sight /\ FramesAreOfTheHold'
    BY <1>3, <2>2 DEF Watch!Report
  <2>4. OfTheHold(seen)'
    BY <1>3, <2>1 DEF Watch!Report
  <2> QED
    BY <1>3, <2>1, <2>3, <2>4 DEF Watch!Report
<1>4. CASE Watch!Exit
  BY <1>4 DEF Watch!Exit
<1> QED
  BY <1>1, <1>2, <1>3, <1>4

LEMMA LooksKeepWatchInv ==
  ASSUME WatchInv, Watch!ReadDue \/ Watch!Look \/ Watch!Find \/ Watch!Keep
  PROVE  WatchInv'
<1> USE
    DEF WatchInv, Watch!TypeOK, Watch!Sight, Watch!Paces, OfTheHold, FramesAreOfTheHold,
        Watch!FramesAreOfTheHold
<1>1. CASE Watch!ReadDue
  BY <1>1 DEF Watch!ReadDue
<1>2. CASE Watch!Look
  BY <1>2 DEF Watch!Look, Watch!Knows
<1>3. CASE Watch!Find
  BY <1>3 DEF Watch!Find, Watch!Place
<1>4. CASE Watch!Keep
  BY <1>4 DEF Watch!Keep, Watch!KeptUnder
<1> QED
  BY <1>1, <1>2, <1>3, <1>4

\* A frame that a tick names is one the loop was in while that tick was overdue
\* (loop_watch.py: _look, _ticked).
THEOREM FramesAreAlwaysOfTheHold == Watch!Spec => []FramesAreOfTheHold
<1>1. Watch!Init => WatchInv
  BY WatchBegins
<1>2. WatchInv /\ [Watch!Next]_(Watch!vars) => WatchInv'
  <2> SUFFICES ASSUME WatchInv, [Watch!Next]_(Watch!vars) PROVE WatchInv'
    OBVIOUS
  <2>1. CASE Watch!Overdue \/ Watch!Ticked \/ Watch!Report \/ Watch!Exit
    BY <2>1, TicksKeepWatchInv
  <2>2. CASE Watch!ReadDue \/ Watch!Look \/ Watch!Find \/ Watch!Keep
    BY <2>2, LooksKeepWatchInv
  <2>3. CASE UNCHANGED Watch!vars
    BY <2>3
    DEF Watch!vars, WatchInv, Watch!TypeOK, FramesAreOfTheHold, Watch!FramesAreOfTheHold,
        OfTheHold
  <2> QED
    BY <2>1, <2>2, <2>3 DEF Watch!Next
<1>3. WatchInv => FramesAreOfTheHold
  BY DEF WatchInv
<1> QED
  BY <1>1, <1>2, <1>3, PTL DEF Watch!Spec

-----------------------------------------------------------------------------
\* The jobs of the in-memory substrate.

\* What the task of a job says of the job: before its first step nothing was tried,
\* while it runs each attempt before this one raised, and a job is dead only when
\* the last one did.  A job that close() cancelled stays pending.
Agrees(j) ==
  /\ task[j] = "none" => status[j] = "none" /\ attempt[j] = 0
  /\ task[j] = "ready" => status[j] = "pending" /\ attempt[j] = 0
  /\ attempt[j] = 0 => failed[j] = 0
  /\ task[j] \in {"tries", "backs off"} =>
       status[j] = "pending" /\ attempt[j] \in 1..MaxAttempts /\ attempt[j] = failed[j] + 1
  /\ status[j] = "dead" => failed[j] = MaxAttempts

TasksAgree == \A j \in Job : Agrees(j)

MemoryInv == Memory!TypeOK /\ TasksAgree

LEMMA MemoryBegins == Memory!Init => MemoryInv
BY ProcessAssumption DEF Memory!Init, MemoryInv, Memory!TypeOK, TasksAgree, Agrees

\* What the steps of a job need to know of the counts.
LEMMA CountsAreNumbers ==
  ASSUME MemoryInv
  PROVE  /\ MaxAttempts \in Nat /\ 1 \in 1..MaxAttempts /\ 1 \in 0..MaxAttempts
         /\ attempt \in [Job -> Nat] /\ failed \in [Job -> Nat]
         /\ status \in [Job -> {"none", "pending", "done", "dead"}]
         /\ task \in [Job -> {"none", "ready", "tries", "backs off", "ended"}]
<1>1. MaxAttempts \in Nat /\ 1 \in 1..MaxAttempts /\ 1 \in 0..MaxAttempts
  BY ProcessAssumption
<1>2. \A n \in 0..MaxAttempts : n \in Nat
  BY <1>1
<1>3. attempt \in [Job -> Nat] /\ failed \in [Job -> Nat]
  BY <1>2 DEF MemoryInv, Memory!TypeOK
<1>4. /\ status \in [Job -> {"none", "pending", "done", "dead"}]
      /\ task \in [Job -> {"none", "ready", "tries", "backs off", "ended"}]
  BY DEF MemoryInv, Memory!TypeOK
<1> QED
  BY <1>1, <1>3, <1>4

LEMMA CountsStayWithin ==
  ASSUME NEW a \in 1..MaxAttempts, NEW f \in Nat, a = f + 1
  PROVE  /\ f + 1 \in 0..MaxAttempts /\ a # 0 /\ a + 1 = (f + 1) + 1
         /\ a = MaxAttempts => f + 1 = MaxAttempts
         /\ a # MaxAttempts =>
              a + 1 \in 1..MaxAttempts /\ a + 1 \in 0..MaxAttempts /\ a + 1 # 0
BY ProcessAssumption

\* The steps of one job.
LEMMA JobsKeepMemoryInv ==
  ASSUME MemoryInv, NEW j \in Job,
         \/ Memory!Ask(j) \/ Memory!Turn(j) \/ Memory!Write(j)
         \/ Memory!Succeed(j) \/ Memory!Fail(j) \/ Memory!Defer(j)
  PROVE  MemoryInv'
<1>0. Memory!TypeOK /\ TasksAgree
  BY DEF MemoryInv
<1>1. CASE Memory!Ask(j)
  BY <1>0, <1>1 DEF Memory!Ask, MemoryInv, Memory!TypeOK, TasksAgree, Agrees
<1>2. CASE Memory!Begin(j)
  <2>1. status[j] = "pending" /\ attempt[j] = 0 /\ failed[j] = 0
    BY <1>0, <1>2 DEF Memory!Begin, TasksAgree, Agrees
  <2>2. Memory!TypeOK'
    BY <1>0, <1>2, CountsAreNumbers DEF Memory!Begin, Memory!TypeOK
  <2>3. Agrees(j)'
    <3>1. task'[j] = "tries" /\ attempt'[j] = 1 /\ failed'[j] = 0 /\ status'[j] = "pending"
      BY <2>1, <1>2, CountsAreNumbers DEF Memory!Begin
    <3>2. 1 \in 1..MaxAttempts /\ 1 = 0 + 1 /\ 1 # 0
      BY ProcessAssumption
    <3> QED
      BY <3>1, <3>2 DEF Agrees
  <2>4. \A i \in Job \ {j} : Agrees(i)'
    BY <1>0, <1>2, CountsAreNumbers DEF Memory!Begin, TasksAgree, Agrees
  <2> QED
    BY <2>2, <2>3, <2>4 DEF MemoryInv, TasksAgree
<1>3. CASE Memory!TryAgain(j)
  BY <1>0, <1>3 DEF Memory!TryAgain, MemoryInv, Memory!TypeOK, TasksAgree, Agrees
<1>4. CASE Memory!Cancelled(j)
  BY <1>0, <1>4
  DEF Memory!Cancelled, Memory!Running, MemoryInv, Memory!TypeOK, TasksAgree, Agrees
<1>5. CASE Memory!Write(j)
  BY <1>0, <1>5 DEF Memory!Write, Memory!Tries, MemoryInv, Memory!TypeOK, TasksAgree, Agrees
<1>6. CASE Memory!Succeed(j)
  BY <1>0, <1>6
  DEF Memory!Succeed, Memory!Tries, Memory!Ends, MemoryInv, Memory!TypeOK, TasksAgree, Agrees
<1>7. CASE Memory!Fail(j)
  <2>1. task[j] = "tries"
    BY <1>7 DEF Memory!Fail, Memory!Tries
  <2>2. attempt[j] \in 1..MaxAttempts /\ attempt[j] = failed[j] + 1
    BY <2>1, <1>0 DEF TasksAgree, Agrees
  <2>3. /\ failed' = [failed EXCEPT ![j] = failed[j] + 1]
        /\ UNCHANGED <<toEnd, closing>>
    BY <1>7 DEF Memory!Fail
  <2>4. failed[j] \in Nat /\ failed[j] + 1 \in 0..MaxAttempts
    <3>1. failed[j] \in Nat
      BY CountsAreNumbers
    <3> QED
      BY <3>1, <2>2, CountsStayWithin
  <2>5. CASE Memory!IsLast(j) /\ Memory!Ends(j, "dead") /\ UNCHANGED attempt
    <3>1. /\ status' = [status EXCEPT ![j] = "dead"]
          /\ author' = [author EXCEPT ![j] = attempt[j]]
          /\ task' = [task EXCEPT ![j] = "ended"]
          /\ UNCHANGED attempt
      BY <2>5 DEF Memory!Ends
    <3>2. attempt[j] = MaxAttempts /\ attempt[j] # 0
      BY <2>2, <2>5 DEF Memory!IsLast
    <3>3. Memory!TypeOK'
      BY <3>1, <2>3, <2>4, <1>0 DEF Memory!TypeOK
    <3>4. failed'[j] = MaxAttempts
      BY <3>2, <2>2, <2>3, CountsAreNumbers
    <3>5. TasksAgree'
      BY <3>1, <3>2, <3>4, <2>3, <1>0, CountsAreNumbers DEF TasksAgree, Agrees
    <3> QED
      BY <3>3, <3>5 DEF MemoryInv
  <2>6. CASE /\ ~Memory!IsLast(j)
             /\ attempt' = [attempt EXCEPT ![j] = @ + 1]
             /\ UNCHANGED <<status, author, task>>
    <3>1. attempt[j] # MaxAttempts
      BY <2>6 DEF Memory!IsLast
    <3>2. /\ attempt[j] + 1 \in 1..MaxAttempts /\ attempt[j] + 1 \in 0..MaxAttempts
          /\ attempt[j] + 1 # 0 /\ attempt[j] + 1 = (failed[j] + 1) + 1
      BY <3>1, <2>2, <2>4, CountsStayWithin
    <3>3. Memory!TypeOK'
      BY <3>2, <2>3, <2>4, <2>6, <1>0 DEF Memory!TypeOK
    <3>4. Agrees(j)'
      <4>1. task'[j] = "tries" /\ status'[j] = "pending" /\ attempt'[j] = attempt[j] + 1
        BY <2>1, <2>6, <1>0, CountsAreNumbers DEF TasksAgree, Agrees
      <4>2. failed'[j] = failed[j] + 1
        BY <2>3, CountsAreNumbers
      <4> QED
        BY <4>1, <4>2, <3>2 DEF Agrees
    <3>5. \A i \in Job \ {j} : Agrees(i)'
      BY <2>3, <2>6, <1>0, CountsAreNumbers DEF TasksAgree, Agrees
    <3> QED
      BY <3>3, <3>4, <3>5 DEF MemoryInv, TasksAgree
  <2> QED
    BY <2>5, <2>6, <1>7 DEF Memory!Fail
<1>8. CASE Memory!Defer(j)
  BY <1>0, <1>8
  DEF Memory!Defer, Memory!Tries, Memory!Deferred, MemoryInv, Memory!TypeOK, TasksAgree, Agrees
<1> QED
  BY <1>1, <1>2, <1>3, <1>4, <1>5, <1>6, <1>7, <1>8 DEF Memory!Turn

LEMMA MemoryKeepsMemoryInv == MemoryInv /\ [Memory!Next]_(Memory!vars) => MemoryInv'
<1> SUFFICES ASSUME MemoryInv, [Memory!Next]_(Memory!vars) PROVE MemoryInv'
  OBVIOUS
<1>1. CASE Memory!Close
  BY <1>1 DEF Memory!Close, Memory!Running, MemoryInv, Memory!TypeOK, TasksAgree, Agrees
<1>2. CASE Memory!Closed
  BY <1>2 DEF Memory!Closed, MemoryInv, Memory!TypeOK, TasksAgree, Agrees
<1>3. CASE UNCHANGED Memory!vars
  BY <1>3 DEF Memory!vars, MemoryInv, Memory!TypeOK, TasksAgree, Agrees
<1> QED
  BY <1>1, <1>2, <1>3, JobsKeepMemoryInv DEF Memory!Next

\* The variables keep to their types: no job has more attempts, and none fails more
\* often, than MAX_ATTEMPTS allows.
THEOREM MemoryInductive == Memory!Spec => []MemoryInv
<1> QED
  BY MemoryBegins, MemoryKeepsMemoryInv, PTL DEF Memory!Spec

\* However often a job got no connection, and whenever close() came, a job in memory
\* is dead only when its handler raised MAX_ATTEMPTS times (memory.py: _attempts).
THEOREM DeadJobsFailedEachTime == Memory!Spec => []DeadFailedEachTime
<1>1. MemoryInv => DeadFailedEachTime
  BY DEF MemoryInv, TasksAgree, Agrees, DeadFailedEachTime, Memory!DeadFailedEachTime
<1> QED
  BY <1>1, MemoryInductive, PTL

\* A step of the jobs in memory is a step of the job board, or leaves it as it is.
LEMMA MemorySteps ==
  ASSUME MemoryInv, [Memory!Next]_(Memory!vars)
  PROVE  [Memory!Board!Next]_(Memory!Board!vars)
<1>0. TasksAgree /\ attempt \in [Job -> Nat]
  BY CountsAreNumbers DEF MemoryInv
<1> USE DEF Memory!Board!Next, Memory!Board!vars
<1>1. ASSUME NEW j \in Job, Memory!Ask(j) PROVE Memory!Board!Ask(j)
  BY <1>0, <1>1 DEF TasksAgree, Agrees, Memory!Ask, Memory!Board!Ask
<1>2. ASSUME NEW j \in Job, Memory!Begin(j) PROVE Memory!Board!Hand(j)
  <2>1. status[j] = "pending" /\ attempt[j] = 0
    BY <1>0, <1>2 DEF Memory!Begin, TasksAgree, Agrees
  <2>2. attempt' = [attempt EXCEPT ![j] = attempt[j] + 1]
    BY <2>1, <1>0, <1>2 DEF Memory!Begin
  <2> QED
    BY <2>1, <2>2, <1>2 DEF Memory!Begin, Memory!Board!Hand
<1>3. ASSUME NEW j \in Job, Memory!TryAgain(j) \/ Memory!Cancelled(j) \/ Memory!Defer(j)
      PROVE  UNCHANGED Memory!Board!vars
  BY <1>3 DEF Memory!TryAgain, Memory!Cancelled, Memory!Defer, Memory!Deferred
<1>4. ASSUME NEW j \in Job, Memory!Write(j) PROVE Memory!Board!Write(j)
  BY <1>0, <1>4 DEF TasksAgree, Agrees, Memory!Write, Memory!Tries, Memory!Board!Write
<1>5. ASSUME NEW j \in Job, Memory!Succeed(j) PROVE Memory!Board!End(j)
  BY <1>0, <1>5
  DEF TasksAgree, Agrees, Memory!Succeed, Memory!Tries, Memory!Ends, Memory!Board!End,
      Memory!Board!Ended
<1>6. ASSUME NEW j \in Job, Memory!Fail(j) PROVE Memory!Board!End(j) \/ Memory!Board!Hand(j)
  <2>1. status[j] = "pending"
    BY <1>0, <1>6 DEF Memory!Fail, Memory!Tries, TasksAgree, Agrees
  <2>2. CASE Memory!Ends(j, "dead") /\ UNCHANGED attempt
    BY <2>1, <2>2 DEF Memory!Ends, Memory!Board!End, Memory!Board!Ended
  <2>3. CASE attempt' = [attempt EXCEPT ![j] = @ + 1] /\ UNCHANGED <<status, author, task>>
    BY <2>1, <2>3 DEF Memory!Board!Hand
  <2> QED
    BY <2>2, <2>3, <1>6 DEF Memory!Fail
<1>7. ASSUME Memory!Close \/ Memory!Closed \/ UNCHANGED Memory!vars
      PROVE  UNCHANGED Memory!Board!vars
  BY <1>7 DEF Memory!Close, Memory!Closed, Memory!vars
<1> QED
  BY <1>1, <1>2, <1>3, <1>4, <1>5, <1>6, <1>7 DEF Memory!Next, Memory!Turn

\* What is promised of a job on Postgres holds in memory, for any number of jobs and
\* attempts: one attempt after another, only the last writes, and a job ends once
\* (memory.py: asked, _attempts, _run).
THEOREM MemoryIsJobBoard == Memory!Spec => IsJobBoard
<1>1. Memory!Init => Memory!Board!Init
  BY DEF Memory!Init, Memory!Board!Init
<1>2. MemoryInv /\ [Memory!Next]_(Memory!vars) => [Memory!Board!Next]_(Memory!Board!vars)
  BY MemorySteps
<1> QED
  BY <1>1, <1>2, MemoryInductive, PTL
  DEF Memory!Spec, IsJobBoard, Memory!IsJobBoard, Memory!Board!Spec

-----------------------------------------------------------------------------
\* The pages of a list.

ListType ==
  /\ newestFirst \in BOOLEAN /\ seq \in Nat
  /\ number \in [Row -> Nat]
  /\ row \in [Row -> {"none", "open", "there", "gone"}]
  /\ walk \in {"asks", "reads", "ended", "lost"}
  /\ after \in Row \union {None} /\ shown \in Seq(Row) /\ before \subseteq Row

\* No two rows have one number.
RowsAreNumbered ==
  \A r \in Row :
    /\ number[r] <= seq
    /\ row[r] = "none" <=> number[r] = 0
    /\ \A q \in Row : number[r] = number[q] /\ number[r] # 0 => r = q

LEMMA OneCardinality == \A S : Lists!Cardinality(S) = Cardinality(S)
BY DEF Lists!Cardinality, Cardinality

\* Numbered rows have one order.
LEMMA OneOrder ==
  ASSUME ListType, RowsAreNumbered,
         NEW S \in SUBSET {r \in Row : number[r] # 0}
  PROVE  /\ \A a, b \in S : a # b => Lists!Comes(a, b) \/ Lists!Comes(b, a)
         /\ \A a, b, c \in S : Lists!Comes(a, b) /\ Lists!Comes(b, c) => Lists!Comes(a, c)
         /\ \A a, b \in S : Lists!Comes(a, b) => a # b /\ ~Lists!Comes(b, a)
BY DEF ListType, RowsAreNumbered, Lists!Comes

LEMMA RowsAreFinite ==
  ASSUME NEW S \in SUBSET Row
  PROVE  IsFiniteSet(S) /\ Cardinality(S) \in Nat /\ (Cardinality(S) = 0 <=> S = {})
BY ProcessAssumption, FS_Subset, FS_CardinalityType, FS_EmptySet

\* Numbered rows have a last one.
LEMMA OneIsLast ==
  ASSUME ListType, RowsAreNumbered,
         NEW S \in SUBSET {r \in Row : number[r] # 0}, S # {}
  PROVE  \E x \in S : \A y \in S \ {x} : Lists!Comes(y, x)
<1> DEFINE HasLast(R) == \E x \in R : \A y \in R \ {x} : Lists!Comes(y, x)
           T == {Cardinality(R) : R \in {R \in SUBSET S : R # {} /\ ~HasLast(R)}}
<1>1. SUFFICES ASSUME T # {} PROVE FALSE
  <2>1. ~HasLast(S) => Cardinality(S) \in T
    BY DEF T
  <2> HIDE DEF T
  <2> QED
    BY <2>1
<1>2. \A R \in SUBSET S : IsFiniteSet(R) /\ Cardinality(R) \in Nat
  BY RowsAreFinite
<1>3. T \in SUBSET Nat
  BY <1>2
<1>4. PICK n \in T : \A m \in T : n <= m
  <2> HIDE DEF T
  <2> QED
    BY <1>1, <1>3, SmallestNumber
<1>5. PICK R \in SUBSET S : R # {} /\ ~HasLast(R) /\ n = Cardinality(R)
  OBVIOUS
<1>6. PICK x \in R : TRUE
  BY <1>5
<1> DEFINE Rest == R \ {x}
<1>7. Cardinality(Rest) = n - 1
  BY <1>2, <1>5, <1>6, FS_RemoveElement
<1>8. CASE Rest = {}
  <2>1. HasLast(R)
    BY <1>6, <1>8
  <2> QED
    BY <2>1, <1>5
<1>9. CASE Rest # {}
  <2>1. Cardinality(Rest) \in T => n <= Cardinality(Rest)
    BY <1>4
  <2>2. n \in Nat
    BY <1>3, <1>4
  <2>3. ~HasLast(Rest) => Cardinality(Rest) \in T
    BY <1>9
  <2>4. HasLast(Rest)
    <3> HIDE DEF HasLast, T, Rest
    <3> QED
      BY <2>1, <2>2, <2>3, <1>7
  <2>5. PICK y \in Rest : \A z \in Rest \ {y} : Lists!Comes(z, y)
    BY <2>4
  <2>6. CASE Lists!Comes(x, y)
    <3>1. \A z \in R \ {y} : Lists!Comes(z, y)
      BY <2>5, <2>6
    <3>2. HasLast(R)
      BY <3>1, <2>5
    <3> QED
      BY <3>2, <1>5
  <2>7. CASE Lists!Comes(y, x)
    <3>1. \A z \in R \ {x} : Lists!Comes(z, x)
      <4> SUFFICES ASSUME NEW z \in R \ {x}, z # y PROVE Lists!Comes(z, x)
        BY <2>7
      <4>1. Lists!Comes(z, y)
        BY <2>5
      <4>2. x \in S /\ y \in S /\ z \in S
        BY <1>6, <2>5
      <4> QED
        BY <4>1, <4>2, <2>7, OneOrder
    <3>2. HasLast(R)
      BY <3>1, <1>6
    <3> QED
      BY <3>2, <1>5
  <2>8. x \in S /\ y \in S /\ x # y
    BY <1>6, <2>5
  <2>9. Lists!Comes(x, y) \/ Lists!Comes(y, x)
    BY <2>8, OneOrder
  <2> QED
    BY <2>6, <2>7, <2>9
<1> QED
  BY <1>8, <1>9

\* What the list shows of S: its rows, one after another.
InOrder(s, S) ==
  /\ s \in [1..Cardinality(S) -> S]
  /\ \A i, j \in 1..Cardinality(S) : i < j => Lists!Comes(s[i], s[j])

LEMMA OneCanBeSorted ==
  ASSUME ListType, RowsAreNumbered,
         NEW S \in SUBSET {r \in Row : number[r] # 0}
  PROVE  \E s : InOrder(s, S)
<1> DEFINE CanBe(R) == \E s : InOrder(s, R)
           T == {Cardinality(R) : R \in {R \in SUBSET S : ~CanBe(R)}}
<1>1. SUFFICES ASSUME T # {} PROVE FALSE
  <2>1. ~CanBe(S) => Cardinality(S) \in T
    OBVIOUS
  <2>2. CanBe(S) => \E s : InOrder(s, S)
    OBVIOUS
  <2> HIDE DEF T, CanBe
  <2> QED
    BY <2>1, <2>2
<1>2. \A R \in SUBSET S : IsFiniteSet(R) /\ Cardinality(R) \in Nat
  BY RowsAreFinite
<1>3. T \in SUBSET Nat
  <2> HIDE DEF CanBe
  <2> QED
    BY <1>2
<1>4. PICK n \in T : \A m \in T : n <= m
  <2> HIDE DEF T
  <2> QED
    BY <1>1, <1>3, SmallestNumber
<1>5. PICK R \in SUBSET S : ~CanBe(R) /\ n = Cardinality(R)
  <2> HIDE DEF CanBe
  <2> QED
    BY <1>4
<1>6. n \in Nat
  BY <1>2, <1>5
<1>7. CASE R = {}
  <2>1. Cardinality(R) = 0
    BY <1>7, FS_EmptySet
  <2>2. InOrder(<<>>, R)
    BY <2>1 DEF InOrder
  <2> QED
    BY <2>2, <1>5
<1>8. CASE R # {}
  <2>1. PICK x \in R : \A y \in R \ {x} : Lists!Comes(y, x)
    BY <1>8, OneIsLast
  <2> DEFINE Rest == R \ {x}
  <2>2. Cardinality(Rest) = n - 1 /\ n - 1 \in Nat
    BY <1>2, <1>5, <2>1, FS_RemoveElement
  <2>3. CanBe(Rest)
    <3>1. ~CanBe(Rest) => Cardinality(Rest) \in T
      <4> HIDE DEF CanBe
      <4> QED
        OBVIOUS
    <3> HIDE DEF CanBe, T, Rest
    <3> QED
      BY <3>1, <2>2, <1>4, <1>6
  <2>4. PICK s : InOrder(s, Rest)
    BY <2>3
  <2>5. s \in [1..(n - 1) -> Rest] /\ \A i, j \in 1..(n - 1) : i < j => Lists!Comes(s[i], s[j])
    <3> HIDE DEF Rest
    <3> QED
      BY <2>2, <2>4 DEF InOrder
  <2> DEFINE t == [i \in 1..n |-> IF i = n THEN x ELSE s[i]]
  <2>6. t \in [1..n -> R]
    BY <2>5, <2>1, <1>6
  <2>7. ASSUME NEW i \in 1..n, NEW j \in 1..n, i < j PROVE Lists!Comes(t[i], t[j])
    <3>1. i \in 1..(n - 1) /\ t[i] = s[i] /\ s[i] \in Rest
      BY <2>5, <2>7, <1>6
    <3>2. CASE j = n
      <4>1. t[j] = x
        BY <3>2, <1>6
      <4> QED
        BY <4>1, <3>1, <2>1
    <3>3. CASE j # n
      <4>1. j \in 1..(n - 1) /\ t[j] = s[j]
        BY <3>3, <1>6
      <4> QED
        BY <4>1, <3>1, <2>5, <2>7
    <3> QED
      BY <3>2, <3>3
  <2>8. InOrder(t, R)
    <3> HIDE DEF t
    <3> QED
      BY <2>6, <2>7, <1>5 DEF InOrder
  <2> QED
    BY <2>8, <1>5
<1> QED
  BY <1>7, <1>8

\* ORDER BY: each row of S once, in the order of the list.
LEMMA SortedIsInOrder ==
  ASSUME ListType, RowsAreNumbered,
         NEW S \in SUBSET {r \in Row : number[r] # 0}
  PROVE  /\ InOrder(Lists!Sorted(S), S)
         /\ \A r \in S : \E i \in 1..Cardinality(S) : Lists!Sorted(S)[i] = r
<1> DEFINE s == Lists!Sorted(S)
           n == Cardinality(S)
<1>1. InOrder(s, S)
  <2>1. PICK t : InOrder(t, S)
    BY OneCanBeSorted
  <2>2. /\ t \in [1..n -> S]
        /\ \A i, j \in DOMAIN t : i < j => Lists!Comes(t[i], t[j])
    BY <2>1 DEF InOrder
  <2>3. /\ s \in [1..n -> S]
        /\ \A i, j \in DOMAIN s : i < j => Lists!Comes(s[i], s[j])
    BY <2>2, OneCardinality DEF Lists!Sorted
  <2>4. DOMAIN s = 1..n
    BY <2>3
  <2> HIDE DEF s, n
  <2>5. \A i, j \in 1..n : i < j => Lists!Comes(s[i], s[j])
    BY <2>3, <2>4
  <2> QED
    BY <2>3, <2>5 DEF InOrder, n
<1>2. IsFiniteSet(S) /\ n \in Nat
  BY RowsAreFinite
<1>3. \A i, j \in 1..n : i # j => s[i] # s[j]
  <2> SUFFICES ASSUME NEW i \in 1..n, NEW j \in 1..n, i < j PROVE s[i] # s[j]
    BY <1>2
  <2> HIDE DEF s
  <2> QED
    BY <1>1, OneOrder DEF InOrder
<1>4. s \in Injection(1..n, S)
  <2> HIDE DEF s
  <2> QED
    BY <1>1, <1>3 DEF InOrder, Injection, IsInjective
<1>5. Cardinality(1..n) = n
  BY <1>2, FS_Interval
<1>6. s \in Surjection(1..n, S)
  <2> HIDE DEF s
  <2> QED
    BY <1>2, <1>4, <1>5, FS_Injection
<1> QED
  BY <1>1, <1>6 DEF Surjection

\* A page has the rows that follow its cursor, in order, as many as it may have, and
\* the rows it leaves come after its last.
LEMMA PageIsInOrder ==
  ASSUME ListType, RowsAreNumbered, NEW k, NEW n, n = Cardinality(Lists!Following),
         k = IF Lists!More THEN PageMax ELSE n
  PROVE  /\ Lists!Page \in Seq(Row) /\ Len(Lists!Page) = k /\ k \in Nat
         /\ Lists!More => k > 0
         /\ \A i \in 1..k : Lists!Page[i] \in Lists!Following
         /\ \A i, j \in 1..k : i < j => Lists!Comes(Lists!Page[i], Lists!Page[j])
         /\ \A r \in Lists!Following :
              \/ \E i \in 1..k : Lists!Page[i] = r
              \/ Lists!More /\ Lists!Comes(Lists!Page[k], r)
<1> DEFINE F == Lists!Following
           s == Lists!Sorted(F)
           g == Lists!Page
<1>1. F \in SUBSET {r \in Row : number[r] # 0}
  BY DEF Lists!Following, Lists!There, ListType, RowsAreNumbered
<1>2. n \in Nat
  BY <1>1, RowsAreFinite
<1>3. k \in Nat /\ k <= n /\ (Lists!More => k > 0) /\ (~Lists!More => k = n)
  BY <1>2, ProcessAssumption, OneCardinality DEF Lists!More
<1>4. /\ s \in [1..n -> F]
      /\ \A i, j \in 1..n : i < j => Lists!Comes(s[i], s[j])
      /\ \A r \in F : \E i \in 1..n : s[i] = r
  <2> HIDE DEF F
  <2> QED
    BY <1>1, SortedIsInOrder DEF InOrder, F
<1>5. g = SubSeq(s, 1, k)
  BY OneCardinality DEF Lists!Page
<1>6. g \in Seq(Row) /\ Len(g) = k /\ \A i \in 1..k : g[i] = s[i]
  <2>1. \A i \in 1..k : s[i] \in Row
    BY <1>1, <1>2, <1>3, <1>4
  <2> HIDE DEF s, F, g
  <2>2. /\ SubSeq(s, 1, k) \in Seq(Row)
        /\ Len(SubSeq(s, 1, k)) = IF 1 <= k THEN k - 1 + 1 ELSE 0
        /\ \A i \in 1..(k - 1 + 1) : SubSeq(s, 1, k)[i] = s[1 + i - 1]
    BY <2>1, <1>3, SubSeqProperties
  <2>3. k - 1 + 1 = k /\ \A i \in 1..k : 1 + i - 1 = i
    BY <1>3
  <2> QED
    BY <2>2, <2>3, <1>3, <1>5
<1> HIDE DEF s, F, g
<1>7. \A r \in F : (\E i \in 1..k : g[i] = r) \/ (Lists!More /\ Lists!Comes(g[k], r))
  <2> SUFFICES ASSUME NEW r \in F, ~\E i \in 1..k : g[i] = r
               PROVE  Lists!More /\ Lists!Comes(g[k], r)
    OBVIOUS
  <2>1. PICK i \in 1..n : s[i] = r
    BY <1>4
  <2>2. i \notin 1..k
    BY <2>1, <1>6
  <2>3. k < i /\ Lists!More
    BY <2>2, <1>2, <1>3
  <2>4. k \in 1..n /\ k \in 1..k
    BY <2>3, <1>2, <1>3
  <2> QED
    BY <2>1, <2>3, <2>4, <1>4, <1>6
<1>8. \A i \in 1..k : g[i] \in F
  BY <1>2, <1>3, <1>4, <1>6
<1>9. \A i, j \in 1..k : i < j => Lists!Comes(g[i], g[j])
  BY <1>2, <1>3, <1>4, <1>6
<1> QED
  BY <1>3, <1>6, <1>7, <1>8, <1>9 DEF F, g

-----------------------------------------------------------------------------
\* A row that was shown, and a row that was there before the walk, were never taken
\* back: they are there, or gone for good.
WasThere(r) == row[r] \in {"there", "gone"}

ShownIsInOrder ==
  /\ \A i \in 1..Len(shown) : WasThere(shown[i])
  /\ \A i, j \in 1..Len(shown) : i < j => Lists!Comes(shown[i], shown[j])

\* The cursor is the last row that was shown.
CursorIsLast ==
  walk \in {"asks", "reads"} =>
    IF after = None THEN shown = <<>>
    ELSE Len(shown) > 0 /\ after = shown[Len(shown)]

\* A row that was there before the walk, and still is, was shown or comes yet.
NoneIsPassed ==
  /\ \A r \in before : WasThere(r)
  /\ walk # "lost" =>
       \A r \in before \intersect Lists!There :
         \/ \E i \in 1..Len(shown) : shown[i] = r
         \/ walk # "ended" /\ (after = None \/ Lists!Comes(after, r))

ListInv == ListType /\ RowsAreNumbered /\ ShownIsInOrder /\ CursorIsLast /\ NoneIsPassed

LEMMA ListBegins == Lists!Init => ListInv
<1> SUFFICES ASSUME Lists!Init PROVE ListInv
  OBVIOUS
<1> USE DEF Lists!Init
<1>1. <<>> \in Seq(Row) /\ Len(<<>>) = 0
  OBVIOUS
<1>2. ListType /\ RowsAreNumbered
  BY <1>1 DEF ListType, RowsAreNumbered
<1>3. ShownIsInOrder /\ CursorIsLast /\ NoneIsPassed
  BY <1>1 DEF ShownIsInOrder, CursorIsLast, NoneIsPassed
<1> QED
  BY <1>2, <1>3 DEF ListInv

\* A writer changes the number of a row that was not there, and of no other.
LEMMA WritersKeepListInv ==
  ASSUME ListInv, NEW r \in Row, Lists!Insert(r) \/ Lists!Finish(r) \/ Lists!Delete(r)
  PROVE  ListInv'
<1>1. UNCHANGED <<newestFirst, walk, after, shown, before>>
  BY DEF Lists!Insert, Lists!Finish, Lists!Delete
<1>2. ListType'
  BY DEF ListInv, ListType, Lists!Insert, Lists!Finish, Lists!Delete
<1>3. RowsAreNumbered'
  <2>1. CASE Lists!Insert(r)
    BY <2>1 DEF ListInv, ListType, RowsAreNumbered, Lists!Insert
  <2>2. CASE Lists!Finish(r)
    BY <2>2 DEF ListInv, ListType, RowsAreNumbered, Lists!Finish
  <2>3. CASE Lists!Delete(r)
    BY <2>3 DEF ListInv, ListType, RowsAreNumbered, Lists!Delete
  <2> QED
    BY <2>1, <2>2, <2>3
<1>4. \A q \in Row : WasThere(q) => WasThere(q)' /\ number'[q] = number[q]
  BY DEF WasThere, ListInv, ListType, Lists!Insert, Lists!Finish, Lists!Delete
<1>5. \A q \in Row : WasThere(q) /\ row'[q] = "there" => row[q] = "there"
  BY DEF WasThere, ListInv, ListType, Lists!Insert, Lists!Finish, Lists!Delete
<1>6. \A p, q \in Row : WasThere(p) /\ WasThere(q) => (Lists!Comes(p, q)' <=> Lists!Comes(p, q))
  BY <1>1, <1>4 DEF Lists!Comes
<1>7. \A i \in 1..Len(shown) : shown[i] \in Row /\ WasThere(shown[i])
  BY ElementOfSeq DEF ListInv, ListType, ShownIsInOrder
<1>8. ShownIsInOrder'
  BY <1>1, <1>4, <1>6, <1>7 DEF ListInv, ShownIsInOrder
<1>9. CursorIsLast'
  BY <1>1 DEF ListInv, CursorIsLast
<1>10. walk \in {"asks", "reads"} /\ after # None => after \in Row /\ WasThere(after)
  <2>1. Len(shown) \in Nat
    BY DEF ListInv, ListType
  <2> QED
    BY <2>1, <1>7 DEF ListInv, CursorIsLast
<1>11. NoneIsPassed'
  <2>1. \A q \in before : q \in Row /\ WasThere(q)
    BY DEF ListInv, ListType, NoneIsPassed
  <2>2. \A q \in before \intersect (Lists!There)' : q \in before \intersect Lists!There
    BY <2>1, <1>5 DEF Lists!There
  <2>3. ASSUME walk # "lost", NEW q \in before \intersect (Lists!There)'
        PROVE  \/ \E i \in 1..Len(shown) : shown[i] = q
               \/ walk # "ended" /\ (after = None \/ Lists!Comes(after, q)')
    <3>1. \/ \E i \in 1..Len(shown) : shown[i] = q
          \/ walk # "ended" /\ (after = None \/ Lists!Comes(after, q))
      BY <2>2, <2>3 DEF ListInv, NoneIsPassed
    <3>2. walk # "ended" => walk \in {"asks", "reads"}
      BY <2>3 DEF ListInv, ListType
    <3>3. ASSUME walk # "ended", after # None, Lists!Comes(after, q) PROVE Lists!Comes(after, q)'
      <4>1. after \in Row /\ WasThere(after)
        BY <3>2, <3>3, <1>10
      <4>2. number'[after] = number[after] /\ number'[q] = number[q]
        BY <4>1, <2>1, <1>4
      <4> QED
        BY <4>2, <3>3, <1>1 DEF Lists!Comes
    <3> QED
      BY <3>1, <3>3
  <2>4. \A q \in before : WasThere(q)'
    BY <2>1, <1>4
  <2> QED
    BY <2>3, <2>4, <1>1 DEF NoneIsPassed, Lists!Comes
<1> QED
  BY <1>2, <1>3, <1>8, <1>9, <1>11 DEF ListInv

LEMMA StartKeepsListInv == ASSUME ListInv, Lists!Start \/ Lists!Find PROVE ListInv'
<1>1. UNCHANGED <<newestFirst, seq, number, row>>
  BY DEF Lists!Start, Lists!Find
<1>2. CASE Lists!Start
  <2>1. <<>> \in Seq(Row) /\ Len(<<>>) = 0
    OBVIOUS
  <2>2. ListType' /\ RowsAreNumbered'
    BY <2>1, <1>1, <1>2 DEF ListInv, ListType, RowsAreNumbered, Lists!Start, Lists!There
  <2>3. ShownIsInOrder' /\ CursorIsLast' /\ NoneIsPassed'
    BY <2>1, <1>1, <1>2
    DEF ShownIsInOrder, CursorIsLast, NoneIsPassed, WasThere, Lists!Start, Lists!There
  <2> QED
    BY <2>2, <2>3 DEF ListInv
<1>3. CASE Lists!Find
  BY <1>1, <1>3
  DEF Lists!Find, ListInv, ListType, RowsAreNumbered, ShownIsInOrder, CursorIsLast,
      NoneIsPassed, WasThere, Lists!Comes, Lists!There
<1> QED
  BY <1>2, <1>3

\* A page is shown after what was shown, and comes after it.
LEMMA ReadKeepsListInv == ASSUME ListInv, Lists!Read PROVE ListInv'
<1> DEFINE g == Lists!Page
           m == Len(shown)
           n == Cardinality(Lists!Following)
           k == IF Lists!More THEN PageMax ELSE n
<1>1. /\ g \in Seq(Row) /\ Len(g) = k /\ k \in Nat
      /\ Lists!More => k > 0
      /\ \A i \in 1..k : g[i] \in Lists!Following
      /\ \A i, j \in 1..k : i < j => Lists!Comes(g[i], g[j])
      /\ \A r \in Lists!Following :
           \/ \E i \in 1..k : g[i] = r
           \/ Lists!More /\ Lists!Comes(g[k], r)
  BY PageIsInOrder DEF ListInv
<1>2. /\ walk = "reads" /\ shown' = shown \o g
      /\ IF Lists!More THEN walk' = "asks" /\ after' = g[k]
                       ELSE walk' = "ended" /\ after' = after
      /\ UNCHANGED <<newestFirst, seq, number, row, before>>
  BY <1>1 DEF Lists!Read, Lists!Last
<1>3. shown \in Seq(Row) /\ m \in Nat
  BY DEF ListInv, ListType
<1> HIDE DEF g, k
<1>4. /\ shown' \in Seq(Row) /\ Len(shown') = m + k
      /\ \A i \in 1..(m + k) : shown'[i] = IF i <= m THEN shown[i] ELSE g[i - m]
  BY <1>1, <1>2, <1>3, ConcatProperties
<1> HIDE DEF m
<1>5. \A a, b : Lists!Comes(a, b)' <=> Lists!Comes(a', b')
  BY <1>2 DEF Lists!Comes
<1>6. /\ \A i \in 1..m : shown'[i] = shown[i] /\ shown[i] \in Row /\ WasThere(shown[i])
      /\ \A i \in (m + 1)..(m + k) : i - m \in 1..k /\ shown'[i] = g[i - m]
  <2>1. \A i \in 1..m : shown[i] \in Row /\ WasThere(shown[i])
    BY <1>3, ElementOfSeq DEF ListInv, ShownIsInOrder, m
  <2>2. \A i \in 1..m : i \in 1..(m + k) /\ i <= m
    BY <1>1, <1>3
  <2>3. \A i \in (m + 1)..(m + k) : i \in 1..(m + k) /\ ~(i <= m) /\ i - m \in 1..k
    BY <1>1, <1>3
  <2> QED
    BY <2>1, <2>2, <2>3, <1>4
<1>6a. ASSUME NEW i \in 1..k PROVE m + i \in 1..(m + k) /\ shown'[m + i] = g[i]
  <2>1. m + i \in 1..(m + k) /\ ~(m + i <= m) /\ (m + i) - m = i
    BY <1>1, <1>3
  <2> QED
    BY <2>1, <1>4
<1>7. \A r \in Lists!Following : r \in Row /\ row[r] = "there" /\ WasThere(r)
  BY DEF Lists!Following, Lists!There, WasThere
<1>8. /\ Lists!Following \subseteq {r \in Row : number[r] # 0}
      /\ {r \in Row : WasThere(r)} \subseteq {r \in Row : number[r] # 0}
  BY DEF Lists!Following, Lists!There, WasThere, ListInv, ListType, RowsAreNumbered
<1>9. after # None => m \in 1..m /\ after = shown[m] /\ after \in Row /\ WasThere(after)
  BY <1>2, <1>3, <1>6 DEF ListInv, CursorIsLast, m
<1>10. after = None => m = 0
  BY <1>2 DEF ListInv, CursorIsLast, m
<1>11. \A r \in Lists!Following : after # None => Lists!Comes(after, r)
  BY DEF Lists!Following
\* What was shown comes before what the page has.
<1>12. ASSUME NEW i \in 1..m, NEW r \in Lists!Following
       PROVE  Lists!Comes(shown[i], r)
  <2>1. after # None
    BY <1>3, <1>10
  <2>2. Lists!Comes(after, r) /\ after = shown[m]
    BY <2>1, <1>9, <1>11
  <2>3. CASE i = m
    BY <2>2, <2>3
  <2>4. CASE i < m
    <3>1. Lists!Comes(shown[i], shown[m])
      BY <2>1, <2>4, <1>9 DEF ListInv, ShownIsInOrder, m
    <3>2. /\ shown[i] \in {q \in Row : number[q] # 0}
          /\ shown[m] \in {q \in Row : number[q] # 0}
          /\ r \in {q \in Row : number[q] # 0}
      BY <2>1, <1>6, <1>8, <1>9
    <3> QED
      BY <3>1, <3>2, <2>2, OneOrder DEF ListInv
  <2> QED
    BY <2>3, <2>4, <1>3
<1>13. ListType' /\ RowsAreNumbered'
  <2>1. Lists!More => g[k] \in Row
    BY <1>1, <1>7
  <2> QED
    BY <2>1, <1>2, <1>4 DEF ListInv, ListType, RowsAreNumbered
<1>14. ShownIsInOrder'
  <2>1. ASSUME NEW i \in 1..(m + k) PROVE WasThere(shown'[i])
    <3>1. CASE i \in 1..m
      BY <3>1, <1>6
    <3>2. CASE i \in (m + 1)..(m + k)
      BY <3>2, <1>1, <1>6, <1>7
    <3> QED
      BY <3>1, <3>2, <1>1, <1>3
  <2>2. ASSUME NEW i \in 1..(m + k), NEW j \in 1..(m + k), i < j
        PROVE  Lists!Comes(shown'[i], shown'[j])
    <3>1. CASE i \in 1..m /\ j \in 1..m
      BY <3>1, <2>2, <1>6 DEF ListInv, ShownIsInOrder, m
    <3>2. CASE i \in 1..m /\ j \in (m + 1)..(m + k)
      BY <3>2, <1>1, <1>6, <1>12
    <3>3. CASE i \in (m + 1)..(m + k) /\ j \in (m + 1)..(m + k)
      <4>1. i - m \in 1..k /\ j - m \in 1..k /\ i - m < j - m
        BY <3>3, <2>2, <1>1, <1>3
      <4> QED
        BY <4>1, <3>3, <1>1, <1>6
    <3> QED
      BY <3>1, <3>2, <3>3, <2>2, <1>1, <1>3
  <2>3. \A i \in 1..(m + k) : WasThere(shown[i])'
    BY <2>1, <1>2 DEF WasThere
  <2>4. \A i, j \in 1..(m + k) : i < j => Lists!Comes(shown[i], shown[j])'
    BY <2>2, <1>2 DEF Lists!Comes
  <2>5. Len(shown)' = m + k
    BY <1>4
  <2> QED
    BY <2>3, <2>4, <2>5 DEF ShownIsInOrder
<1>15. CursorIsLast'
  <2>1. CASE Lists!More
    <3>1. k \in 1..k /\ m + k > 0
      BY <2>1, <1>1, <1>3
    <3>2. shown'[m + k] = g[k]
      BY <3>1, <1>6a
    <3>3. after' # None
      BY <2>1, <1>1, <1>2, <1>7, ProcessAssumption
    <3> QED
      BY <3>1, <3>2, <3>3, <2>1, <1>2, <1>4 DEF CursorIsLast
  <2>2. CASE ~Lists!More
    BY <2>2, <1>2 DEF CursorIsLast
  <2> QED
    BY <2>1, <2>2
<1>16. NoneIsPassed'
  <2>1. \A r \in before : WasThere(r)'
    BY <1>2 DEF ListInv, NoneIsPassed, WasThere
  <2>2. ASSUME NEW r \in before \intersect Lists!There
        PROVE  \/ \E i \in 1..(m + k) : shown'[i] = r
               \/ walk' = "asks" /\ Lists!Comes(after', r)
    <3>1. CASE \E i \in 1..m : shown[i] = r
      BY <3>1, <1>1, <1>3, <1>6
    <3>2. CASE after = None \/ Lists!Comes(after, r)
      <4>1. r \in Lists!Following
        BY <3>2 DEF Lists!Following
      <4>2. CASE \E i \in 1..k : g[i] = r
        <5>1. PICK i \in 1..k : g[i] = r
          BY <4>2
        <5> QED
          BY <5>1, <1>6a
      <4>3. CASE Lists!More /\ Lists!Comes(g[k], r)
        BY <4>3, <1>2
      <4> QED
        BY <4>1, <4>2, <4>3, <1>1
    <3> QED
      BY <3>1, <3>2, <1>2 DEF ListInv, NoneIsPassed, m
  <2>3. \A r : Lists!Comes(after, r)' <=> Lists!Comes(after', r)
    BY <1>2 DEF Lists!Comes
  <2>4. (Lists!There)' = Lists!There
    BY <1>2 DEF Lists!There
  <2> QED
    BY <2>1, <2>2, <2>3, <2>4, <1>2, <1>4 DEF NoneIsPassed
<1> QED
  BY <1>13, <1>14, <1>15, <1>16 DEF ListInv

LEMMA ListKeepsListInv == ListInv /\ [Lists!Next]_(Lists!vars) => ListInv'
<1> SUFFICES ASSUME ListInv, [Lists!Next]_(Lists!vars) PROVE ListInv'
  OBVIOUS
<1>1. CASE UNCHANGED Lists!vars
  BY <1>1
  DEF Lists!vars, ListInv, ListType, RowsAreNumbered, ShownIsInOrder, CursorIsLast,
      NoneIsPassed, WasThere, Lists!Comes, Lists!There
<1> QED
  BY <1>1, WritersKeepListInv, StartKeepsListInv, ReadKeepsListInv DEF Lists!Next

\* However many rows are written, committed out of the order of their numbers, and
\* removed between any two statements of the reader, a walk shows its rows once and
\* in order, and when it came to its end it showed each row that was there before it
\* and still is (ADR 0026; pg.py: PostgresTaskStore.list, PostgresAuditEvents.list).
THEOREM WalksAreAlwaysComplete == Lists!Spec => []WalksAreComplete
<1>1. ListInv => WalksAreComplete
  <2>1. ListInv => DOMAIN shown = 1..Len(shown)
    BY DEF ListInv, ListType
  <2> QED
    BY <2>1
    DEF ListInv, ShownIsInOrder, NoneIsPassed, WalksAreComplete, Lists!WalksAreComplete
<1> QED
  BY <1>1, ListBegins, ListKeepsListInv, PTL DEF Lists!Spec
=============================================================================
