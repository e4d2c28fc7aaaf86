---------------------------- MODULE MigrateProofs ----------------------------
(***************************************************************************)
(* That the ledger never runs ahead of the schema, and that what is        *)
(* withheld from the application role stays withheld, for any number of    *)
(* releases, entries, migrators, processes and kills.                      *)
(*                                                                         *)
(* What carries the first: a migrator records an entry right after it      *)
(* executed it, in the order of the keys, and nothing is ever taken back.  *)
(* What carries the second: a table is granted its default privileges once, *)
(* when it is made, and its columns only grow.                             *)
(***************************************************************************)
EXTENDS Rights, TLAPS

USE DEF Locked

\* Where a migrator is in its entries: those below the one it is at are in the
\* ledger, and the one it is about to record was executed.
InOrder == \A m \in Migrator :
  /\ migrator[m].at \in {"executes", "records"} =>
       /\ migrator[m].key \in Carries[migrator[m].release]
       /\ \A k \in Carries[migrator[m].release] : k < migrator[m].key => k \in applied
  /\ migrator[m].at = "records" => migrator[m].key \in executed

MInv ==
  /\ TypeOK
  /\ applied \subseteq executed
  /\ OneApplies /\ InOrder /\ ServesOnItsSchema /\ NoGaps

\* The ledger is empty, and no migrator or process runs.
LEMMA InitMInv == ASSUME Init PROVE MInv
<1> PICK release \in Release :
      /\ migrator = [m \in Migrator |-> [release |-> release, key |-> 0, at |-> "off"]]
      /\ process = [p \in Process |-> [release |-> release, at |-> "off"]]
  BY DEF Init
<1>1. TypeOK
  BY MigrateAssumption DEF Init, TypeOK, Idle
<1>2. (\A m \in Migrator : migrator[m].at = "off") /\ (\A p \in Process : process[p].at = "off")
  OBVIOUS
<1>3. applied = {}
  BY DEF Init
<1> QED
  BY <1>1, <1>2, <1>3 DEF MInv, OneApplies, InOrder, ServesOnItsSchema, NoGaps

\* A step of one migrator, which takes nothing back, adds to the ledger no more
\* than the entry it is at, and goes on to an entry only with the lock.
MigratorStep(m) ==
  /\ UNCHANGED process
  /\ \A n \in Migrator : n # m => migrator'[n] = migrator[n]
  /\ executed \subseteq executed' /\ applied \subseteq applied' /\ applied' \subseteq executed'
  /\ \A k \in applied' : k \in applied \/ (k = migrator[m].key /\ migrator[m].at = "records")
  /\ migrator'[m].at \in Locked => lock' = m
  /\ \A n \in Migrator : n # m /\ lock = n => lock' = n
  /\ migrator'[m].at \in {"executes", "records"} =>
       /\ migrator'[m].key \in Carries[migrator'[m].release]
       /\ \A k \in Carries[migrator'[m].release] : k < migrator'[m].key => k \in applied'
  /\ migrator'[m].at = "records" => migrator'[m].key \in executed'

\* Such a step preserves the invariant.
LEMMA MigratorMInv ==
  ASSUME MInv, NEW m \in Migrator, TypeOK', MigratorStep(m)
  PROVE  MInv'
<1> USE DEF MigratorStep
<1>1. OneApplies'
  <2> SUFFICES ASSUME NEW n \in Migrator, migrator'[n].at \in Locked
               PROVE  lock' = n
    BY DEF OneApplies
  <2>1. CASE n = m
    BY <2>1
  <2>2. CASE n # m
    BY <2>2 DEF MInv, OneApplies
  <2> QED
    BY <2>1, <2>2
<1>2. InOrder'
  <2>1. ASSUME NEW n \in Migrator, n # m
        PROVE  /\ migrator'[n].at \in {"executes", "records"} =>
                    /\ migrator'[n].key \in Carries[migrator'[n].release]
                    /\ \A k \in Carries[migrator'[n].release] : k < migrator'[n].key => k \in applied'
               /\ migrator'[n].at = "records" => migrator'[n].key \in executed'
    <3>1. migrator'[n] = migrator[n]
      BY <2>1
    <3> QED
      BY <3>1 DEF MInv, InOrder
  <2> QED
    BY <2>1 DEF InOrder
<1>3. ServesOnItsSchema'
  BY DEF MInv, ServesOnItsSchema
<1>4. NoGaps'
  <2> SUFFICES ASSUME NEW k \in applied'
               PROVE  \E release \in Release :
                        /\ k \in Carries[release]
                        /\ {other \in Carries[release] : other < k} \subseteq applied'
    BY DEF NoGaps
  <2>1. CASE k \in applied
    BY <2>1 DEF MInv, NoGaps
  <2>2. CASE k = migrator[m].key /\ migrator[m].at = "records"
    <3>1. migrator[m].release \in Release
      BY DEF MInv, TypeOK
    <3>2. /\ k \in Carries[migrator[m].release]
          /\ \A other \in Carries[migrator[m].release] : other < k => other \in applied
      BY <2>2 DEF MInv, InOrder
    <3> QED
      BY <3>1, <3>2
  <2> QED
    BY <2>1, <2>2
<1> QED
  BY <1>1, <1>2, <1>3, <1>4 DEF MInv

\* A step that moves a process only, which serves on what was executed.
LEMMA ProcessMInv ==
  ASSUME MInv, TypeOK', UNCHANGED <<applied, executed, lock, migrator>>,
         \A p \in Process : process'[p].at \in {"ready", "unready"} =>
           Carries[process'[p].release] \subseteq executed
  PROVE  MInv'
BY DEF MInv, OneApplies, InOrder, ServesOnItsSchema, NoGaps

\* apply reads the ledger, before it has the lock.
LEMMA ApplyMInv ==
  ASSUME MInv, NEW m \in Migrator, NEW release \in Release, Apply(m, release)
  PROVE  MInv'
<1>1. PICK at \in {"waits", "refused"} :
        migrator' = [migrator EXCEPT ![m] = [release |-> release, key |-> 0, at |-> at]]
  BY DEF Apply
<1>2. /\ migrator'[m].at \in {"waits", "refused"}
      /\ \A n \in Migrator : n # m => migrator'[n] = migrator[n]
  BY <1>1 DEF MInv, TypeOK
<1>3. TypeOK'
  BY <1>1 DEF Apply, MInv, TypeOK, Idle
<1>4. /\ applied' = applied /\ executed' = executed /\ lock' = lock /\ process' = process
      /\ applied \subseteq executed
  BY DEF Apply, MInv
<1>5. migrator'[m].at \notin Locked
  BY <1>2
<1>6. MigratorStep(m)
  BY <1>2, <1>4, <1>5 DEF MigratorStep
<1> QED
  BY <1>3, <1>6, MigratorMInv

\* A migrator that goes on to an entry.
LEMMA ToEntry ==
  ASSUME TypeOK, NEW m \in Migrator, NEW k \in Key, NEW at \in Locked,
         migrator' = [migrator EXCEPT ![m].at = at, ![m].key = k],
         applied' \in SUBSET Key, executed' \in SUBSET Key, lock' \in Migrator \union {Nobody},
         UNCHANGED <<process, kills>>
  PROVE  /\ TypeOK'
         /\ migrator'[m].at = at /\ migrator'[m].key = k
         /\ migrator'[m].release = migrator[m].release
         /\ \A n \in Migrator : n # m => migrator'[n] = migrator[n]
<1> DEFINE Where == [release : Release, key : Key \union {0},
                     at : Idle \union {"waits"} \union Locked]
           next == [[migrator[m] EXCEPT !.at = at] EXCEPT !.key = k]
<1>1. migrator \in [Migrator -> Where]
  BY DEF TypeOK
<1>2. migrator' = [migrator EXCEPT ![m] = next]
  BY <1>1
<1>3. migrator[m] \in Where
  BY <1>1
<1>4. next \in Where /\ next.at = at /\ next.key = k /\ next.release = migrator[m].release
  BY <1>3
<1> HIDE DEF Where, next
<1>5. migrator' \in [Migrator -> Where]
  BY <1>1, <1>2, <1>4
<1>6. TypeOK'
  BY <1>5 DEF TypeOK, Where
<1>7. migrator'[m] = next /\ \A n \in Migrator : n # m => migrator'[n] = migrator[n]
  BY <1>1, <1>2
<1> QED
  BY <1>4, <1>6, <1>7

\* The lock is free, and the migrator begins with its first entry.
LEMMA LockMInv == ASSUME MInv, NEW m \in Migrator, Lock(m) PROVE MInv'
<1> DEFINE release == migrator[m].release
<1>1. PICK k \in First(Carries[release]) :
        migrator' = [migrator EXCEPT ![m].at = "executes", ![m].key = k]
  BY DEF Lock
<1>2. /\ release \in Release /\ Carries[release] \subseteq Key /\ Key \subseteq Nat
      /\ k \in Carries[release] /\ \A other \in Carries[release] : k <= other
  <2>1. release \in Release
    BY DEF MInv, TypeOK
  <2> QED
    BY <1>1, <2>1, MigrateAssumption DEF First
<1>3. /\ migrator'[m].release = release /\ migrator'[m].key = k /\ migrator'[m].at = "executes"
      /\ \A n \in Migrator : n # m => migrator'[n] = migrator[n]
      /\ TypeOK'
  <2>1. lock' = m /\ UNCHANGED <<applied, executed, process, kills>>
    BY DEF Lock
  <2>2. /\ TypeOK /\ k \in Key /\ applied' \in SUBSET Key /\ executed' \in SUBSET Key
        /\ lock' \in Migrator \union {Nobody}
    BY <1>2, <2>1 DEF MInv, TypeOK
  <2> QED
    BY <1>1, <2>1, <2>2, ToEntry
<1>5. \A other \in Carries[release] : ~(other < k)
  <2> SUFFICES ASSUME NEW other \in Carries[release] PROVE ~(other < k)
    OBVIOUS
  <2>1. other \in Nat /\ k \in Nat /\ k <= other
    BY <1>2
  <2> QED
    BY <2>1
<1>6. lock = Nobody /\ lock' = m /\ UNCHANGED <<applied, executed, process>>
  BY DEF Lock
<1>7. Nobody \notin Migrator
  BY MigrateAssumption
<1>8. applied \subseteq executed
  BY DEF MInv
<1>9. MigratorStep(m)
  BY <1>2, <1>3, <1>5, <1>6, <1>7, <1>8 DEF MigratorStep
<1> QED
  BY <1>3, <1>9, MigratorMInv

\* An entry is executed, in a transaction of its own.
LEMMA ExecuteMInv == ASSUME MInv, NEW m \in Migrator, Execute(m) PROVE MInv'
<1>1. migrator[m].at = "executes" /\ lock = m
  BY DEF Execute, MInv, OneApplies
<1>2. /\ migrator'[m].at = "records" /\ migrator'[m].key = migrator[m].key
      /\ migrator'[m].release = migrator[m].release
      /\ \A n \in Migrator : n # m => migrator'[n] = migrator[n]
  BY DEF Execute, MInv, TypeOK
<1>3. /\ migrator[m].key \in Carries[migrator[m].release]
      /\ \A k \in Carries[migrator[m].release] : k < migrator[m].key => k \in applied
  BY <1>1 DEF MInv, InOrder
<1>4. Carries[migrator[m].release] \subseteq Key
  BY MigrateAssumption DEF MInv, TypeOK
<1>5. TypeOK'
  BY <1>3, <1>4 DEF Execute, MInv, TypeOK
<1>6. /\ executed' = executed \union {migrator[m].key}
      /\ UNCHANGED <<applied, lock, process>>
  BY DEF Execute
<1>7. MigratorStep(m)
  BY <1>1, <1>2, <1>3, <1>6 DEF MigratorStep, MInv
<1> QED
  BY <1>5, <1>7, MigratorMInv

\* The entry just executed is recorded, and the next one that the release carries
\* follows.
LEMMA RecordMInv == ASSUME MInv, NEW m \in Migrator, Record(m) PROVE MInv'
<1> DEFINE release == migrator[m].release
           later == {k \in Carries[release] : k > migrator[m].key}
<1>1. migrator[m].at = "records" /\ lock = m
  BY DEF Record, MInv, OneApplies
<1>2. /\ release \in Release /\ Carries[release] \subseteq Key /\ Key \subseteq Nat
      /\ migrator[m].key \in Carries[release] /\ migrator[m].key \in executed
      /\ \A k \in Carries[release] : k < migrator[m].key => k \in applied
  BY <1>1, MigrateAssumption DEF MInv, TypeOK, InOrder
<1>3. /\ applied' = applied \union {migrator[m].key}
      /\ UNCHANGED <<executed, lock, process, kills>>
  BY DEF Record
<1>4. CASE \E k \in First(later) : migrator' = [migrator EXCEPT ![m].at = "executes", ![m].key = k]
  <2>1. PICK k \in First(later) : migrator' = [migrator EXCEPT ![m].at = "executes", ![m].key = k]
    BY <1>4
  <2>2. k \in Carries[release] /\ \A other \in later : k <= other
    BY <2>1 DEF First
  <2>3. /\ TypeOK' /\ migrator'[m].at = "executes" /\ migrator'[m].key = k
        /\ migrator'[m].release = release
        /\ \A n \in Migrator : n # m => migrator'[n] = migrator[n]
    <3>1. /\ TypeOK /\ k \in Key /\ applied' \in SUBSET Key /\ executed' \in SUBSET Key
          /\ lock' \in Migrator \union {Nobody}
      BY <1>2, <1>3, <2>2 DEF MInv, TypeOK
    <3> QED
      BY <1>3, <2>1, <3>1, ToEntry
  <2>4. \A other \in Carries[release] : other < k => other \in applied'
    <3> SUFFICES ASSUME NEW other \in Carries[release], other < k PROVE other \in applied'
      OBVIOUS
    <3>1. other \in Nat /\ k \in Nat /\ migrator[m].key \in Nat
      BY <1>2, <2>2
    <3>2. other \notin later
      BY <2>2, <3>1
    <3>3. other < migrator[m].key \/ other = migrator[m].key
      BY <3>1, <3>2
    <3> QED
      BY <1>2, <1>3, <3>3
  <2>5. MigratorStep(m)
    BY <1>1, <1>2, <1>3, <2>2, <2>3, <2>4 DEF MigratorStep, MInv
  <2> QED
    BY <2>3, <2>5, MigratorMInv
<1>5. CASE migrator' = [migrator EXCEPT ![m].at = "withholds"]
  <2>1. /\ migrator'[m].at = "withholds"
        /\ \A n \in Migrator : n # m => migrator'[n] = migrator[n]
    BY <1>5 DEF MInv, TypeOK
  <2>2. TypeOK'
    BY <1>2, <1>3, <1>5 DEF MInv, TypeOK
  <2>3. MigratorStep(m)
    BY <1>1, <1>2, <1>3, <2>1 DEF MigratorStep, MInv
  <2> QED
    BY <2>2, <2>3, MigratorMInv
<1> QED
  BY <1>4, <1>5 DEF Record

\* The writes are withheld while the migrator has the lock, and nothing is recorded.
LEMMA WithholdMInv == ASSUME MInv, NEW m \in Migrator, Withhold(m) PROVE MInv'
<1>1. migrator[m].at \in Locked /\ lock = m
  BY DEF Withhold, MInv, OneApplies
<1>2. PICK at \in {"grants", "unlocks"} : migrator' = [migrator EXCEPT ![m].at = at]
  BY DEF Withhold, MInv, TypeOK
<1>3. /\ migrator'[m].at = at
      /\ \A n \in Migrator : n # m => migrator'[n] = migrator[n]
  BY <1>2 DEF MInv, TypeOK
<1>4. TypeOK'
  BY <1>2 DEF Withhold, MInv, TypeOK
<1>5. MigratorStep(m)
  BY <1>1, <1>3 DEF Withhold, MigratorStep, MInv
<1> QED
  BY <1>4, <1>5, MigratorMInv

\* The migrator lets the lock go, at its end or with its session.
LEMMA EndsMInv == ASSUME MInv, NEW m \in Migrator, Unlock(m) \/ Killed(m) PROVE MInv'
<1>1. PICK at \in {"finished", "off"} : migrator' = [migrator EXCEPT ![m].at = at, ![m].key = 0]
  BY DEF Unlock, Killed
<1>2. /\ migrator'[m].at \in {"finished", "off"}
      /\ \A n \in Migrator : n # m => migrator'[n] = migrator[n]
  BY <1>1 DEF MInv, TypeOK
<1>3. \A n \in Migrator : n # m /\ lock = n => lock' = n
  BY DEF Unlock, Killed, MInv, OneApplies
<1>4. lock' \in {lock, Nobody} /\ kills' \in 0..MaxKills /\ UNCHANGED <<applied, executed, process>>
  BY MigrateAssumption DEF Unlock, Killed, MInv, TypeOK
<1>5. TypeOK'
  <2> DEFINE Where == [release : Release, key : Key \union {0},
                       at : Idle \union {"waits"} \union Locked]
             next == [[migrator[m] EXCEPT !.at = at] EXCEPT !.key = 0]
  <2>1. migrator \in [Migrator -> Where]
    BY DEF MInv, TypeOK
  <2>2. migrator' = [migrator EXCEPT ![m] = next]
    BY <1>1, <2>1
  <2>3. next \in Where
    BY <2>1 DEF Idle
  <2> HIDE DEF Where, next
  <2>4. migrator' \in [Migrator -> Where]
    BY <2>1, <2>2, <2>3
  <2>5. /\ applied' \in SUBSET Key /\ executed' \in SUBSET Key /\ lock' \in Migrator \union {Nobody}
        /\ process' \in [Process -> [release : Release, at : {"off", "ready", "unready", "refused"}]]
        /\ kills' \in 0..MaxKills
    BY <1>4 DEF MInv, TypeOK
  <2> QED
    BY <2>4, <2>5 DEF TypeOK, Where
<1>6. MigratorStep(m)
  BY <1>2, <1>3, <1>4 DEF MigratorStep, MInv
<1> QED
  BY <1>5, <1>6, MigratorMInv

\* check compares the ledger with the entries, and the ledger does not run ahead.
LEMMA ServeMInv ==
  ASSUME MInv, NEW p \in Process,
         (\E release \in Release : Start(p, release)) \/ Probe(p) \/ Stop(p)
  PROVE  MInv'
<1>1. \A release \in Release : Checks(release) => Carries[release] \subseteq executed
  BY DEF Checks, Missing, MInv
<1>2. UNCHANGED <<applied, executed, lock, migrator, kills>>
  BY DEF Start, Probe, Stop
<1>3. CASE \E release \in Release : Start(p, release)
  <2>1. PICK release \in Release, at \in {"ready", "refused"} :
          /\ process' = [process EXCEPT ![p] = [release |-> release, at |-> at]]
          /\ at = "ready" => Checks(release)
    BY <1>3 DEF Start
  <2>2. TypeOK'
    BY <1>2, <2>1 DEF MInv, TypeOK
  <2>3. /\ process'[p] = [release |-> release, at |-> at]
        /\ \A q \in Process : q # p => process'[q] = process[q]
    BY <2>1 DEF MInv, TypeOK
  <2>4. \A q \in Process : process'[q].at \in {"ready", "unready"} =>
          Carries[process'[q].release] \subseteq executed
    BY <1>1, <2>1, <2>3 DEF MInv, ServesOnItsSchema
  <2> QED
    BY <1>2, <2>2, <2>4, ProcessMInv
<1>4. CASE Probe(p) \/ Stop(p)
  <2>1. process[p].at \in {"ready", "unready"}
    BY <1>4 DEF Probe, Stop
  <2>2. PICK at \in {"ready", "unready", "off"} : process' = [process EXCEPT ![p].at = at]
    BY <1>4 DEF Probe, Stop
  <2>3. TypeOK'
    BY <1>2, <2>2 DEF MInv, TypeOK
  <2>4. \A q \in Process : process'[q].release = process[q].release
                           /\ (q # p => process'[q].at = process[q].at)
    BY <2>2 DEF MInv, TypeOK
  <2>5. \A q \in Process : process'[q].at \in {"ready", "unready"} =>
          Carries[process'[q].release] \subseteq executed
    BY <2>1, <2>4 DEF MInv, ServesOnItsSchema
  <2> QED
    BY <1>2, <2>3, <2>5, ProcessMInv
<1> QED
  BY <1>3, <1>4

\* In every state the release steps and the processes can reach, the ledger, the
\* schema, the lock and what each migrator is at agree.
THEOREM LedgerInductive == Spec => []MInv
<1>1. Init => MInv
  BY InitMInv
<1>2. MInv /\ [Next]_vars => MInv'
  <2> SUFFICES ASSUME MInv, [Next]_vars PROVE MInv'
    OBVIOUS
  <2>1. CASE UNCHANGED vars
    BY <2>1 DEF vars, MInv, TypeOK, OneApplies, InOrder, ServesOnItsSchema, NoGaps
  <2>2. CASE \E m \in Migrator, release \in Release : Apply(m, release)
    BY <2>2, ApplyMInv
  <2>3. CASE \E m \in Migrator : Lock(m) \/ Execute(m) \/ Record(m) \/ Withhold(m) \/ Unlock(m) \/ Killed(m)
    BY <2>3, LockMInv, ExecuteMInv, RecordMInv, WithholdMInv, EndsMInv
  <2>4. CASE \E p \in Process : (\E release \in Release : Start(p, release)) \/ Probe(p) \/ Stop(p)
    BY <2>4, ServeMInv
  <2> QED
    BY <2>1, <2>2, <2>3, <2>4 DEF Next
<1> QED
  BY <1>1, <1>2, PTL DEF Spec

\* Every variable keeps its type: a migrator is at an entry of the code, and the
\* lock is with a migrator or nobody.
THEOREM TypeCorrect == Spec => []TypeOK
<1>1. MInv => TypeOK
  BY DEF MInv
<1> QED
  BY <1>1, LedgerInductive, PTL

\* A process that check let start, or that was ready once, always runs on a
\* database that every entry of its release was executed on.
THEOREM SchemaIsThere == Spec => []ServesOnItsSchema
<1>1. MInv => ServesOnItsSchema
  BY DEF MInv
<1> QED
  BY <1>1, LedgerInductive, PTL

\* Kills and entries added below existing keys leave no gap in the ledger.
THEOREM LedgerHasNoGaps == Spec => []NoGaps
<1>1. MInv => NoGaps
  BY DEF MInv
<1> QED
  BY <1>1, LedgerInductive, PTL

\* Entries are executed and recorded by the holder of the advisory lock alone.
THEOREM OneAtATime == Spec => []OneApplies
<1>1. MInv => OneApplies
  BY DEF MInv
<1> QED
  BY <1>1, LedgerInductive, PTL

-----------------------------------------------------------------------------
(* The rights.                                                             *)

\* A step that moves the rights too is a step of the release step.
LEMMA RightsStep == ASSUME [NextRights]_allvars PROVE [Next]_vars
BY DEF NextRights, Next, OtherStep, ExecuteSchema, ExecuteCreate, ExecuteOther,
       WithholdLedger, WithholdEvents, Provision, allvars, vars

\* The release step with its rights is the release step: whatever is true of one
\* that leaves the rights out is true of one that has them.
THEOREM RightsImplementMigrate == SpecRights => Spec
<1>1. InitRights => Init
  BY DEF InitRights
<1>2. [NextRights]_allvars => [Next]_vars
  BY RightsStep
<1> QED
  BY <1>1, <1>2, PTL DEF SpecRights, Spec

\* The columns of audit_events are those that the entries which were executed give
\* it, whichever release made the table, and no value is inserted into the others.
ColumnsGrow ==
  /\ inserts \subseteq columns \ Filled
  /\ EventsThere => \E release \in Release : Columns[release] \subseteq columns
  /\ \A k \in executed : Adds[k] \subseteq columns
  /\ ~EventsThere => columns = {}

\* Where a migrator executed each entry that its release carries.
PastItsEntries(m) == migrator[m].at \in {"withholds", "grants", "unlocks", "finished"}

ExecutedThem == \A m \in Migrator :
  PastItsEntries(m) => Carries[migrator[m].release] \subseteq executed

\* What a migrator has withheld and granted by where it is.
WithheldSoFar == \A m \in Migrator : provisioned =>
  /\ migrator[m].at \in {"grants", "unlocks", "finished"} => LedgerIsWithheld
  /\ migrator[m].at \in {"unlocks", "finished"} =>
       EventsAreWithheld /\ Columns[migrator[m].release] \ Filled \subseteq inserts

RInv == RightsTypeOK /\ ColumnsGrow /\ ExecutedThem /\ WithheldSoFar

\* The application may do nothing in a database that nothing was executed on.
LEMMA InitRInv == ASSUME InitRights PROVE RInv
<1>1. executed = {} /\ provisioned = FALSE /\ \A m \in Migrator : migrator[m].at = "off"
  BY DEF InitRights, Init
<1> QED
  BY <1>1 DEF InitRights, RInv, RightsTypeOK, ColumnsGrow, EventsThere, ExecutedThem,
     PastItsEntries, WithheldSoFar

\* A migrator passes its last entry by recording it, and then changes its release
\* only to begin again.
LEMMA PastMigrator ==
  ASSUME MInv, NEW m \in Migrator, NEW n \in Migrator,
         \/ \E release \in Release : Apply(m, release)
         \/ Lock(m) \/ Execute(m) \/ Record(m) \/ Withhold(m) \/ Unlock(m) \/ Killed(m),
         PastItsEntries(n)'
  PROVE  /\ migrator'[n].release = migrator[n].release
         /\ PastItsEntries(n) \/ (n = m /\ Record(m) /\ migrator'[m].at = "withholds")
<1>1. CASE n # m
  BY <1>1 DEF MInv, TypeOK, PastItsEntries, Apply, Lock, Execute, Record, Withhold, Unlock, Killed
<1>2. CASE n = m /\ \E release \in Release : Apply(m, release)
  BY <1>2 DEF MInv, TypeOK, PastItsEntries, Apply
<1>3. CASE n = m /\ Lock(m)
  <2>1. PICK k \in First(Carries[migrator[m].release]) :
          migrator' = [migrator EXCEPT ![m].at = "executes", ![m].key = k]
    BY <1>3 DEF Lock
  <2> QED
    BY <1>3, <2>1 DEF MInv, TypeOK, PastItsEntries
<1>4. CASE n = m /\ Execute(m)
  BY <1>4 DEF MInv, TypeOK, PastItsEntries, Execute
<1>5. CASE n = m /\ Record(m)
  <2> DEFINE later == {k \in Carries[migrator[m].release] : k > migrator[m].key}
  <2>1. CASE migrator' = [migrator EXCEPT ![m].at = "withholds"]
    BY <1>5, <2>1 DEF MInv, TypeOK
  <2>2. ASSUME NEW k \in First(later),
               migrator' = [migrator EXCEPT ![m].at = "executes", ![m].key = k]
        PROVE  FALSE
    BY <1>5, <2>2 DEF MInv, TypeOK, PastItsEntries
  <2> QED
    BY <1>5, <2>1, <2>2 DEF Record
<1>6. CASE n = m /\ (Withhold(m) \/ Unlock(m) \/ Killed(m))
  BY <1>6 DEF MInv, TypeOK, PastItsEntries, Withhold, Unlock, Killed
<1> QED
  BY <1>1, <1>2, <1>3, <1>4, <1>5, <1>6

\* Nothing that was executed is taken back.
LEMMA ExecutedGrows == ASSUME [Next]_vars PROVE executed \subseteq executed'
BY DEF Next, vars, Apply, Lock, Execute, Record, Withhold, Unlock, Killed, Start, Probe, Stop

\* A migrator past its entries executed each of them.
LEMMA ExecutedThemStep == ASSUME MInv, ExecutedThem, [Next]_vars PROVE ExecutedThem'
<1>1. executed \subseteq executed'
  BY ExecutedGrows
<1> SUFFICES ASSUME NEW n \in Migrator, PastItsEntries(n)'
             PROVE  Carries[migrator'[n].release] \subseteq executed'
  BY DEF ExecutedThem
<1>2. CASE migrator' = migrator
  BY <1>1, <1>2 DEF ExecutedThem, PastItsEntries
<1>3. ASSUME NEW m \in Migrator,
             \/ \E release \in Release : Apply(m, release)
             \/ Lock(m) \/ Execute(m) \/ Record(m) \/ Withhold(m) \/ Unlock(m) \/ Killed(m)
      PROVE  Carries[migrator'[n].release] \subseteq executed'
  <2>1. /\ migrator'[n].release = migrator[n].release
        /\ PastItsEntries(n) \/ (n = m /\ Record(m) /\ migrator'[m].at = "withholds")
    BY <1>3, PastMigrator
  <2>2. CASE PastItsEntries(n)
    BY <1>1, <2>1, <2>2 DEF ExecutedThem
  <2>3. CASE n = m /\ Record(m) /\ migrator'[m].at = "withholds"
    <3> DEFINE release == migrator[m].release
               later == {k \in Carries[release] : k > migrator[m].key}
    <3>1. migrator[m].at = "records"
      BY <2>3 DEF Record
    <3>2. /\ release \in Release /\ Carries[release] \subseteq Key /\ Key \subseteq Nat
          /\ migrator[m].key \in Carries[release] /\ migrator[m].key \in executed
          /\ \A k \in Carries[release] : k < migrator[m].key => k \in executed
      BY <3>1, MigrateAssumption DEF MInv, TypeOK, InOrder
    <3>3. later = {}
      <4>1. ASSUME NEW k \in First(later),
                   migrator' = [migrator EXCEPT ![m].at = "executes", ![m].key = k]
            PROVE  FALSE
        BY <2>3, <4>1 DEF MInv, TypeOK
      <4> QED
        BY <2>3, <4>1 DEF Record
    <3>4. ASSUME NEW k \in Carries[release] PROVE k \in executed
      <4>1. k \in Nat /\ migrator[m].key \in Nat /\ ~(k > migrator[m].key)
        BY <3>2, <3>3
      <4>2. k < migrator[m].key \/ k = migrator[m].key
        BY <4>1
      <4> QED
        BY <3>2, <4>2
    <3> QED
      BY <1>1, <2>1, <2>3, <3>4
  <2> QED
    BY <2>1, <2>2, <2>3
<1> QED
  BY <1>2, <1>3 DEF Next, vars, Start, Probe, Stop

\* The columns of a release that was executed whole are there, whichever release
\* made the table.
LEMMA ColumnsThere ==
  ASSUME ColumnsGrow, NEW release \in Release, Carries[release] \subseteq executed
  PROVE  Columns[release] \subseteq columns
<1>1. EventsThere
  BY RightsAssumption DEF EventsThere, First
<1>2. PICK maker \in Release : Columns[maker] \subseteq columns
  BY <1>1 DEF ColumnsGrow
<1>3. Columns[release] \subseteq Columns[maker] \union UNION {Adds[k] : k \in Carries[release]}
  BY RightsAssumption
<1>4. \A k \in Carries[release] : Adds[k] \subseteq columns
  BY DEF ColumnsGrow
<1> QED
  BY <1>2, <1>3, <1>4

\* A step of the rights: what was withheld and granted is kept, and no column is lost.
KeepsRights ==
  /\ provisioned => provisioned'
  /\ LedgerIsWithheld => LedgerIsWithheld'
  /\ EventsAreWithheld => EventsAreWithheld'
  /\ columns \subseteq columns'
  /\ provisioned => inserts \subseteq inserts'

\* Every step is one.
LEMMA RightsKept == ASSUME RInv, [NextRights]_allvars PROVE KeepsRights
<1> USE DEF KeepsRights, LedgerIsWithheld, EventsAreWithheld, LedgerThere, EventsThere, Withheld
<1>1. /\ executed \subseteq executed' /\ inserts \subseteq columns \ Filled
      /\ provisioned \in BOOLEAN /\ (EventsKey \notin executed => columns = {})
  BY RightsStep, ExecutedGrows DEF RInv, RightsTypeOK, ColumnsGrow
<1>2. CASE UNCHANGED rights
  BY <1>1, <1>2 DEF rights
<1>3. ASSUME NEW m \in Migrator, ExecuteSchema(m) PROVE KeepsRights
  BY <1>1, <1>3 DEF ExecuteSchema
<1>4. ASSUME NEW m \in Migrator, ExecuteCreate(m) PROVE KeepsRights
  BY <1>1, <1>4 DEF ExecuteCreate
<1>5. ASSUME NEW m \in Migrator, ExecuteOther(m) PROVE KeepsRights
  BY <1>1, <1>5 DEF ExecuteOther
<1>6. ASSUME NEW m \in Migrator, WithholdLedger(m) \/ WithholdEvents(m) PROVE KeepsRights
  BY <1>1, <1>6 DEF WithholdLedger, WithholdEvents, Insertable
<1>7. CASE Provision
  BY <1>1, <1>7 DEF Provision, DML, vars
<1> QED
  BY <1>2, <1>3, <1>4, <1>5, <1>6, <1>7 DEF NextRights, allvars

\* What a step does to a migrator that has withheld or granted something: it had
\* done so before, or it is the statement that does it.
LEMMA WithheldMigrator ==
  ASSUME MInv, NEW n \in Migrator, [NextRights]_allvars,
         migrator'[n].at \in {"grants", "unlocks", "finished"}
  PROVE  /\ migrator'[n].release = migrator[n].release
         /\ PastItsEntries(n)
         /\ migrator[n].at \in {"grants", "unlocks", "finished"} \/ WithholdLedger(n)
         /\ migrator'[n].at \in {"unlocks", "finished"} =>
              migrator[n].at \in {"unlocks", "finished"} \/ WithholdEvents(n)
<1>1. CASE migrator' = migrator
  BY <1>1 DEF PastItsEntries
<1>2. ASSUME NEW m \in Migrator,
             \/ \E release \in Release : Apply(m, release)
             \/ Lock(m) \/ Execute(m) \/ Record(m) \/ Withhold(m) \/ Unlock(m) \/ Killed(m)
      PROVE  migrator'[n].release = migrator[n].release /\ PastItsEntries(n)
  BY <1>2, PastMigrator DEF PastItsEntries
<1>3. ASSUME NEW m \in Migrator, WithholdLedger(m) \/ WithholdEvents(m)
      PROVE  /\ migrator[n].at \in {"grants", "unlocks", "finished"} \/ WithholdLedger(n)
             /\ migrator'[n].at \in {"unlocks", "finished"} =>
                  migrator[n].at \in {"unlocks", "finished"} \/ WithholdEvents(n)
  BY <1>3 DEF WithholdLedger, WithholdEvents, Withhold, MInv, TypeOK
<1>4. ASSUME NEW m \in Migrator,
             (\E release \in Release : Apply(m, release)) \/ Lock(m) \/ Execute(m) \/ Record(m) \/ Killed(m)
      PROVE  migrator'[n] = migrator[n]
  <2>1. CASE (\E release \in Release : Apply(m, release)) \/ Execute(m) \/ Killed(m)
    BY <2>1 DEF Apply, Execute, Killed, MInv, TypeOK
  <2>2. ASSUME NEW k, NEW at \in {"executes"},
               migrator' = [migrator EXCEPT ![m].at = at, ![m].key = k]
        PROVE  migrator'[n] = migrator[n]
    BY <2>2 DEF MInv, TypeOK
  <2>3. CASE migrator' = [migrator EXCEPT ![m].at = "withholds"]
    BY <2>3 DEF MInv, TypeOK
  <2> QED
    BY <1>4, <2>1, <2>2, <2>3 DEF Lock, Record
<1>5. ASSUME NEW m \in Migrator, Unlock(m)
      PROVE  \/ migrator'[n] = migrator[n]
             \/ migrator[n].at = "unlocks"
  BY <1>5 DEF Unlock, MInv, TypeOK
<1> QED
  BY <1>1, <1>2, <1>3, <1>4, <1>5 DEF NextRights, OtherStep, allvars, vars, Provision,
     ExecuteSchema, ExecuteCreate, ExecuteOther, WithholdLedger, WithholdEvents, Start, Probe, Stop

\* What is withheld stays withheld from a migrator that withheld it.
LEMMA WithheldSoFarStep ==
  ASSUME MInv, RInv, ColumnsGrow', ExecutedThem', [NextRights]_allvars PROVE WithheldSoFar'
<1> SUFFICES ASSUME NEW n \in Migrator, provisioned',
                    migrator'[n].at \in {"grants", "unlocks", "finished"}
             PROVE  /\ LedgerIsWithheld'
                    /\ migrator'[n].at \in {"unlocks", "finished"} =>
                         EventsAreWithheld' /\ Columns[migrator'[n].release] \ Filled \subseteq inserts'
  BY DEF WithheldSoFar
<1>1. /\ migrator'[n].release = migrator[n].release
      /\ PastItsEntries(n)
      /\ migrator[n].at \in {"grants", "unlocks", "finished"} \/ WithholdLedger(n)
      /\ migrator'[n].at \in {"unlocks", "finished"} =>
           migrator[n].at \in {"unlocks", "finished"} \/ WithholdEvents(n)
  BY WithheldMigrator
<1>2. KeepsRights /\ [Next]_vars /\ executed \subseteq executed'
  BY RightsKept, RightsStep, ExecutedGrows
<1>3. migrator[n].release \in Release
  BY DEF MInv, TypeOK
<1>4. Carries[migrator[n].release] \subseteq executed
  BY <1>1 DEF RInv, ExecutedThem
<1>5. /\ Columns[migrator[n].release] \subseteq columns
      /\ EventsThere /\ LedgerThere
  BY <1>3, <1>4, ColumnsThere, RightsAssumption DEF RInv, EventsThere, LedgerThere
<1>6. CASE ~provisioned
  <2>1. Provision
    BY <1>6 DEF NextRights, OtherStep, allvars, rights, ExecuteSchema, ExecuteCreate,
           ExecuteOther, WithholdLedger, WithholdEvents
  <2> QED
    BY <1>1, <1>2, <1>5, <2>1 DEF Provision, LedgerIsWithheld, EventsAreWithheld,
           LedgerThere, EventsThere, Withheld
<1>7. CASE provisioned
  <2>1. LedgerIsWithheld'
    <3>1. CASE migrator[n].at \in {"grants", "unlocks", "finished"}
      BY <1>2, <1>7, <3>1 DEF RInv, WithheldSoFar, KeepsRights
    <3>2. CASE WithholdLedger(n)
      BY <1>2, <1>5, <1>7, <3>2 DEF WithholdLedger, LedgerIsWithheld, LedgerThere, Withheld
    <3> QED
      BY <1>1, <3>1, <3>2
  <2>2. ASSUME migrator'[n].at \in {"unlocks", "finished"}
        PROVE  EventsAreWithheld' /\ Columns[migrator'[n].release] \ Filled \subseteq inserts'
    <3>1. CASE migrator[n].at \in {"unlocks", "finished"}
      BY <1>1, <1>2, <1>7, <3>1 DEF RInv, WithheldSoFar, KeepsRights
    <3>2. CASE WithholdEvents(n)
      BY <1>1, <1>2, <1>5, <1>7, <3>2 DEF WithholdEvents, EventsAreWithheld, EventsThere,
         Withheld, Insertable
    <3> QED
      BY <1>1, <2>2, <3>1, <3>2
  <2> QED
    BY <2>1, <2>2
<1> QED
  BY <1>6, <1>7 DEF RInv, RightsTypeOK

\* The columns of a step.
LEMMA ColumnsGrowStep == ASSUME MInv, MInv', RInv, [NextRights]_allvars PROVE ColumnsGrow'
<1> USE DEF ColumnsGrow, EventsThere
<1>1. ColumnsGrow
  BY DEF RInv
<1>2. CASE UNCHANGED <<executed, columns, inserts>>
  BY <1>1, <1>2
<1>3. ASSUME NEW m \in Migrator, migrator[m].at = "executes"
      PROVE  /\ migrator[m].release \in Release
             /\ migrator[m].key \in Carries[migrator[m].release]
             /\ migrator[m].key \in Key /\ Key \subseteq Nat
             /\ Adds[migrator[m].key] # {} => EventsKey \in executed /\ migrator[m].key # EventsKey
             /\ migrator[m].key \in First(Carries[migrator[m].release]) =>
                  migrator[m].key # EventsKey /\ Adds[migrator[m].key] = {}
  <2>1. /\ migrator[m].release \in Release /\ Key \subseteq Nat
        /\ migrator[m].key \in Carries[migrator[m].release]
        /\ migrator[m].key \in Key
    BY <1>3, MigrateAssumption DEF MInv, TypeOK, InOrder
  <2>2. \A k \in Carries[migrator[m].release] : k < migrator[m].key => k \in executed
    BY <1>3 DEF MInv, InOrder
  <2>3. EventsKey \in Carries[migrator[m].release] \ First(Carries[migrator[m].release])
    <3>1. PICK k \in Carries[migrator[m].release] : k < EventsKey
      BY <2>1, RightsAssumption
    <3>2. EventsKey \in Carries[migrator[m].release] /\ EventsKey \in Nat /\ k \in Nat
      BY <2>1, RightsAssumption, MigrateAssumption
    <3> QED
      BY <3>1, <3>2 DEF First
  <2>4. Adds[migrator[m].key] # {} => migrator[m].key > EventsKey
    BY <2>1, RightsAssumption
  <2>5. EventsKey \in Nat /\ migrator[m].key \in Nat
    BY <2>1, <2>3, MigrateAssumption
  <2>6. migrator[m].key \in First(Carries[migrator[m].release]) => migrator[m].key <= EventsKey
    BY <2>3 DEF First
  <2> QED
    BY <2>1, <2>2, <2>3, <2>4, <2>5, <2>6
<1>4. ASSUME NEW m \in Migrator, ExecuteSchema(m) PROVE ColumnsGrow'
  <2>1. /\ executed' = executed \union {migrator[m].key} /\ UNCHANGED <<columns, inserts>>
        /\ migrator[m].at = "executes" /\ migrator[m].key \in First(Carries[migrator[m].release])
    BY <1>4 DEF ExecuteSchema, Execute
  <2> QED
    BY <1>1, <1>3, <2>1
<1>5. ASSUME NEW m \in Migrator, ExecuteCreate(m) PROVE ColumnsGrow'
  <2>1. /\ executed' = executed \union {EventsKey} /\ UNCHANGED inserts
        /\ migrator[m].at = "executes" /\ migrator[m].key = EventsKey
        /\ IF EventsKey \in executed THEN UNCHANGED columns
                                     ELSE columns' = Columns[migrator[m].release]
    BY <1>5 DEF ExecuteCreate, Execute
  <2>2. Adds[EventsKey] = {} /\ migrator[m].release \in Release
    BY <1>3, <2>1
  <2>3. CASE EventsKey \in executed
    <3>1. UNCHANGED <<executed, columns, inserts>>
      BY <2>1, <2>3
    <3> QED
      BY <1>2, <3>1
  <2>4. CASE EventsKey \notin executed
    <3>1. columns = {} /\ inserts' = {} /\ columns' = Columns[migrator[m].release]
      BY <1>1, <2>1, <2>4
    <3>2. \A k \in executed' : Adds[k] = {}
      BY <1>1, <2>1, <2>2, <3>1
    <3>3. EventsKey \in executed'
      BY <2>1
    <3> QED
      BY <2>2, <3>1, <3>2, <3>3
  <2> QED
    BY <2>3, <2>4
<1>6. ASSUME NEW m \in Migrator, ExecuteOther(m) PROVE ColumnsGrow'
  <2>1. /\ executed' = executed \union {migrator[m].key} /\ UNCHANGED inserts
        /\ columns' = columns \union Adds[migrator[m].key]
        /\ migrator[m].at = "executes" /\ migrator[m].key # EventsKey
    BY <1>6 DEF ExecuteOther, Execute
  <2>2. EventsThere' <=> EventsThere
    BY <2>1
  <2>3. ~EventsThere => columns' = {}
    BY <1>1, <1>3, <2>1
  <2>4. \A k \in executed' : Adds[k] \subseteq columns'
    BY <1>1, <2>1
  <2> QED
    BY <1>1, <2>1, <2>2, <2>3, <2>4
<1>7. ASSUME NEW m \in Migrator, WithholdLedger(m) \/ WithholdEvents(m) PROVE ColumnsGrow'
  BY <1>1, <1>7 DEF WithholdLedger, WithholdEvents, Withhold, Insertable
<1>8. CASE Provision
  BY <1>1, <1>8 DEF Provision, vars
<1>9. CASE OtherStep /\ UNCHANGED rights
  BY <1>2, <1>9 DEF OtherStep, rights, Apply, Lock, Record, Unlock, Killed, Start, Probe, Stop
<1> QED
  BY <1>2, <1>4, <1>5, <1>6, <1>7, <1>8, <1>9 DEF NextRights, allvars, vars, rights

\* The rights keep their types: a value is inserted only into a column that is there.
LEMMA RightsTypeStep ==
  ASSUME MInv, RInv, ColumnsGrow', [NextRights]_allvars PROVE RightsTypeOK'
<1>1. inserts' \subseteq columns'
  BY DEF ColumnsGrow
<1>2. RightsTypeOK
  BY DEF RInv
<1>3. \A m \in Migrator : migrator[m].at = "executes" => migrator[m].key \in Key
  BY MigrateAssumption DEF MInv, TypeOK, InOrder
<1>4. CASE UNCHANGED rights
  BY <1>2, <1>4 DEF RightsTypeOK, rights
<1>5. ASSUME NEW m \in Migrator, ExecuteSchema(m) PROVE RightsTypeOK'
  BY <1>1, <1>2, <1>5 DEF RightsTypeOK, ExecuteSchema, Default
<1>6. ASSUME NEW m \in Migrator, ExecuteCreate(m) PROVE RightsTypeOK'
  <2>1. Columns[migrator[m].release] \subseteq Column
    BY RightsAssumption DEF MInv, TypeOK
  <2> QED
    BY <1>1, <1>2, <1>6, <2>1 DEF RightsTypeOK, ExecuteCreate, Default
<1>7. ASSUME NEW m \in Migrator, ExecuteOther(m) PROVE RightsTypeOK'
  <2>1. Adds[migrator[m].key] \subseteq Column
    BY <1>3, <1>7, RightsAssumption DEF ExecuteOther, Execute
  <2> QED
    BY <1>1, <1>2, <1>7, <2>1 DEF RightsTypeOK, ExecuteOther
<1>8. ASSUME NEW m \in Migrator, WithholdLedger(m) \/ WithholdEvents(m) PROVE RightsTypeOK'
  BY <1>1, <1>2, <1>8 DEF RightsTypeOK, WithholdLedger, WithholdEvents, Withheld
<1>9. CASE Provision
  BY <1>1, <1>2, <1>9 DEF RightsTypeOK, Provision, Withheld
<1> QED
  BY <1>4, <1>5, <1>6, <1>7, <1>8, <1>9 DEF NextRights, allvars

\* In every state of the release steps and the provisioning, the rights, the tables
\* and where each migrator is agree.
THEOREM RightsInductive == SpecRights => [](MInv /\ RInv)
<1>1. InitRights => MInv /\ RInv
  BY InitMInv, InitRInv DEF InitRights
<1>2. MInv /\ RInv /\ [NextRights]_allvars => RInv' \/ ~MInv'
  <2> SUFFICES ASSUME MInv, RInv, [NextRights]_allvars, MInv' PROVE RInv'
    OBVIOUS
  <2>1. ColumnsGrow'
    BY ColumnsGrowStep
  <2>2. ExecutedThem'
    BY RightsStep, ExecutedThemStep DEF RInv
  <2>3. RightsTypeOK' /\ WithheldSoFar'
    BY <2>1, <2>2, RightsTypeStep, WithheldSoFarStep
  <2> QED
    BY <2>1, <2>2, <2>3 DEF RInv
<1> QED
  BY <1>1, <1>2, RightsImplementMigrate, LedgerInductive, PTL DEF SpecRights

\* A release step that came to its end left the application role without a write on
\* the ledger and with an insert into every column the release names, and neither
\* an older release's step nor roles.sql takes that away.
THEOREM FinishedReleaseRecords == SpecRights => []FinishedCanRecord
<1>1. RInv => FinishedCanRecord
  BY DEF RInv, WithheldSoFar, FinishedCanRecord
<1> QED
  BY <1>1, RightsInductive, PTL

\* What was withheld once is withheld for good.
THEOREM RightsNeverReturn == SpecRights => WithheldForGood
<1>1. MInv /\ RInv /\ [NextRights]_allvars =>
        [(LedgerIsWithheld => LedgerIsWithheld')
         /\ (EventsAreWithheld => EventsAreWithheld')]_allvars
  BY RightsKept DEF KeepsRights
<1> QED
  BY <1>1, RightsInductive, PTL DEF SpecRights, WithheldForGood
=============================================================================
