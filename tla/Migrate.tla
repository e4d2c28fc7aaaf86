------------------------------ MODULE Migrate ------------------------------
(***************************************************************************)
(* The release step, app/store/migrate.py: migrators that bring a database *)
(* up to the entries their release carries, and processes of each release  *)
(* that check the ledger when they start and then serve.                   *)
(*                                                                         *)
(* Each statement of a migrator commits by itself: an entry, the key it    *)
(* records in the ledger, the lock.  The lock is the session's, and goes   *)
(* with the session when a migrator is killed.  What an entry does, and    *)
(* who may write what, is Rights.                                          *)
(***************************************************************************)
EXTENDS Naturals, FiniteSets

CONSTANTS
  Key,        \* the keys of the entries, in the order they are applied
  Release,    \* the releases
  Carries,    \* the keys that each release carries
  Migrator,   \* the runs of the release step that go on at once
  Process,    \* the processes that serve
  MaxKills,   \* bound: how often a migrator is killed or fails
  Nobody      \* the holder of a lock nobody holds

ASSUME MigrateAssumption ==
  /\ Key \subseteq Nat \ {0}
  /\ Carries \in [Release -> (SUBSET Key) \ {{}}]
  /\ Nobody \notin Migrator
  /\ MaxKills \in Nat

VARIABLES
  applied,   \* applied_once: the ledger
  executed,  \* the entries whose effect is in the database
  lock,      \* the holder of the advisory lock
  migrator,  \* the release of each migrator, where it is, and the entry it is at
  process,   \* the release of each process, and whether it serves
  kills      \* how many migrators were killed so far

vars == <<applied, executed, lock, migrator, process, kills>>

Idle == {"off", "refused", "finished"}

\* Where a migrator has the lock.
Locked == {"executes", "records", "withholds", "grants", "unlocks"}

TypeOK ==
  /\ applied \in SUBSET Key
  /\ executed \in SUBSET Key
  /\ lock \in Migrator \union {Nobody}
  /\ migrator \in [Migrator -> [release : Release, key : Key \union {0},
       at : Idle \union {"waits"} \union Locked]]
  /\ process \in [Process -> [release : Release, at : {"off", "ready", "unready", "refused"}]]
  /\ kills \in 0..MaxKills

Init ==
  /\ applied = {}
  /\ executed = {}
  /\ lock = Nobody
  /\ \E release \in Release :
       /\ migrator = [m \in Migrator |-> [release |-> release, key |-> 0, at |-> "off"]]
       /\ process = [p \in Process |-> [release |-> release, at |-> "off"]]
  /\ kills = 0

\* Keys the ledger holds that a release does not carry, and the other way round.
Unknown(release) == applied \ Carries[release]
Missing(release) == Carries[release] \ applied

\* Mutant: the entries are in no order.
MutantFirstAny(keys) == keys

First(keys) == {k \in keys : \A other \in keys : k <= other}

-----------------------------------------------------------------------------
(* apply.                                                                  *)

\* It reads the ledger before it waits for the lock.
Apply(m, release) ==
  /\ migrator[m].at \in Idle
  /\ migrator' = [migrator EXCEPT ![m] =
       [release |-> release, key |-> 0,
        at |-> IF Unknown(release) = {} THEN "waits" ELSE "refused"]]
  /\ UNCHANGED <<applied, executed, lock, process, kills>>

\* Mutant: the lock is not waited for.
MutantLockUnheld(m) ==
  /\ migrator[m].at = "waits"
  /\ lock' = m
  /\ \E k \in First(Carries[migrator[m].release]) :
       migrator' = [migrator EXCEPT ![m].at = "executes", ![m].key = k]
  /\ UNCHANGED <<applied, executed, process, kills>>

Lock(m) ==
  /\ migrator[m].at = "waits"
  /\ lock = Nobody
  /\ lock' = m
  /\ \E k \in First(Carries[migrator[m].release]) :
       migrator' = [migrator EXCEPT ![m].at = "executes", ![m].key = k]
  /\ UNCHANGED <<applied, executed, process, kills>>

\* Mutant: an entry below the last key of the ledger is passed over.
MutantExecuteNewer(m) ==
  /\ migrator[m].at = "executes"
  /\ executed' = IF \E k \in applied : k > migrator[m].key
                   THEN executed ELSE executed \union {migrator[m].key}
  /\ migrator' = [migrator EXCEPT ![m].at = "records"]
  /\ UNCHANGED <<applied, lock, process, kills>>

\* Every entry is executed again, whatever the ledger holds.
Execute(m) ==
  /\ migrator[m].at = "executes"
  /\ executed' = executed \union {migrator[m].key}
  /\ migrator' = [migrator EXCEPT ![m].at = "records"]
  /\ UNCHANGED <<applied, lock, process, kills>>

Record(m) ==
  /\ migrator[m].at = "records"
  /\ applied' = applied \union {migrator[m].key}
  /\ LET later == {k \in Carries[migrator[m].release] : k > migrator[m].key} IN
     \/ \E k \in First(later) : migrator' = [migrator EXCEPT ![m].at = "executes", ![m].key = k]
     \/ later = {} /\ migrator' = [migrator EXCEPT ![m].at = "withholds"]
  /\ UNCHANGED <<executed, lock, process, kills>>

\* _withhold_writes, one statement for the ledger and one for the audit events.
Withhold(m) ==
  /\ migrator[m].at \in {"withholds", "grants"}
  /\ migrator' = [migrator EXCEPT ![m].at = IF @ = "withholds" THEN "grants" ELSE "unlocks"]
  /\ UNCHANGED <<applied, executed, lock, process, kills>>

Unlock(m) ==
  /\ migrator[m].at = "unlocks"
  /\ lock' = Nobody
  /\ migrator' = [migrator EXCEPT ![m].at = "finished", ![m].key = 0]
  /\ UNCHANGED <<applied, executed, process, kills>>

\* Mutant: the lock outlives the migrator that held it.
MutantKilledKeepsLock(m) ==
  /\ migrator[m].at \notin Idle
  /\ kills < MaxKills
  /\ kills' = kills + 1
  /\ migrator' = [migrator EXCEPT ![m].at = "off", ![m].key = 0]
  /\ UNCHANGED <<applied, executed, lock, process>>

\* The migrator is killed, loses its connection, or an entry fails.
Killed(m) ==
  /\ migrator[m].at \notin Idle
  /\ kills < MaxKills
  /\ kills' = kills + 1
  /\ lock' = IF lock = m THEN Nobody ELSE lock
  /\ migrator' = [migrator EXCEPT ![m].at = "off", ![m].key = 0]
  /\ UNCHANGED <<applied, executed, process>>

-----------------------------------------------------------------------------
(* check, when a process starts and when it is probed.                     *)

Checks(release) == Unknown(release) = {} /\ Missing(release) = {}

Start(p, release) ==
  /\ process[p].at \in {"off", "refused"}
  /\ process' = [process EXCEPT ![p] =
       [release |-> release, at |-> IF Checks(release) THEN "ready" ELSE "refused"]]
  /\ UNCHANGED <<applied, executed, lock, migrator, kills>>

\* GET /ready of a process that serves.
Probe(p) ==
  /\ process[p].at \in {"ready", "unready"}
  /\ process' = [process EXCEPT ![p].at = IF Checks(process[p].release) THEN "ready" ELSE "unready"]
  /\ UNCHANGED <<applied, executed, lock, migrator, kills>>

Stop(p) ==
  /\ process[p].at \in {"ready", "unready"}
  /\ process' = [process EXCEPT ![p].at = "off"]
  /\ UNCHANGED <<applied, executed, lock, migrator, kills>>

Next ==
  \/ \E m \in Migrator :
       \/ \E release \in Release : Apply(m, release)
       \/ Lock(m) \/ Execute(m) \/ Record(m) \/ Withhold(m) \/ Unlock(m) \/ Killed(m)
  \/ \E p \in Process : (\E release \in Release : Start(p, release)) \/ Probe(p) \/ Stop(p)

Spec == Init /\ [][Next]_vars

\* Postgres hands the lock to each session that waits for it, and a migrator that
\* holds it goes on.
Fairness == \A m \in Migrator :
  SF_vars(Lock(m)) /\ WF_vars(Execute(m) \/ Record(m) \/ Withhold(m) \/ Unlock(m))

FairSpec == Spec /\ Fairness

-----------------------------------------------------------------------------
(* What is right about it.                                                 *)

\* Whatever was killed, a process serves only on a database that every entry of
\* its release was executed on: the ledger never runs ahead of the entries.
ServesOnItsSchema == \A p \in Process :
  process[p].at \in {"ready", "unready"} => Carries[process[p].release] \subseteq executed

\* A key is in the ledger only when each entry before it, of some release that
\* carries it, is there too: an entry added below an existing key is not passed
\* over, and a killed migrator leaves no gap.
NoGaps == \A k \in applied : \E release \in Release :
  /\ k \in Carries[release]
  /\ {other \in Carries[release] : other < k} \subseteq applied

\* Only the holder of the lock executes and records entries and withholds writes, so
\* that the steps of two releases are never interleaved, also over kills.
OneApplies == \A m \in Migrator :
  migrator[m].at \in Locked => lock = m

\* A release step that waits for the lock comes to its end: a migrator that was
\* killed does not keep the lock.
EveryStepEnds == \A m \in Migrator : migrator[m].at = "waits" ~> migrator[m].at \in Idle

\* What app/migrate.py:10 says of the lock: two releases cannot race.  No release
\* executes its entries over those of a newer one.  The code breaks it: it looks
\* for keys it does not carry before it waits for the lock, and not after.
OlderNeverOverNewer == \A m \in Migrator :
  migrator[m].at = "executes" => Unknown(migrator[m].release) = {}
=============================================================================
