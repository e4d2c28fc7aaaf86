------------------------------- MODULE Rights -------------------------------
(***************************************************************************)
(* What the application role may write, app/store/roles.py: the release    *)
(* step of Migrate with the tables its entries make, and deploy/roles.sql, *)
(* which an operator applies at any time.                                  *)
(*                                                                         *)
(* A table that the owning role creates is granted every write by its      *)
(* default privileges, and the writes that the application may never make  *)
(* are withheld after the last entry.  roles.sql is one transaction, and   *)
(* one step.  Of the tables, the ledger and audit_events are kept.         *)
(***************************************************************************)
EXTENDS Migrate

CONSTANTS
  EventsKey,      \* 0030_audit_events
  AppendOnlyKey,  \* 0032_audit_events_append_only
  Column,         \* the columns that audit_events may have
  Columns,        \* those in its CREATE, by release
  Adds,           \* the column that a repair adds, by key
  Filled          \* FILLED_BY_THE_DATABASE

\* A column lands twice, in the CREATE of its table and as a repair.
ASSUME RightsAssumption ==
  /\ Columns \in [Release -> SUBSET Column]
  /\ Adds \in [Key -> SUBSET Column]
  /\ Filled \subseteq Column
  /\ \A release \in Release :
       /\ EventsKey \in Carries[release] /\ \E k \in Carries[release] : k < EventsKey
       /\ \A k \in Carries[release] : Adds[k] # {} => k > EventsKey
       /\ \A other \in Release :
            Columns[release] \subseteq Columns[other] \union UNION {Adds[k] : k \in Carries[release]}

VARIABLES
  member,       \* whether migrators connect as members of the owning role
  provisioned,  \* whether the roles and the default privileges are there
  owner,        \* whether each migrator became the owning role
  ledger,       \* what the application role may do to applied_once
  events,       \* what it may do to audit_events
  columns,      \* the columns of audit_events
  inserts       \* the columns of audit_events it may insert a value into

rights == <<member, provisioned, owner, ledger, events, columns, inserts>>
allvars == <<vars, rights>>

DML == {"select", "insert", "update", "delete"}

RightsTypeOK ==
  /\ member \in BOOLEAN /\ provisioned \in BOOLEAN
  /\ owner \in [Migrator -> BOOLEAN]
  /\ ledger \in SUBSET DML /\ events \in SUBSET DML
  /\ columns \in SUBSET Column /\ inserts \in SUBSET columns

\* The first entry makes the schema, and the ledger is made before it is recorded.
LedgerThere == executed # {}
EventsThere == EventsKey \in executed

InitRights ==
  /\ Init
  /\ member \in BOOLEAN
  /\ provisioned = FALSE
  /\ owner = [m \in Migrator |-> FALSE]
  /\ ledger = {} /\ events = {}
  /\ columns = {} /\ inserts = {}

-----------------------------------------------------------------------------
(* What the statements of a migrator do to the rights.                     *)

\* ALTER DEFAULT PRIVILEGES FOR ROLE <schema>_owner: what the application role is
\* granted on a table, by who creates it.
Default(isOwner) == IF isOwner THEN DML ELSE {}

\* writes_withheld_sql: no write on the table.
Withheld(table) == table \ {"insert", "update", "delete"}

\* Mutant: the columns that the release knows are granted, not those of the table.
MutantInsertable(m) == Columns[migrator[m].release] \ Filled

\* Each column that the table has by now is granted again, but those the database
\* fills; the REVOKE took the columns with it.
Insertable(m) == columns \ Filled

\* The migrator becomes the owning role after the first entry, and makes the ledger.
ExecuteSchema(m) ==
  /\ Execute(m)
  /\ migrator[m].key \in First(Carries[migrator[m].release])
  /\ owner' = [owner EXCEPT ![m] = member /\ provisioned]
  /\ ledger' = IF LedgerThere THEN ledger ELSE Default(owner'[m])
  /\ UNCHANGED <<member, provisioned, events, columns, inserts>>

\* CREATE TABLE IF NOT EXISTS skips a table that is there, whole.
ExecuteCreate(m) ==
  /\ Execute(m)
  /\ migrator[m].key = EventsKey
  /\ IF EventsThere
       THEN UNCHANGED <<events, columns>>
       ELSE events' = Default(owner[m]) /\ columns' = Columns[migrator[m].release]
  /\ UNCHANGED <<member, provisioned, owner, ledger, inserts>>

\* The entry that revokes, from when the role is there, and the repairs.
ExecuteOther(m) ==
  /\ Execute(m)
  /\ migrator[m].key \notin First(Carries[migrator[m].release]) \union {EventsKey}
  /\ events' = IF migrator[m].key = AppendOnlyKey /\ provisioned
                 THEN events \ {"update", "delete"} ELSE events
  /\ columns' = columns \union Adds[migrator[m].key]
  /\ UNCHANGED <<member, provisioned, owner, ledger, inserts>>

\* Each statement does nothing while the role is not there.
WithholdLedger(m) ==
  /\ Withhold(m) /\ migrator[m].at = "withholds"
  /\ ledger' = IF provisioned THEN Withheld(ledger) ELSE ledger
  /\ UNCHANGED <<member, provisioned, owner, events, columns, inserts>>

WithholdEvents(m) ==
  /\ Withhold(m) /\ migrator[m].at = "grants"
  /\ events' = IF provisioned THEN Withheld(events) ELSE events
  /\ inserts' = IF provisioned THEN Insertable(m) ELSE inserts
  /\ UNCHANGED <<member, provisioned, owner, ledger, columns>>

-----------------------------------------------------------------------------
(* deploy/roles.sql.                                                       *)

\* Mutant: the script grants, and leaves it to the next release step to withhold.
MutantProvision ==
  /\ provisioned \/ ~member \/ ~LedgerThere
  /\ provisioned' = TRUE
  /\ ledger' = IF LedgerThere THEN DML ELSE {}
  /\ events' = IF EventsThere THEN DML ELSE {}
  /\ UNCHANGED <<vars, member, owner, columns, inserts>>

\* The roles, every write on the tables that are there, and then the writes
\* withheld; applied before the first migration, or where migrators are no members
\* of the owning role, and again at any time.
Provision ==
  /\ provisioned \/ ~member \/ ~LedgerThere
  /\ provisioned' = TRUE
  /\ ledger' = IF LedgerThere THEN Withheld(DML) ELSE {}
  /\ events' = IF EventsThere THEN Withheld(DML) ELSE {}
  /\ inserts' = columns \ Filled
  /\ UNCHANGED <<vars, member, owner, columns>>

OtherStep ==
  \/ \E m \in Migrator :
       (\E release \in Release : Apply(m, release)) \/ Lock(m) \/ Record(m) \/ Unlock(m) \/ Killed(m)
  \/ \E p \in Process : (\E release \in Release : Start(p, release)) \/ Probe(p) \/ Stop(p)

NextRights ==
  \/ \E m \in Migrator :
       \/ ExecuteSchema(m) \/ ExecuteCreate(m) \/ ExecuteOther(m)
       \/ WithholdLedger(m) \/ WithholdEvents(m)
  \/ Provision
  \/ OtherStep /\ UNCHANGED rights

SpecRights == InitRights /\ [][NextRights]_allvars

FairRights == SpecRights /\ Fairness

-----------------------------------------------------------------------------
(* What is right about it.                                                 *)

\* What the application role may never do: write the ledger, change or remove an
\* event, or fill a column that the database fills.
LedgerIsWithheld == provisioned /\ LedgerThere /\ Withheld(ledger) = ledger
EventsAreWithheld ==
  provisioned /\ EventsThere /\ Withheld(events) = events /\ inserts \intersect Filled = {}

\* Writes that were withheld once are never granted again, whatever release step
\* runs, is killed or runs beside another, and however often roles.sql is applied
\* (store/roles.py, store/migrate.py: _withhold_writes).
WithheldForGood == [][
  /\ LedgerIsWithheld => LedgerIsWithheld'
  /\ EventsAreWithheld => EventsAreWithheld']_allvars

\* When a release step has come to its end, the application role may not write the
\* ledger and may insert into each column that the release names, and this stays
\* so under any release step that comes, an older one's that waited included.
FinishedCanRecord == \A m \in Migrator :
  migrator[m].at = "finished" /\ provisioned =>
    /\ LedgerIsWithheld /\ EventsAreWithheld
    /\ Columns[migrator[m].release] \ Filled \subseteq inserts

\* What app/store/roles.py:11 says of the application role: it may read the ledger
\* and not write it, so that the role that verifies the schema cannot forge its own
\* answer.  The code breaks it for a process that started on a schema whose release
\* step was killed between its last entry and what withholds the writes.
ServingCannotForge ==
  (\A m \in Migrator : migrator[m].at \in Idle) =>
  \A p \in Process : process[p].at = "ready" /\ provisioned => LedgerIsWithheld
=============================================================================
