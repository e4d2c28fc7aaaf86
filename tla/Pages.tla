------------------------------- MODULE Pages --------------------------------
(***************************************************************************)
(* The pages of one tenant's list, and a reader that follows their next    *)
(* while rows are written and removed: the tasks, newest first, and the    *)
(* audit events, in the order they were numbered (app/store/pg.py, and     *)
(* memory.py, where each write commits at once).                           *)
(***************************************************************************)
EXTENDS Naturals, SequencesExt

CONSTANTS
  Row,       \* the rows that may be written, by their id
  PageMax,   \* PAGE_MAX of app/models/tasks.py
  None       \* no cursor

VARIABLES
  newestFirst,  \* the list is that of the tasks
  seq,          \* the last number that the sequence gave
  number,       \* the number of each row, 0 before it has one
  row,          \* where each row is: "open" in a transaction that may commit later
  walk,         \* the reader: "asks" for a page, "reads" it, "ended", or "lost" its cursor
  after,        \* the cursor that it asks with
  shown,        \* the rows of the pages that it read
  before        \* the rows that were there when it asked for the first page

vars == <<newestFirst, seq, number, row, walk, after, shown, before>>

There == {r \in Row : row[r] = "there"}

Init ==
  /\ newestFirst \in BOOLEAN
  /\ seq = 0
  /\ number = [r \in Row |-> 0]
  /\ row = [r \in Row |-> "none"]
  /\ walk = "ended" /\ after = None /\ shown = <<>> /\ before = {}

-----------------------------------------------------------------------------
\* The writers.  The sequence gives its numbers outside the transactions: a lower
\* one may commit later, or never.

Insert(r) ==
  /\ row[r] = "none"
  /\ seq' = seq + 1
  /\ number' = [number EXCEPT ![r] = seq + 1]
  /\ row' = [row EXCEPT ![r] = "open"]
  /\ UNCHANGED <<newestFirst, walk, after, shown, before>>

Finish(r) ==
  /\ row[r] = "open"
  /\ \E how \in {"there", "gone"} : row' = [row EXCEPT ![r] = how]
  /\ UNCHANGED <<newestFirst, seq, number, walk, after, shown, before>>

\* Nothing removes an audit event.
Delete(r) ==
  /\ newestFirst /\ row[r] = "there"
  /\ row' = [row EXCEPT ![r] = "gone"]
  /\ UNCHANGED <<newestFirst, seq, number, walk, after, shown, before>>

-----------------------------------------------------------------------------
\* The reader.

Start ==
  /\ walk \in {"ended", "lost"}
  /\ walk' = "asks" /\ after' = None /\ shown' = <<>>
  /\ before' = There
  /\ UNCHANGED <<newestFirst, seq, number, row>>

\* The cursor is looked up, in a statement before the one that reads the page.
Find ==
  /\ walk = "asks"
  /\ walk' = IF after = None \/ row[after] = "there" THEN "reads" ELSE "lost"
  /\ UNCHANGED <<newestFirst, seq, number, row, after, shown, before>>

Comes(a, b) == IF newestFirst THEN number[a] > number[b] ELSE number[a] < number[b]

\* The rows of S in the order of the list.
Sorted(S) ==
  CHOOSE s \in [1..Cardinality(S) -> S] : \A i, j \in DOMAIN s : i < j => Comes(s[i], s[j])

\* Mutant: a page starts at a position of the list, and not after a row.
MutantFollowingPosition ==
  LET s == Sorted(There)
  IN {s[i] : i \in (Len(shown) + 1)..Len(s)}

\* The rows from the cursor on, which need not be there any more.
Following == {r \in There : after = None \/ Comes(after, r)}

More == Cardinality(Following) > PageMax

\* One row more than PAGE_MAX is read, and tells whether a page follows.
Page == SubSeq(Sorted(Following), 1, IF More THEN PageMax ELSE Cardinality(Following))

Read ==
  /\ walk = "reads"
  /\ shown' = shown \o Page
  /\ IF More THEN walk' = "asks" /\ after' = Last(Page)
             ELSE walk' = "ended" /\ UNCHANGED after
  /\ UNCHANGED <<newestFirst, seq, number, row, before>>

Next ==
  \/ \E r \in Row : Insert(r) \/ Finish(r) \/ Delete(r)
  \/ Start \/ Find \/ Read

Spec == Init /\ [][Next]_vars

-----------------------------------------------------------------------------
\* The pages that a reader got are in one order with no row twice, and a walk that
\* came to its end showed each row that was there before it and still is, though
\* rows come and go between any two pages (ADR 0026; pg.py: PostgresTaskStore.list,
\* PostgresAuditEvents.list).
WalksAreComplete ==
  /\ \A i, j \in DOMAIN shown : i < j => Comes(shown[i], shown[j])
  /\ walk = "ended" => \A r \in before \intersect There : \E i \in DOMAIN shown : shown[i] = r

=============================================================================
