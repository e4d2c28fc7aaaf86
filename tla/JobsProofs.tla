----------------------------- MODULE JobsProofs -----------------------------
(***************************************************************************)
(* That Jobs is right for every number of jobs, slots, attempts and        *)
(* crashes.  Each action preserves the inductive invariant IInv (one lemma *)
(* to an action, and a lemma for what several actions do alike); from IInv *)
(* follow the safety properties, and that Jobs implements JobBoard.        *)
(*                                                                         *)
(* What carries it: two attempts never share a token, and a row's token is *)
(* the last one issued, so at most one attempt is current; and a row that  *)
(* a transaction holds is neither claimed nor ended by another.            *)
(***************************************************************************)
EXTENDS Jobs, TLAPS

\* The fields of the rows and of the attempts at work, and what a free slot is.
LEMMA Typed ==
  ASSUME TypeOK
  PROVE  /\ \A j \in Job : /\ claims[j].state \in {"none", "ready", "running", "ended"}
                           /\ claims[j].token \in Nat
                           /\ claims[j].leaseLeft \in 0..Lease
                           /\ claims[j].attempts \in Nat
                           /\ claims[j].readyIn \in Nat
         /\ \A s \in Slot : slot[s] # Free <=> slot[s].job # NoJob
         /\ \A s \in Slot : slot[s] # Free => slot[s] \in Claims
         /\ AtWork \subseteq Claims
         /\ \A c \in Claims : /\ c.job \in Job
                              /\ c.token \in Nat \ {0}
                              /\ c.attempts \in Nat \ {0}
                              /\ c.call \in Call
<1>1. \A j \in Job : claims[j] \in Row
  BY DEF TypeOK
<1>2. \A c \in Claims : c.job \in Job /\ c.token \in Nat \ {0} /\ c.attempts \in Nat \ {0} /\ c.call \in Call
  BY DEF Claims
<1>3. \A s \in Slot : slot[s] \in Claims \/ slot[s] = Free
  BY DEF TypeOK
<1>4. Free.job = NoJob
  BY DEF Free
<1>5. \A s \in Slot : slot[s] # Free <=> slot[s].job # NoJob
  BY <1>2, <1>3, <1>4, JobsAssumption
<1>6. AtWork \subseteq Claims
  BY <1>3 DEF AtWork, TypeOK
<1> QED
  BY <1>1, <1>2, <1>3, <1>5, <1>6 DEF Row

\* Who holds a fence is an attempt at work.
LEMMA FencedAtWork == ASSUME TypeOK, FreeIsClosed PROVE Fenced \subseteq AtWork
BY DEF FreeIsClosed, Fenced, AtWork

\* PostgresJobs.ask inserts the two rows together.
LEMMA AskIInv == ASSUME IInv, NEW j \in Job, Ask(j) PROVE IInv'
<1> USE JobsAssumption DEF Ask, history, NoToken
<1> TypeOK
  BY DEF IInv
<1>1. TypeOK'
  <2>1. ReadyRow(0, 0) \in Row
    BY DEF Row, ReadyRow
  <2>2. QED
    BY <2>1 DEF TypeOK
<1>2. AtWork' = AtWork /\ Fenced' = Fenced
  BY DEF AtWork, Fenced
<1>3. claims[j] = NoRow /\ issued[j] = 0
  BY DEF IInv, RowsWhole, TablesAgree
<1>4. /\ claims'[j].state = "ready" /\ claims'[j].token = 0
      /\ claims'[j].leaseLeft = 0 /\ claims'[j].attempts = 0 /\ claims[j].attempts = 0
  BY <1>3 DEF TypeOK, ReadyRow, NoRow
<1>5. \A k \in Job : k # j => claims'[k] = claims[k]
  BY DEF TypeOK
<1>6. AtWork \subseteq Claims /\ Fenced \subseteq AtWork
  BY FencedAtWork, Typed DEF IInv
<1>7. \A c \in Claims : Current(c)' <=> Current(c)
  BY <1>3, <1>4, <1>5 DEF Claims, Current, NoRow
<1>8. RowsWhole'
  BY <1>1, <1>4, <1>5 DEF IInv, RowsWhole
<1>9. TokensDiffer' /\ FreeIsClosed'
  BY <1>2 DEF IInv, TokensDiffer, FreeIsClosed
<1>10. TablesAgree' /\ DeadIsSpent'
  BY <1>1, <1>4, <1>5 DEF IInv, TypeOK, TablesAgree, DeadIsSpent
<1>11. AttemptsAgree'
  BY <1>2, <1>4, <1>5, <1>6, <1>7 DEF IInv, AttemptsAgree, Claims, Current
<1>12. StartsCounted'
  BY <1>6, <1>7 DEF IInv, StartsCounted, AtWork, Free
<1>13. FenceHolds'
  BY <1>2, <1>6, <1>7 DEF IInv, FenceHolds
<1>14. HandlerStartsAreBounded'
  BY <1>4, <1>5 DEF IInv, HandlerStartsAreBounded, Deferrals
<1> QED
  BY <1>1, <1>8, <1>9, <1>10, <1>11, <1>12, <1>13, <1>14 DEF IInv

(***************************************************************************)
(* The steps that leave both tables as they are.                           *)

\* A step that leaves the tables alone and starts no attempt.
LEMMA QuietIInv ==
  ASSUME IInv, TypeOK', UNCHANGED <<table, issued, starts>>,
         TokensDiffer', FreeIsClosed', FenceHolds',
         \A c \in AtWork' : c \in AtWork,
         \A s \in Slot : slot'[s] # Free => slot'[s] = slot[s]
  PROVE  IInv'
<1> USE DEF table
<1>1. \A c : Current(c)' <=> Current(c)
  BY DEF Current
<1>2. AttemptsAgree'
  BY <1>1 DEF IInv, AttemptsAgree
<1>3. StartsCounted'
  BY <1>1 DEF IInv, StartsCounted, Free
<1>4. RowsWhole' /\ TablesAgree' /\ HandlerStartsAreBounded' /\ DeadIsSpent'
  BY DEF IInv, RowsWhole, TablesAgree, HandlerStartsAreBounded, DeadIsSpent, Deferrals
<1> QED
  BY <1>2, <1>3, <1>4 DEF IInv

\* A slot that gives its attempt up, and leaves the row as it is.
LEMMA LetGoIInv ==
  ASSUME IInv, NEW s \in Slot, LetGo(s), UNCHANGED <<table, orphans, issued, starts, wrote>>,
         mishaps' \in Nat
  PROVE  IInv'
<1> USE DEF LetGo, table
<1> TypeOK
  BY DEF IInv
<1>1. TypeOK'
  BY DEF TypeOK
<1>2. \A t \in Slot : /\ t # s => slot'[t] = slot[t] /\ txn'[t] = txn[t]
                      /\ slot'[s] = Free /\ txn'[s] = "closed"
  BY DEF TypeOK
<1>3. \A c \in AtWork' : c \in AtWork
  BY <1>2 DEF AtWork
<1>4. \A c \in Fenced' : c \in Fenced
  BY <1>2 DEF Fenced
<1>5. TokensDiffer'
  <2>1. Free.job = NoJob /\ \A c \in orphans : c.job # NoJob
    BY Typed, JobsAssumption DEF Free, AtWork
  <2>2. \A t \in Slot : slot[t] # Free => slot[t].job # NoJob
    BY Typed
  <2>3. QED
    BY <1>2, <1>3, <2>1, <2>2 DEF IInv, TokensDiffer
<1>6. FreeIsClosed'
  BY <1>2 DEF IInv, FreeIsClosed
<1>7. FenceHolds'
  BY <1>4 DEF IInv, FenceHolds, Current
<1> QED
  BY <1>1, <1>2, <1>3, <1>5, <1>6, <1>7, QuietIInv

\* LeaseLost and DatabaseBusy, as run and _slot meet them.
LEMMA LostIInv == ASSUME IInv, NEW s \in Slot, Lost(s) \/ RenewLost(s) \/ Busy(s) PROVE IInv'
BY LetGoIInv DEF Lost, RenewLost, Busy, Mishap, history, IInv, TypeOK

\* The transaction of a slot moves, and holds the fence only if it finds the
\* claim its own.
LEMMA TxnIInv ==
  ASSUME IInv, NEW s \in Slot, Begin(s) \/ Hold(s) \/ Rollback(s)
  PROVE  IInv'
<1> USE DEF Begin, Hold, Rollback, table, history
<1> TypeOK
  BY DEF IInv
<1>1. TypeOK'
  BY DEF TypeOK
<1>2. \A t \in Slot : t # s => txn'[t] = txn[t]
  BY DEF TypeOK
<1>3. AtWork' = AtWork
  BY DEF AtWork
<1>4. TokensDiffer'
  BY <1>3 DEF IInv, TokensDiffer
<1>5. FreeIsClosed'
  BY <1>2 DEF IInv, FreeIsClosed, Free, TypeOK
<1>6. \A c \in Fenced' : c \in Fenced \/ Current(c)
  BY <1>2 DEF Fenced, Matches, TypeOK
<1>7. FenceHolds'
  BY <1>6 DEF IInv, FenceHolds, Current
<1> QED
  BY <1>1, <1>3, <1>4, <1>5, <1>7, QuietIInv

\* The outcome of attempted picks the write that ends the attempt.
LEMMA HandlerEndsIInv == ASSUME IInv, NEW s \in Slot, HandlerEnds(s) PROVE IInv'
<1> USE DEF HandlerEnds, table, history
<1> TypeOK
  BY DEF IInv
<1>1. PICK end \in Ending :
        /\ end = "dead" => slot[s].attempts >= MaxAttempts
        /\ end = "again" => slot[s].attempts < MaxAttempts
        /\ slot' = [slot EXCEPT ![s].call = end]
  OBVIOUS
<1>2. slot[s] \in Claims /\ slot[s] \in AtWork /\ slot[s].call = "handler" /\ txn[s] = "closed"
  BY DEF TypeOK, Free, AtWork
<1>3. /\ slot'[s] \in Claims /\ slot'[s].job = slot[s].job /\ slot'[s].token = slot[s].token
      /\ slot'[s].attempts = slot[s].attempts /\ slot'[s].call = end
      /\ \A t \in Slot : t # s => slot'[t] = slot[t]
  BY <1>1, <1>2 DEF TypeOK, Claims, Call
<1>4. TypeOK'
  BY <1>1, <1>3 DEF TypeOK
<1>5. \A c \in AtWork' : c \in AtWork \/ c = slot'[s]
  BY <1>3 DEF AtWork
<1>6. \A c \in Fenced' : c \in Fenced
  BY <1>2, <1>3 DEF Fenced
<1>7. \A c : Current(c)' <=> Current(c)
  BY DEF Current
<1>8. Current(slot'[s]) <=> Current(slot[s])
  BY <1>3 DEF Current
<1>9. TokensDiffer'
  <2>1. slot'[s] # Free
    BY <1>3 DEF Free, Ending
  <2>2. \A t \in Slot : /\ slot'[t].job = slot[t].job /\ slot'[t].token = slot[t].token
                        /\ slot'[t] # Free => slot[t] # Free
    BY <1>2, <1>3 DEF Free
  <2>3. \A c \in AtWork' : c.token <= issued'[c.job]
    BY <1>2, <1>3, <1>5 DEF IInv, TokensDiffer
  <2> QED
    BY <2>2, <2>3 DEF IInv, TokensDiffer
<1>10. AttemptsAgree'
  <2>1. SUFFICES ASSUME NEW c \in AtWork', c = slot'[s]
                 PROVE  /\ Current(c)' => c.attempts = claims'[c.job].attempts
                        /\ c.call \in {"handler", "done", "deferred"} => c.attempts <= MaxAttempts
                        /\ c.call = "again" => c.attempts < MaxAttempts
                        /\ c.call = "dead" => c.attempts >= MaxAttempts
    BY <1>5, <1>7 DEF IInv, AttemptsAgree
  <2>2. slot[s].attempts <= MaxAttempts /\ (Current(slot[s]) => slot[s].attempts = claims[slot[s].job].attempts)
    BY <1>2 DEF IInv, AttemptsAgree
  <2> QED
    BY <1>1, <1>3, <1>7, <1>8, <2>1, <2>2 DEF Ending
<1>11. FreeIsClosed'
  BY <1>2, <1>3 DEF IInv, FreeIsClosed
<1>12. StartsCounted'
  BY <1>3, <1>7 DEF IInv, StartsCounted, Ending
<1>13. FenceHolds'
  BY <1>6, <1>7 DEF IInv, FenceHolds
<1>14. RowsWhole' /\ TablesAgree' /\ HandlerStartsAreBounded' /\ DeadIsSpent'
  BY DEF IInv, RowsWhole, TablesAgree, HandlerStartsAreBounded, DeadIsSpent, Deferrals
<1> QED
  BY <1>4, <1>9, <1>10, <1>11, <1>12, <1>13, <1>14 DEF IInv

\* A crash turns the claim of an open transaction into an orphan's.
LEMMA CrashIInv == ASSUME IInv, NEW s \in Slot, Crash(s) PROVE IInv'
<1> USE DEF Crash, LetGo, table
<1> TypeOK
  BY DEF IInv
<1>1. slot[s] \in Claims /\ slot[s] \in AtWork
  BY DEF TypeOK, AtWork
<1>2. TypeOK'
  BY <1>1 DEF TypeOK, Mishap
<1>3. \A t \in Slot : /\ t # s => slot'[t] = slot[t] /\ txn'[t] = txn[t]
                      /\ slot'[s] = Free /\ txn'[s] = "closed"
  BY DEF TypeOK
<1>4. \A c \in AtWork' : c \in AtWork
  BY <1>1, <1>3 DEF AtWork
<1>5. \A c \in Fenced' : c \in Fenced
  BY <1>3 DEF Fenced
<1>6. \A c \in orphans' : c \in orphans \/ c = slot[s]
  OBVIOUS
<1>7. TokensDiffer'
  <2>1. Free.job = NoJob /\ \A c \in orphans' : c.job # NoJob
    BY <1>1, <1>6, Typed, JobsAssumption DEF Free, AtWork
  <2>2. \A t \in Slot : slot[t] # Free => slot[t].job # NoJob
    BY Typed
  <2>3. \A c \in AtWork' : c.token <= issued'[c.job]
    BY <1>4 DEF IInv, TokensDiffer
  <2>4. \A t, u \in Slot : t # u /\ slot'[t] # Free /\ slot'[t].job = slot'[u].job
          => slot'[t].token # slot'[u].token
    BY <1>3, <2>1, <2>2 DEF IInv, TokensDiffer
  <2>5. \A t \in Slot, c \in orphans' : slot'[t].job = c.job => slot'[t].token # c.token
    BY <1>1, <1>3, <1>6, <2>1, <2>2 DEF IInv, TokensDiffer
  <2>6. \A c, d \in orphans' : c.job = d.job /\ c.token = d.token => c = d
    BY <1>6 DEF IInv, TokensDiffer
  <2> QED
    BY <2>3, <2>4, <2>5, <2>6 DEF TokensDiffer
<1>8. FreeIsClosed'
  BY <1>3 DEF IInv, FreeIsClosed
<1>9. FenceHolds'
  BY <1>5 DEF IInv, FenceHolds, Current
<1> QED
  BY <1>2, <1>3, <1>4, <1>7, <1>8, <1>9, QuietIInv

\* A session that ends lets its row go.
LEMMA OrphanRollsBackIInv == ASSUME IInv, NEW c \in orphans, OrphanRollsBack(c) PROVE IInv'
<1> USE DEF OrphanRollsBack, table, history
<1>1. TypeOK' /\ TokensDiffer' /\ FreeIsClosed' /\ FenceHolds'
  BY DEF IInv, TypeOK, TokensDiffer, FreeIsClosed, FenceHolds, Fenced, AtWork, Current
<1>2. \A d \in AtWork' : d \in AtWork
  BY DEF AtWork
<1> QED
  BY <1>1, <1>2, QuietIInv

(***************************************************************************)
(* The commit of a fenced transaction.  The fence makes its claim the one  *)
(* that is current, and no other transaction holds the same row.           *)

\* At most one attempt holds the fence of a job.
LEMMA OneHolds ==
  ASSUME IInv, NEW c \in Fenced, NEW d \in Fenced, c.job = d.job
  PROVE  c = d
<1>1. c \in AtWork /\ d \in AtWork
  BY FencedAtWork DEF IInv
<1>2. c.token = d.token
  BY DEF IInv, FenceHolds, Current
<1>3. \A e \in Fenced : e \in orphans \/ \E s \in Slot : e = slot[s] /\ slot[s] # Free
  BY DEF Fenced, IInv, FreeIsClosed
<1>4. CASE c \in orphans
  <2>1. d \in orphans
    BY <1>2, <1>3, <1>4 DEF IInv, TokensDiffer
  <2> QED
    BY <1>2, <1>4, <2>1 DEF IInv, TokensDiffer
<1>5. CASE d \in orphans
  <2>1. c \in orphans
    BY <1>2, <1>3, <1>5 DEF IInv, TokensDiffer
  <2> QED
    BY <1>4, <2>1
<1>6. CASE c \notin orphans /\ d \notin orphans
  <2>1. PICK s \in Slot : c = slot[s] /\ slot[s] # Free
    BY <1>3, <1>6
  <2>2. PICK u \in Slot : d = slot[u] /\ slot[u] # Free
    BY <1>3, <1>6
  <2> QED
    BY <1>2, <2>1, <2>2 DEF IInv, TokensDiffer
<1> QED
  BY <1>4, <1>5, <1>6

\* The rows that done, dead, again and deferred leave, in a session that holds
\* the fence.
LEMMA EndingRow ==
  ASSUME IInv, NEW c \in Fenced, c.call \in Ending, Leaves(c)
  PROVE  /\ c \in AtWork /\ c.job \in Job /\ Current(c)
         /\ claims' \in [Job -> Row]
         /\ jobs' \in [Job -> {"none", "pending", "done", "dead"}]
         /\ \A k \in Job : k # c.job => claims'[k] = claims[k] /\ jobs'[k] = jobs[k]
         /\ claims'[c.job].token = 0 /\ claims'[c.job].leaseLeft = 0
         /\ claims[c.job].attempts = c.attempts
         /\ jobs[c.job] = "pending"
         /\ \/ /\ claims'[c.job].state = "ready" /\ jobs'[c.job] = jobs[c.job]
               /\ \/ claims'[c.job].attempts = c.attempts
                  \/ claims'[c.job].attempts = c.attempts - 1
            \/ /\ claims'[c.job].state = "ended" /\ jobs'[c.job] \in {"done", "dead"}
               /\ claims'[c.job].attempts = c.attempts
               /\ jobs'[c.job] = "dead" => c.attempts >= MaxAttempts
<1> USE JobsAssumption DEF NoToken
<1> DEFINE j == c.job
<1>1. c \in AtWork /\ c \in Claims /\ j \in Job /\ Current(c)
  BY FencedAtWork, Typed DEF IInv, FenceHolds
<1>2. claims[j] \in Row /\ claims[j].attempts = c.attempts /\ claims[j].state = "running"
  BY <1>1 DEF IInv, TypeOK, AttemptsAgree, Current
<1>3. jobs[j] = "pending"
  BY <1>1, <1>2 DEF IInv, TypeOK, TablesAgree
<1>4. c.attempts \in Nat \ {0}
  BY <1>1, Typed DEF IInv
<1>5. CASE Ends(c)
  <2>1. claims'[j] = [state |-> "ended", token |-> NoToken, leaseLeft |-> 0,
                      attempts |-> claims[j].attempts, readyIn |-> claims[j].readyIn]
    BY <1>1, <1>5 DEF Ends, IInv, TypeOK
  <2>2. /\ claims'[j] \in Row /\ claims'[j].state = "ended" /\ claims'[j].token = 0
        /\ claims'[j].leaseLeft = 0 /\ claims'[j].attempts = c.attempts
    BY <1>2, <2>1 DEF Row
  <2>3. c.call = "dead" => c.attempts >= MaxAttempts
    BY <1>1 DEF IInv, AttemptsAgree
  <2> QED
    BY <1>1, <1>2, <1>3, <1>5, <2>2, <2>3 DEF Ends, IInv, TypeOK
<1>6. ASSUME NEW after \in Nat, NEW givenBack \in {0, 1}, ReadyAgain(c, after, givenBack)
      PROVE  /\ claims'[j].state = "ready" /\ claims'[j].token = 0 /\ claims'[j].leaseLeft = 0
             /\ claims'[j].attempts = c.attempts - givenBack
             /\ claims'[j] \in Row /\ jobs' = jobs
             /\ claims' \in [Job -> Row] /\ \A k \in Job : k # j => claims'[k] = claims[k]
  <2>1. claims'[j] = ReadyRow(c.attempts - givenBack, after)
    BY <1>1, <1>2, <1>6 DEF ReadyAgain, IInv, TypeOK
  <2>2. ReadyRow(c.attempts - givenBack, after) \in Row
    BY <1>4 DEF ReadyRow, Row
  <2>3. claims' \in [Job -> Row] /\ \A k \in Job : k # j => claims'[k] = claims[k]
    BY <1>1, <1>2, <1>6, <2>2 DEF ReadyAgain, IInv, TypeOK
  <2> QED
    BY <1>6, <2>1, <2>2, <2>3 DEF ReadyAgain, ReadyRow
<1>7. CASE c.call = "again" /\ ReadyAgain(c, RetryIn[c.attempts], 0)
  <2>1. c.attempts \in 1..MaxAttempts /\ RetryIn[c.attempts] \in Nat
    BY <1>1, <1>4, <1>7 DEF IInv, AttemptsAgree
  <2> QED
    BY <1>1, <1>2, <1>3, <1>4, <1>6, <1>7, <2>1 DEF IInv, TypeOK
<1>8. CASE c.call = "deferred" /\ ReadyAgain(c, RetryAfter, 1)
  BY <1>1, <1>2, <1>3, <1>6, <1>8 DEF IInv, TypeOK
<1> QED
  BY <1>5, <1>7, <1>8 DEF Leaves, Ending

\* An attempt ends: whichever session commits, c is no longer at work, and no
\* other attempt was current.
LEMMA EndingIInv ==
  ASSUME IInv, NEW c \in Fenced, c.call \in Ending, Leaves(c),
         UNCHANGED <<issued, starts>>, wrote' \in [Job -> Nat], mishaps' \in Nat,
         slot' \in [Slot -> Claims \union {Free}], txn' \in [Slot -> {"closed", "begun", "held"}],
         live' \in SUBSET Slot, orphans' \in SUBSET Claims,
         TokensDiffer', FreeIsClosed',
         \A d \in AtWork' : d \in AtWork,
         \A d \in Fenced' : d \in Fenced /\ d # c,
         \A s \in Slot : slot'[s] # Free => slot'[s] = slot[s]
  PROVE  IInv'
<1> USE JobsAssumption
<1> DEFINE j == c.job
<1>1. /\ c \in AtWork /\ j \in Job /\ Current(c)
      /\ claims' \in [Job -> Row] /\ jobs' \in [Job -> {"none", "pending", "done", "dead"}]
      /\ \A k \in Job : k # j => claims'[k] = claims[k] /\ jobs'[k] = jobs[k]
      /\ claims'[j].token = 0 /\ claims'[j].leaseLeft = 0
      /\ claims[j].attempts = c.attempts
  BY EndingRow
<1>2. \/ /\ claims'[j].state = "ready" /\ jobs'[j] = "pending"
         /\ \/ claims'[j].attempts = c.attempts
            \/ claims'[j].attempts = c.attempts - 1
      \/ /\ claims'[j].state = "ended" /\ jobs'[j] \in {"done", "dead"}
         /\ claims'[j].attempts = c.attempts
         /\ jobs'[j] = "dead" => c.attempts >= MaxAttempts
  BY EndingRow
<1>3. TypeOK'
  BY <1>1 DEF TypeOK, IInv
<1>4. \A d \in Claims : Current(d)' <=> Current(d) /\ d.job # j
  BY <1>1, <1>2 DEF Current, Claims
<1>5. AtWork \subseteq Claims /\ \A d \in AtWork : d.job \in Job
  BY Typed DEF IInv
<1>6. c.attempts \in Nat \ {0} /\ c.attempts <= issued[j] /\ issued[j] \in Nat /\ starts[j] \in Nat
  BY <1>1, <1>5, Typed DEF IInv, RowsWhole, TypeOK
<1>7. RowsWhole'
  <2>1. \A k \in Job : k # j =>
          /\ claims'[k].state = "none" => claims'[k] = NoRow /\ issued'[k] = 0 /\ starts'[k] = 0
          /\ claims'[k].state = "running" <=> claims'[k].token # NoToken
          /\ claims'[k].leaseLeft > 0 => claims'[k].state = "running"
          /\ claims'[k].state = "running" => claims'[k].token = issued'[k] /\ claims'[k].attempts > 0
          /\ claims'[k].attempts <= issued'[k]
    BY <1>1 DEF IInv, RowsWhole
  <2>2. claims'[j].attempts <= issued[j]
    BY <1>2, <1>6
  <2>3. /\ claims'[j].state \notin {"none", "running"} /\ claims'[j].token = NoToken
        /\ ~(claims'[j].leaseLeft > 0)
    BY <1>1, <1>2 DEF NoToken
  <2> QED
    BY <2>1, <2>2, <2>3 DEF RowsWhole
<1>8. AttemptsAgree'
  BY <1>1, <1>4, <1>5 DEF IInv, AttemptsAgree
<1>9. StartsCounted'
  BY <1>4, <1>5 DEF IInv, StartsCounted, Free, AtWork
<1>10. FenceHolds'
  <2> SUFFICES ASSUME NEW d \in Fenced' PROVE Current(d)'
    BY DEF FenceHolds
  <2>1. d \in Fenced /\ d # c /\ d \in Claims /\ Current(d)
    BY <1>5, FencedAtWork DEF IInv, FenceHolds
  <2> QED
    BY <1>4, <2>1, OneHolds
<1>11. TablesAgree'
  <2>1. \A k \in Job : k # j =>
          /\ jobs'[k] = "none" <=> claims'[k].state = "none"
          /\ jobs'[k] \in {"done", "dead"} <=> claims'[k].state = "ended"
    BY <1>1 DEF IInv, TablesAgree
  <2>2. /\ jobs'[j] = "none" <=> claims'[j].state = "none"
        /\ jobs'[j] \in {"done", "dead"} <=> claims'[j].state = "ended"
    BY <1>2
  <2> QED
    BY <2>1, <2>2 DEF TablesAgree
<1>12. HandlerStartsAreBounded'
  <2>1. starts[j] <= MaxAttempts + (issued[j] - claims[j].attempts)
    BY <1>1 DEF IInv, HandlerStartsAreBounded, Deferrals
  <2>2. starts'[j] <= MaxAttempts + (issued'[j] - claims'[j].attempts)
    <3>1. claims'[j].attempts \in {c.attempts, c.attempts - 1}
      BY <1>2
    <3>2. starts[j] <= MaxAttempts + (issued[j] - c.attempts)
      BY <1>1, <2>1
    <3>3. starts'[j] = starts[j] /\ issued'[j] = issued[j]
      OBVIOUS
    <3>4. CASE claims'[j].attempts = c.attempts
      BY <3>2, <3>3, <3>4
    <3>5. CASE claims'[j].attempts = c.attempts - 1
      BY <1>6, <3>2, <3>3, <3>5
    <3> QED
      BY <3>1, <3>4, <3>5
  <2> QED
    BY <1>1, <2>2 DEF IInv, HandlerStartsAreBounded, Deferrals
<1>13. DeadIsSpent'
  BY <1>1, <1>2 DEF IInv, DeadIsSpent
<1> QED
  BY <1>3, <1>7, <1>8, <1>9, <1>10, <1>11, <1>12, <1>13 DEF IInv

\* A live slot commits the write that ends its attempt.
LEMMA CommitEndingIInv == ASSUME IInv, NEW s \in Slot, CommitEnding(s) PROVE IInv'
<1> USE DEF CommitEnding, LetGo
<1> TypeOK
  BY DEF IInv
<1>1. slot[s] # Free /\ slot[s] \in Claims /\ slot[s] \in Fenced /\ slot[s] \in AtWork
  BY DEF IInv, FreeIsClosed, TypeOK, Fenced, AtWork
<1>2. \A t \in Slot : /\ t # s => slot'[t] = slot[t] /\ txn'[t] = txn[t]
                      /\ slot'[s] = Free /\ txn'[s] = "closed"
  BY DEF TypeOK
<1>3. \A c \in AtWork' : c \in AtWork
  BY <1>2 DEF AtWork
<1>4. \A c \in Fenced' : c \in Fenced /\ c # slot[s]
  <2> SUFFICES ASSUME NEW c \in Fenced' PROVE c \in Fenced /\ c # slot[s]
    OBVIOUS
  <2>1. CASE c \in orphans
    BY <1>1, <2>1 DEF Fenced, IInv, TokensDiffer
  <2>2. CASE \E t \in Slot : c = slot'[t] /\ txn'[t] = "held"
    BY <1>1, <1>2, <2>2 DEF Fenced, IInv, TokensDiffer
  <2> QED
    BY <2>1, <2>2 DEF Fenced
<1>5. TokensDiffer'
  <2>1. Free.job = NoJob /\ \A c \in orphans : c.job # NoJob
    BY Typed, JobsAssumption DEF Free, AtWork
  <2>2. \A t \in Slot : slot[t] # Free => slot[t].job # NoJob
    BY Typed
  <2> QED
    BY <1>2, <1>3, <2>1, <2>2 DEF IInv, TokensDiffer
<1>6. FreeIsClosed'
  BY <1>2 DEF IInv, FreeIsClosed
<1>7. wrote' \in [Job -> Nat] /\ mishaps' \in Nat
  BY <1>1, Typed DEF TypeOK
<1>8. /\ slot' \in [Slot -> Claims \union {Free}] /\ txn' \in [Slot -> {"closed", "begun", "held"}]
      /\ live' \in SUBSET Slot /\ orphans' \in SUBSET Claims
  BY DEF TypeOK
<1>9. slot[s].call \in Ending /\ Leaves(slot[s]) /\ UNCHANGED <<issued, starts>>
  OBVIOUS
<1>10. \A t \in Slot : slot'[t] # Free => slot'[t] = slot[t]
  BY <1>2
<1> HIDE DEF CommitEnding, LetGo
<1> QED
  BY <1>1, <1>3, <1>4, <1>5, <1>6, <1>7, <1>8, <1>9, <1>10, EndingIInv

\* A transaction of the handler commits rows of the tenant.
LEMMA CommitHandlerIInv == ASSUME IInv, NEW s \in Slot, CommitHandler(s) PROVE IInv'
<1> USE DEF CommitHandler
<1> TypeOK
  BY DEF IInv
<1>1. slot[s] \in Claims /\ slot[s] # Free
  BY DEF TypeOK, Free
<1>2. UNCHANGED table
  BY DEF Leaves, Ends, Ending
<1>3. TypeOK'
  BY <1>1, <1>2, Typed DEF TypeOK, table
<1>4. AtWork' = AtWork /\ \A t \in Slot : t # s => txn'[t] = txn[t]
  BY DEF AtWork, TypeOK
<1>5. \A c \in Fenced' : c \in Fenced
  BY <1>4 DEF Fenced, TypeOK
<1>6. TokensDiffer' /\ FreeIsClosed' /\ FenceHolds'
  BY <1>1, <1>2, <1>4, <1>5 DEF IInv, TokensDiffer, FreeIsClosed, FenceHolds, Current, table
<1> QED
  BY <1>2, <1>3, <1>4, <1>6, QuietIInv

\* One more under a bound that is not reached.
LEMMA OneMore ==
  ASSUME NEW a \in Nat, NEW b \in Nat, NEW m \in Nat, NEW n \in Nat, a + 1 <= b, n <= m
  PROVE  a + 1 <= m + (b - n)
OBVIOUS

\* asked() ends, and the handler starts, unless the attempts are spent.
LEMMA CommitAskedIInv == ASSUME IInv, NEW s \in Slot, CommitAsked(s) PROVE IInv'
<1> USE JobsAssumption DEF CommitAsked, table
<1> DEFINE j == slot[s].job
           c == slot'[s]
<1> TypeOK
  BY DEF IInv
<1>1. slot[s] \in Claims /\ slot[s] # Free /\ slot[s] \in AtWork /\ slot[s] \in Fenced /\ j \in Job
  BY Typed DEF TypeOK, Free, AtWork, Fenced
<1>2. Current(slot[s]) /\ slot[s].attempts = claims[j].attempts /\ slot[s].attempts \in Nat
  BY <1>1, Typed DEF IInv, FenceHolds, AttemptsAgree
<1>3. /\ c \in Claims /\ c.job = j /\ c.token = slot[s].token /\ c.attempts = slot[s].attempts
      /\ c.call = IF slot[s].attempts > MaxAttempts THEN "dead" ELSE "handler"
      /\ \A t \in Slot : t # s => slot'[t] = slot[t] /\ txn'[t] = txn[t]
      /\ txn'[s] = "closed"
  <2>1. PICK next \in {"dead", "handler"} :
          /\ slot' = [slot EXCEPT ![s].call = next]
          /\ next = IF slot[s].attempts > MaxAttempts THEN "dead" ELSE "handler"
    OBVIOUS
  <2>2. /\ slot'[s] \in Claims /\ slot'[s].job = slot[s].job
        /\ slot'[s].token = slot[s].token /\ slot'[s].attempts = slot[s].attempts
        /\ slot'[s].call = next
        /\ \A t \in Slot : t # s => slot'[t] = slot[t]
    BY <1>1, <2>1 DEF TypeOK, Claims, Call, Ending
  <2> QED
    BY <2>1, <2>2 DEF TypeOK
<1>4. /\ starts' \in [Job -> Nat]
      /\ \A k \in Job : k # j => starts'[k] = starts[k]
      /\ starts[j] \in Nat
      /\ \/ starts'[j] = starts[j]
         \/ starts'[j] = starts[j] + 1 /\ slot[s].attempts <= MaxAttempts
  <2>1. CASE slot[s].attempts > MaxAttempts
    BY <1>1, <2>1 DEF TypeOK
  <2>2. CASE ~(slot[s].attempts > MaxAttempts)
    <3>1. starts' = [starts EXCEPT ![j] = starts[j] + 1]
      BY <2>2
    <3>2. slot[s].attempts <= MaxAttempts
      BY <1>2, <2>2
    <3>3. starts \in [Job -> Nat]
      BY DEF TypeOK
    <3>4. starts' \in [Job -> Nat] /\ starts'[j] = starts[j] + 1 /\ starts[j] \in Nat
      BY <1>1, <3>1, <3>3
    <3>5. \A k \in Job : k # j => starts'[k] = starts[k]
      BY <3>1, <3>3
    <3> QED
      BY <3>2, <3>4, <3>5
  <2> QED
    BY <2>1, <2>2
<1>5. TypeOK'
  <2>1. slot' \in [Slot -> Claims \union {Free}]
    BY <1>3 DEF TypeOK
  <2> QED
    BY <1>4, <2>1 DEF TypeOK
<1>6. \A d \in AtWork' : d \in AtWork \/ d = c
  BY <1>3 DEF AtWork
<1>7. \A d \in Fenced' : d \in Fenced
  BY <1>3 DEF Fenced
<1>8. \A d : Current(d)' <=> Current(d)
  BY DEF Current
<1>9. Current(c) <=> Current(slot[s])
  BY <1>3 DEF Current
<1>10. TokensDiffer'
  <2>1. c # Free
    BY <1>3 DEF Free
  <2>2. \A t \in Slot : /\ slot'[t].job = slot[t].job /\ slot'[t].token = slot[t].token
                        /\ slot'[t] # Free => slot[t] # Free
    BY <1>1, <1>3 DEF Free
  <2>3. \A d \in AtWork' : d.token <= issued'[d.job]
    BY <1>1, <1>3, <1>6 DEF IInv, TokensDiffer
  <2> QED
    BY <2>2, <2>3 DEF IInv, TokensDiffer
<1>11. AttemptsAgree'
  <2>1. /\ c.attempts = claims[j].attempts
        /\ c.call \in {"handler", "done", "deferred"} => c.attempts <= MaxAttempts
        /\ c.call = "again" => c.attempts < MaxAttempts
        /\ c.call = "dead" => c.attempts >= MaxAttempts
    BY <1>2, <1>3
  <2> QED
    BY <1>3, <1>6, <1>8, <2>1 DEF IInv, AttemptsAgree
<1>12. FreeIsClosed'
  BY <1>3 DEF IInv, FreeIsClosed
<1>13. starts[j] < issued[j] /\ issued[j] \in Nat /\ starts[j] \in Nat
  BY <1>1, <1>2 DEF IInv, StartsCounted, TypeOK
<1>14. claims[j].token = slot[s].token /\ claims[j].state = "running" /\ claims[j].token = issued[j]
  BY <1>1, <1>2 DEF Current, IInv, RowsWhole
<1>15. StartsCounted'
  <2>1. \A k \in Job : starts'[k] <= issued'[k]
    BY <1>4, <1>13 DEF IInv, StartsCounted
  <2>2. ASSUME NEW t \in Slot, slot'[t].call = "asked", Current(slot[t])'
        PROVE  starts'[slot'[t].job] < issued'[slot'[t].job]
    <3>1. t # s /\ slot'[t] = slot[t] /\ slot[t] # Free /\ slot[t] \in AtWork
      BY <1>3, <2>2 DEF Free, AtWork
    <3>2. Current(slot[t])
      BY <1>8, <2>2, <3>1 DEF Current
    <3>4. slot[t].job # j
      BY <1>1, <1>2, <3>1, <3>2 DEF IInv, TokensDiffer, Current
    <3>3. slot[t].job \in Job
      BY <3>1, Typed
    <3> QED
      BY <1>4, <2>2, <3>1, <3>2, <3>3, <3>4 DEF IInv, StartsCounted
  <2> QED
    BY <2>1, <2>2 DEF StartsCounted
<1>16. FenceHolds'
  BY <1>7, <1>8 DEF IInv, FenceHolds
<1>17. HandlerStartsAreBounded'
  <2>1. /\ starts[j] <= MaxAttempts + (issued[j] - claims[j].attempts)
        /\ claims[j].attempts \in Nat
    BY <1>1, Typed DEF IInv, HandlerStartsAreBounded, Deferrals
  <2>2. starts'[j] <= MaxAttempts + (issued[j] - claims[j].attempts)
    <3>1. CASE starts'[j] = starts[j]
      BY <2>1, <3>1
    <3>2. CASE starts'[j] = starts[j] + 1 /\ slot[s].attempts <= MaxAttempts
      <4>1. claims[j].attempts \in Nat /\ claims[j].attempts <= MaxAttempts /\ MaxAttempts \in Nat
        BY <1>2, <2>1, <3>2
      <4>2. starts[j] + 1 <= issued[j]
        BY <1>13
      <4>3. starts[j] + 1 <= MaxAttempts + (issued[j] - claims[j].attempts)
        BY <1>13, <4>1, <4>2, OneMore
      <4> QED
        BY <3>2, <4>3
    <3> QED
      BY <1>4, <3>1, <3>2
  <2> QED
    BY <1>4, <2>2 DEF IInv, HandlerStartsAreBounded, Deferrals
<1>18. RowsWhole' /\ TablesAgree' /\ DeadIsSpent'
  <2>1. \A k \in Job : claims[k].state = "none" => k # j
    BY <1>14
  <2> QED
    BY <1>4, <2>1 DEF IInv, RowsWhole, TablesAgree, DeadIsSpent
<1> QED
  BY <1>5, <1>10, <1>11, <1>12, <1>15, <1>16, <1>17, <1>18 DEF IInv

\* The COMMIT of a crashed slot takes effect, with the fence it still holds.
LEMMA OrphanCommitsIInv == ASSUME IInv, NEW c \in orphans, OrphanCommits(c) PROVE IInv'
<1> USE DEF OrphanCommits
<1> TypeOK
  BY DEF IInv
<1>1. c \in Claims /\ c \in Fenced /\ c.job \in Job /\ c.token \in Nat /\ c.call \in Call
  BY Typed DEF TypeOK, Fenced
<1>2. /\ \A d \in AtWork' : d \in AtWork
      /\ \A d \in Fenced' : d \in Fenced
  BY DEF AtWork, Fenced
<1>3. wrote' \in [Job -> Nat] /\ orphans' \in SUBSET Claims
  BY <1>1 DEF TypeOK
<1>4. TokensDiffer' /\ FreeIsClosed'
  BY <1>2 DEF IInv, TokensDiffer, FreeIsClosed
<1>5. CASE c.call \in Ending
  <2>1. \A d \in Fenced' : d # c
    BY <1>1 DEF Fenced, IInv, TokensDiffer
  <2>2. /\ slot' \in [Slot -> Claims \union {Free}] /\ txn' \in [Slot -> {"closed", "begun", "held"}]
        /\ live' \in SUBSET Slot /\ mishaps' \in Nat
        /\ UNCHANGED <<issued, starts>> /\ Leaves(c)
        /\ \A s \in Slot : slot'[s] # Free => slot'[s] = slot[s]
    BY DEF TypeOK
  <2> HIDE DEF OrphanCommits
  <2> QED
    BY <1>1, <1>2, <1>3, <1>4, <1>5, <2>1, <2>2, EndingIInv
<1>6. CASE c.call = "handler"
  <2>1. UNCHANGED table
    BY <1>6 DEF Leaves, Ends
  <2>2. TypeOK'
    BY <1>3, <2>1 DEF TypeOK, table
  <2>3. FenceHolds'
    BY <1>2, <2>1 DEF IInv, FenceHolds, Current, table
  <2> QED
    BY <1>2, <1>4, <2>1, <2>2, <2>3, QuietIInv
<1> QED
  BY <1>1, <1>5, <1>6 DEF Call

(***************************************************************************)
(* A claim takes a row that no transaction holds.                          *)

\* A claim adds one to the tokens and one to the attempts.
LEMMA SameDifference ==
  ASSUME NEW a \in Nat, NEW b \in Nat
  PROVE  (a + 1) - (b + 1) = a - b
OBVIOUS

\* A claim with a new token of a row that nobody holds.
LEMMA ClaimIInv == ASSUME IInv, NEW s \in Slot, NEW j \in Job, Claim(s, j) PROVE IInv'
<1> USE JobsAssumption DEF NoToken
<1> DEFINE c == slot'[s]
<1> TypeOK
  BY DEF IInv
<1>1. PICK late \in 0..Lag :
        claims' = [claims EXCEPT ![j] =
          [state |-> "running", token |-> issued[j] + 1, leaseLeft |-> Lease - late,
           attempts |-> claims[j].attempts + 1, readyIn |-> claims[j].readyIn]]
  BY DEF Claim
<1>2. /\ claims[j].attempts \in Nat /\ claims[j].readyIn \in Nat
      /\ issued[j] \in Nat /\ Lease - late \in 1..Lease
      /\ claims[j].attempts <= issued[j] /\ starts[j] <= issued[j] /\ starts[j] \in Nat
  BY Typed DEF TypeOK, IInv, RowsWhole, StartsCounted
<1>3. /\ claims'[j].state = "running" /\ claims'[j].token = issued[j] + 1
      /\ claims'[j].attempts = claims[j].attempts + 1 /\ claims'[j].leaseLeft > 0
      /\ claims'[j] \in Row
      /\ \A k \in Job : k # j => claims'[k] = claims[k]
  BY <1>1, <1>2 DEF TypeOK, Row
<1>4. /\ issued'[j] = issued[j] + 1 /\ issued' \in [Job -> Nat]
      /\ \A k \in Job : k # j => issued'[k] = issued[k]
  BY DEF Claim, TypeOK
<1>5. /\ c = [call |-> "asked", job |-> j, token |-> issued[j] + 1,
              attempts |-> claims[j].attempts + 1]
      /\ \A t \in Slot : t # s => slot'[t] = slot[t]
  BY DEF Claim, TypeOK
<1>6. /\ c \in Claims /\ c.call = "asked" /\ c.job = j /\ c.token = issued[j] + 1
      /\ c.attempts = claims[j].attempts + 1
  BY <1>2, <1>5 DEF Claims, Call
<1>7. TypeOK'
  <2>1. claims' \in [Job -> Row]
    BY <1>1, <1>3 DEF TypeOK
  <2>2. slot' \in [Slot -> Claims \union {Free}]
    BY <1>5, <1>6 DEF Claim, TypeOK
  <2> QED
    BY <1>4, <2>1, <2>2 DEF Claim, TypeOK
<1>8. slot[s] = Free /\ txn[s] = "closed" /\ ~Locked(j) /\ UNCHANGED <<jobs, txn, orphans, starts>>
  BY DEF Claim, IInv, FreeIsClosed
<1>9. \A d \in AtWork' : d \in AtWork \/ d = c
  BY <1>5, <1>8 DEF AtWork
<1>10. \A d \in Fenced' : d \in Fenced /\ d.job # j
  <2>1. \A d \in Fenced' : d \in Fenced
    BY <1>5, <1>8 DEF Fenced
  <2> QED
    BY <1>8, <2>1 DEF Locked
<1>11. \A d \in AtWork : d \in Claims /\ d.job \in Job /\ d.token <= issued[d.job] /\ d.token \in Nat
  BY Typed DEF IInv, TokensDiffer
<1>12. \A d \in AtWork : Current(d)' <=> Current(d) /\ d.job # j
  BY <1>2, <1>3, <1>11 DEF Current
<1>13. RowsWhole'
  <2>1. claims'[j].attempts <= issued'[j] /\ claims'[j].attempts > 0
    BY <1>2, <1>3, <1>4
  <2>2. \A k \in Job : k # j =>
          /\ claims'[k].state = "none" => claims'[k] = NoRow /\ issued'[k] = 0 /\ starts'[k] = 0
          /\ claims'[k].state = "running" <=> claims'[k].token # NoToken
          /\ claims'[k].leaseLeft > 0 => claims'[k].state = "running"
          /\ claims'[k].state = "running" => claims'[k].token = issued'[k] /\ claims'[k].attempts > 0
          /\ claims'[k].attempts <= issued'[k]
    BY <1>3, <1>4, <1>8 DEF IInv, RowsWhole
  <2>3. claims'[j].token # 0 /\ claims'[j].token = issued'[j]
    BY <1>2, <1>3, <1>4
  <2> QED
    BY <1>3, <2>1, <2>2, <2>3 DEF RowsWhole
<1>14. TokensDiffer'
  <2>1. \A d \in AtWork' : d.token <= issued'[d.job]
    <3>1. c.token <= issued'[c.job]
      BY <1>2, <1>4, <1>6
    <3>2. \A d \in AtWork : d.job = j => d.token <= issued'[d.job]
      BY <1>2, <1>4, <1>11
    <3>3. \A d \in AtWork : d.job # j => d.token <= issued'[d.job]
      BY <1>4, <1>11
    <3> QED
      BY <1>9, <3>1, <3>2, <3>3
  <2>2. \A t \in Slot : slot[t] # Free => slot[t] \in AtWork
    BY DEF AtWork
  <2>3. \A d \in AtWork : d.job = j => d.token # c.token
    BY <1>2, <1>6, <1>11
  <2>4. \A t \in Slot : t # s /\ slot'[t] # Free /\ slot'[t].job = c.job => slot'[t].token # c.token
    BY <1>5, <1>6, <2>2, <2>3
  <2>5. \A t, u \in Slot : t # u /\ slot'[t] # Free /\ slot'[t].job = slot'[u].job
          => slot'[t].token # slot'[u].token
    <3>1. \A t \in Slot : slot'[t] = Free => slot'[t].job = NoJob
      BY DEF Free
    <3>2. \A t \in Slot : t # s /\ slot'[t].job = c.job => slot'[t].token # c.token
      BY <1>6, <2>4, <3>1
    <3> QED
      BY <1>5, <3>2 DEF IInv, TokensDiffer
  <2>6. \A t \in Slot, d \in orphans' : slot'[t].job = d.job => slot'[t].token # d.token
    <3>1. \A d \in orphans' : d \in orphans /\ d \in AtWork
      BY <1>8 DEF AtWork
    <3>2. \A d \in orphans' : c.job = d.job => c.token # d.token
      BY <1>6, <2>3, <3>1
    <3> QED
      BY <1>5, <3>1, <3>2 DEF IInv, TokensDiffer
  <2> QED
    BY <1>8, <2>1, <2>5, <2>6 DEF IInv, TokensDiffer
<1>15. AttemptsAgree'
  <2>1. /\ c.attempts = claims'[j].attempts
        /\ c.call \notin {"handler", "again"} \union Ending
    BY <1>3, <1>6 DEF Ending
  <2> QED
    BY <1>3, <1>6, <1>9, <1>11, <1>12, <2>1 DEF IInv, AttemptsAgree, Ending
<1>16. FreeIsClosed'
  BY <1>5, <1>8 DEF IInv, FreeIsClosed
<1>17. StartsCounted'
  <2>1. starts'[j] < issued'[j]
    BY <1>2, <1>4, <1>8
  <2>2. ASSUME NEW t \in Slot, t # s, slot'[t].call = "asked", Current(slot[t])'
        PROVE  starts'[slot'[t].job] < issued'[slot'[t].job]
    <3>1. slot'[t] = slot[t] /\ slot[t] # Free /\ slot[t] \in AtWork
      BY <1>5, <2>2 DEF Free, AtWork
    <3>2. Current(slot[t]) /\ slot[t].job # j /\ slot[t].job \in Job
      <4>1. claims'[slot[t].job].state = "running" /\ claims'[slot[t].job].token = slot[t].token
        BY <2>2, <3>1 DEF Current
      <4>2. slot[t].job \in Job /\ slot[t].token <= issued[slot[t].job] /\ slot[t].token \in Nat
        BY <1>11, <3>1
      <4>3. slot[t].job # j
        <5> SUFFICES ASSUME slot[t].job = j PROVE FALSE
          OBVIOUS
        <5> QED
          BY <1>2, <1>3, <4>1, <4>2
      <4> QED
        BY <1>3, <4>1, <4>2, <4>3 DEF Current
    <3> QED
      BY <1>4, <1>8, <2>2, <3>1, <3>2 DEF IInv, StartsCounted
  <2>3. \A k \in Job : starts'[k] <= issued'[k]
    <3>1. starts'[j] <= issued'[j]
      BY <1>2, <1>4, <1>8
    <3> QED
      BY <1>4, <1>8, <3>1 DEF IInv, StartsCounted
  <2> QED
    BY <1>6, <2>1, <2>2, <2>3 DEF StartsCounted
<1>18. FenceHolds'
  BY <1>10, <1>12, FencedAtWork DEF IInv, FenceHolds
<1>19. TablesAgree'
  <2>1. jobs[j] = "pending"
    BY DEF IInv, TypeOK, TablesAgree, Claim, Claimable
  <2> QED
    BY <1>3, <1>8, <2>1 DEF IInv, TablesAgree
<1>20. HandlerStartsAreBounded'
  <2>1. issued'[j] - claims'[j].attempts = issued[j] - claims[j].attempts
    <3>1. (issued[j] + 1) - (claims[j].attempts + 1) = issued[j] - claims[j].attempts
      BY <1>2, SameDifference
    <3> QED
      BY <1>3, <1>4, <3>1
  <2> QED
    BY <1>3, <1>4, <1>8, <2>1 DEF IInv, HandlerStartsAreBounded, Deferrals
<1>21. DeadIsSpent'
  <2>1. jobs[j] # "dead"
    BY DEF IInv, TablesAgree, Claim, Claimable
  <2> QED
    BY <1>3, <1>8, <2>1 DEF IInv, DeadIsSpent
<1> QED
  BY <1>7, <1>13, <1>14, <1>15, <1>16, <1>17, <1>18, <1>19, <1>20, <1>21 DEF IInv

(***************************************************************************)
(* The lease moves, and nothing else of the rows: a renewal or a tick.     *)

\* A step that moves timers only.
LEMMA TimersIInv ==
  ASSUME IInv, UNCHANGED <<jobs, slot, txn, live, orphans, issued, wrote, starts>>,
         mishaps' \in Nat, claims' \in [Job -> Row],
         \A j \in Job : /\ claims'[j].state = claims[j].state
                        /\ claims'[j].token = claims[j].token
                        /\ claims'[j].attempts = claims[j].attempts
                        /\ claims'[j].leaseLeft > 0 => claims[j].state = "running"
                        /\ claims[j].state = "none" => claims'[j] = claims[j]
  PROVE  IInv'
<1> TypeOK
  BY DEF IInv
<1>1. TypeOK'
  BY DEF TypeOK
<1>2. AtWork' = AtWork /\ Fenced' = Fenced
  BY DEF AtWork, Fenced
<1>3. AtWork \subseteq Claims /\ Fenced \subseteq AtWork /\ \A c \in AtWork : c.job \in Job
  BY Typed, FencedAtWork DEF IInv
<1>4. \A c \in AtWork : Current(c)' <=> Current(c)
  BY <1>3 DEF Current
<1>5. RowsWhole'
  BY DEF IInv, RowsWhole
<1>6. TokensDiffer' /\ FreeIsClosed'
  BY <1>2 DEF IInv, TokensDiffer, FreeIsClosed
<1>7. AttemptsAgree'
  BY <1>2, <1>3, <1>4 DEF IInv, AttemptsAgree
<1>8. StartsCounted'
  <2>1. \A s \in Slot : slot[s].call = "asked" => slot[s] \in AtWork
    BY DEF AtWork, Free
  <2> QED
    BY <1>4, <2>1 DEF IInv, StartsCounted
<1>9. FenceHolds'
  BY <1>2, <1>3, <1>4 DEF IInv, FenceHolds
<1>10. TablesAgree' /\ HandlerStartsAreBounded' /\ DeadIsSpent'
  BY DEF IInv, TablesAgree, HandlerStartsAreBounded, DeadIsSpent, Deferrals
<1> QED
  BY <1>1, <1>5, <1>6, <1>7, <1>8, <1>9, <1>10 DEF IInv

\* The renewer moves the end of the lease, and nothing else.
LEMMA RenewIInv == ASSUME IInv, NEW s \in Slot, Renew(s) PROVE IInv'
<1> USE JobsAssumption
<1> DEFINE j == slot[s].job
<1> TypeOK
  BY DEF IInv
<1>1. slot[s] # Free /\ j \in Job
  BY Typed DEF Renew, Free
<1>2. PICK late \in 0..Lag : claims' = [claims EXCEPT ![j].leaseLeft = Lease - late]
  BY DEF Renew
<1>3. claims[j] \in Row /\ Lease - late \in 0..Lease
  BY <1>1 DEF TypeOK
<1>4. claims'[j] = [claims[j] EXCEPT !.leaseLeft = Lease - late]
  BY <1>1, <1>2 DEF TypeOK
<1>5. /\ claims'[j] \in Row /\ claims'[j].state = claims[j].state
      /\ claims'[j].token = claims[j].token /\ claims'[j].attempts = claims[j].attempts
  BY <1>3, <1>4 DEF Row
<1>6. \A k \in Job : k # j => claims'[k] = claims[k]
  BY <1>1, <1>2 DEF TypeOK
<1>7. claims' \in [Job -> Row]
  BY <1>2, <1>5, <1>6 DEF TypeOK
<1>8. claims[j].state = "running"
  BY DEF Renew, Current
<1>9. UNCHANGED <<jobs, slot, txn, live, orphans, issued, wrote, starts>> /\ mishaps' \in Nat
  BY DEF Renew, history, TypeOK
<1>10. \A k \in Job : claims[k].leaseLeft > 0 => claims[k].state = "running"
  BY DEF IInv, RowsWhole
<1> QED
  BY <1>5, <1>6, <1>7, <1>8, <1>9, <1>10, TimersIInv

\* Time passes: a lease may end, and its row stays running.
LEMMA TickIInv == ASSUME IInv, Tick PROVE IInv'
<1> USE JobsAssumption
<1> TypeOK
  BY DEF IInv
<1>1. ASSUME NEW j \in Job
      PROVE  /\ claims'[j] \in Row /\ claims'[j].state = claims[j].state
             /\ claims'[j].token = claims[j].token /\ claims'[j].attempts = claims[j].attempts
             /\ claims'[j].leaseLeft > 0 => claims[j].state = "running"
             /\ claims[j].state = "none" => claims'[j] = claims[j]
  <2>1. claims'[j] = Later(claims[j])
    BY DEF Tick
  <2>2. claims[j] \in Row
    BY DEF TypeOK
  <2>3. /\ Less(claims[j].leaseLeft) \in 0..Lease /\ Less(claims[j].readyIn) \in Nat
        /\ Less(claims[j].leaseLeft) > 0 => claims[j].leaseLeft > 0
    BY <2>2 DEF Less, Row
  <2>4. claims[j].leaseLeft > 0 => claims[j].state = "running"
    BY DEF IInv, RowsWhole
  <2>5. claims[j].state = "none" => claims'[j] = claims[j]
    <3>1. Less(0) = 0
      BY DEF Less
    <3>2. NoRow = Later(NoRow)
      BY <3>1 DEF NoRow, Later
    <3> QED
      BY <2>1, <3>2 DEF IInv, RowsWhole
  <2> QED
    BY <2>1, <2>2, <2>3, <2>4, <2>5 DEF Row, Later
<1>2. claims' \in [Job -> Row]
  BY <1>1 DEF Tick
<1>3. UNCHANGED <<jobs, slot, txn, live, orphans, issued, wrote, starts>>
  BY DEF Tick
<1>4. mishaps' \in Nat
  <2>1. mishaps' = mishaps + 1 \/ mishaps' = mishaps
    BY DEF Tick, Mishap
  <2> QED
    BY <2>1 DEF TypeOK
<1> QED
  BY <1>1, <1>2, <1>3, <1>4, TimersIInv

\* The tables are empty and every slot is free.
LEMMA InitIInv == ASSUME Init PROVE IInv
<1> USE JobsAssumption DEF Init
<1>1. TypeOK
  BY DEF TypeOK, NoRow, Row, NoToken
<1>2. AtWork = {} /\ Fenced = {}
  BY DEF AtWork, Fenced
<1>3. RowsWhole /\ TokensDiffer /\ AttemptsAgree /\ FreeIsClosed
  BY <1>2 DEF RowsWhole, TokensDiffer, AttemptsAgree, FreeIsClosed, NoRow, NoToken, Free
<1>4. StartsCounted
  BY DEF StartsCounted, Free
<1>5. FenceHolds /\ TablesAgree /\ HandlerStartsAreBounded /\ DeadIsSpent
  BY <1>2 DEF FenceHolds, TablesAgree, HandlerStartsAreBounded, DeadIsSpent, Deferrals, NoRow
<1> QED
  BY <1>1, <1>3, <1>4, <1>5 DEF IInv

(***************************************************************************)
(* The invariant holds, and with it each of the properties.                *)

\* Every step preserves the invariant.
LEMMA NextIInv == ASSUME IInv, [Next]_vars PROVE IInv'
<1>1. ASSUME NEW j \in Job, Ask(j) PROVE IInv'
  BY <1>1, AskIInv
<1>2. ASSUME NEW s \in Slot, NEW j \in Job, Claim(s, j) PROVE IInv'
  BY <1>2, ClaimIInv
<1>3. ASSUME NEW s \in Slot, Begin(s) \/ Hold(s) \/ Rollback(s) PROVE IInv'
  BY <1>3, TxnIInv
<1>4. ASSUME NEW s \in Slot, Lost(s) \/ RenewLost(s) \/ Busy(s) PROVE IInv'
  BY <1>4, LostIInv
<1>5. ASSUME NEW s \in Slot, CommitAsked(s) PROVE IInv'
  BY <1>5, CommitAskedIInv
<1>6. ASSUME NEW s \in Slot, CommitHandler(s) PROVE IInv'
  BY <1>6, CommitHandlerIInv
<1>7. ASSUME NEW s \in Slot, CommitEnding(s) PROVE IInv'
  BY <1>7, CommitEndingIInv
<1>8. ASSUME NEW s \in Slot, HandlerEnds(s) PROVE IInv'
  BY <1>8, HandlerEndsIInv
<1>9. ASSUME NEW s \in Slot, Renew(s) PROVE IInv'
  BY <1>9, RenewIInv
<1>10. ASSUME NEW s \in Slot, Crash(s) PROVE IInv'
  BY <1>10, CrashIInv
<1>11. ASSUME NEW c \in orphans, OrphanCommits(c) PROVE IInv'
  BY <1>11, OrphanCommitsIInv
<1>12. ASSUME NEW c \in orphans, OrphanRollsBack(c) PROVE IInv'
  BY <1>12, OrphanRollsBackIInv
<1>13. CASE Tick
  BY <1>13, TickIInv
<1>14. ASSUME UNCHANGED vars PROVE IInv'
  <2>1. TypeOK' /\ TokensDiffer' /\ FreeIsClosed' /\ FenceHolds' /\ AtWork' = AtWork
    BY <1>14 DEF vars, IInv, TypeOK, TokensDiffer, FreeIsClosed, FenceHolds, Fenced, Current, AtWork
  <2>2. UNCHANGED <<table, issued, starts, slot>>
    BY <1>14 DEF vars, table
  <2> QED
    BY <2>1, <2>2, QuietIInv
<1>15. CASE Finished
  BY <1>14, <1>15 DEF Finished
<1> QED
  BY <1>1, <1>2, <1>3, <1>4, <1>5, <1>6, <1>7, <1>8, <1>9, <1>10, <1>11, <1>12, <1>13,
     <1>14, <1>15 DEF Next

\* In every state the program can reach, whatever the number of jobs and slots,
\* the length of a lease and the number of crashes, the two tables, the fences,
\* the tokens and the counts of attempts agree with each other.
THEOREM Inductive == Spec => []IInv
<1>1. Init => IInv
  BY InitIInv
<1>2. IInv /\ [Next]_vars => IInv'
  BY NextIInv
<1> QED
  BY <1>1, <1>2, PTL DEF Spec

\* Every value keeps its type: no row, claim or transaction is ever in a shape
\* that pg_jobs.py and worker.py do not know.
THEOREM TypeCorrect == Spec => []TypeOK
<1>1. IInv => TypeOK
  BY DEF IInv
<1> QED
  BY <1>1, Inductive, PTL

\* From the moment a transaction holds the fence until it commits or rolls back,
\* its attempt is the one that holds the claim: no lease that ends meanwhile lets
\* another attempt in before the commit.
THEOREM FenceIsKept == Spec => []FenceHolds
<1>1. IInv => FenceHolds
  BY DEF IInv
<1> QED
  BY <1>1, Inductive, PTL

\* job_claims and jobs never disagree on whether a job was asked for or ended.
THEOREM TablesStayInStep == Spec => []TablesAgree
<1>1. IInv => TablesAgree
  BY DEF IInv
<1> QED
  BY <1>1, Inductive, PTL

\* No order of crashes, lapsed leases, retries and deferrals starts a handler
\* more than MAX_ATTEMPTS times, deferred attempts aside.
THEOREM StartsAreBounded == Spec => []HandlerStartsAreBounded
<1>1. IInv => HandlerStartsAreBounded
  BY DEF IInv
<1> QED
  BY <1>1, Inductive, PTL

\* A job that is dead had MAX_ATTEMPTS attempts or more.
THEOREM NoEarlyDeath == Spec => []DeadIsSpent
<1>1. IInv => DeadIsSpent
  BY DEF IInv
<1> QED
  BY <1>1, Inductive, PTL

(***************************************************************************)
(* The refinement of JobBoard.                                             *)

\* What a fenced transaction commits is a write of the attempt the job was
\* handed to last.
LEMMA FencedWrites ==
  ASSUME IInv, NEW c \in Fenced, c.call \in Ending \union {"handler"}, Leaves(c),
         wrote' = [wrote EXCEPT ![c.job] = c.token], UNCHANGED issued
  PROVE  Board!Next
<1> DEFINE j == c.job
<1>1. j \in Job /\ c.token = issued[j] /\ jobs[j] = "pending"
  <2>1. c \in AtWork /\ Current(c)
    BY FencedAtWork DEF IInv, FenceHolds
  <2>2. j \in Job
    BY <2>1, Typed DEF IInv
  <2>3. jobs[j] \in {"none", "pending", "done", "dead"}
    BY <2>2 DEF IInv, TypeOK
  <2> QED
    BY <2>1, <2>2, <2>3 DEF IInv, RowsWhole, TablesAgree, Current
<1>2. wrote' = [wrote EXCEPT ![j] = issued[j]]
  BY <1>1
<1>3. CASE c.call \in {"done", "dead"}
  <2>1. jobs' = [jobs EXCEPT ![j] = c.call]
    BY <1>3 DEF Leaves, Ends
  <2>2. Board!End(j)
    BY <1>1, <1>2, <1>3, <2>1 DEF Board!End, Board!Ended
  <2> QED
    BY <1>1, <2>2 DEF Board!Next
<1>4. CASE c.call \in {"again", "deferred", "handler"}
  <2>1. UNCHANGED jobs
    BY <1>4 DEF Leaves, Ends, ReadyAgain, table
  <2>2. Board!Write(j)
    BY <1>1, <1>2, <2>1 DEF Board!Write
  <2> QED
    BY <1>1, <2>2 DEF Board!Next
<1> QED
  BY <1>3, <1>4 DEF Ending

\* Every step of the two tables is a step of the job board, or none.
LEMMA StepsOfTheBoard == ASSUME IInv, [Next]_vars PROVE [Board!Next]_(Board!vars)
<1> USE DEF Board!vars
<1> TypeOK
  BY DEF IInv
<1>1. ASSUME NEW j \in Job, Ask(j) PROVE Board!Next
  BY <1>1 DEF Ask, history, Board!Next, Board!Ask
<1>2. ASSUME NEW s \in Slot, NEW j \in Job, Claim(s, j) PROVE Board!Next
  <2>1. claims[j].state \in {"ready", "running"}
    BY <1>2 DEF Claim, Claimable
  <2>2. jobs[j] = "pending"
    BY <2>1 DEF IInv, TablesAgree, TypeOK
  <2> QED
    BY <1>2, <2>2 DEF Claim, Board!Next, Board!Hand
<1>3. ASSUME NEW s \in Slot, CommitHandler(s) \/ CommitEnding(s) PROVE Board!Next
  <2>1. slot[s] \in Fenced
    BY <1>3 DEF CommitHandler, CommitEnding, Fenced
  <2>2. /\ slot[s].call \in Ending \union {"handler"} /\ Leaves(slot[s])
        /\ wrote' = [wrote EXCEPT ![slot[s].job] = slot[s].token] /\ UNCHANGED issued
    BY <1>3 DEF CommitHandler, CommitEnding
  <2> QED
    BY <2>1, <2>2, FencedWrites
<1>4. ASSUME NEW c \in orphans, OrphanCommits(c) PROVE Board!Next
  <2>1. c \in Fenced /\ c.call \in Ending \union {"handler"}
    BY <1>4, Typed DEF OrphanCommits, Fenced, AtWork, Call
  <2>2. Leaves(c) /\ wrote' = [wrote EXCEPT ![c.job] = c.token] /\ UNCHANGED issued
    BY <1>4 DEF OrphanCommits
  <2> QED
    BY <2>1, <2>2, FencedWrites
<1>5. ASSUME NEW s \in Slot,
             \/ Begin(s) \/ Hold(s) \/ Lost(s) \/ CommitAsked(s) \/ Rollback(s)
             \/ HandlerEnds(s) \/ Renew(s) \/ RenewLost(s) \/ Busy(s) \/ Crash(s)
      PROVE  UNCHANGED <<jobs, issued, wrote>>
  BY <1>5 DEF Begin, Hold, Lost, CommitAsked, Rollback, HandlerEnds, Renew, RenewLost, Busy,
              Crash, table, history
<1>6. ASSUME \/ \E c \in orphans : OrphanRollsBack(c)
             \/ Tick \/ Finished \/ UNCHANGED vars
      PROVE  UNCHANGED <<jobs, issued, wrote>>
  BY <1>6 DEF OrphanRollsBack, Tick, Finished, vars, table, history
<1> QED
  BY <1>1, <1>2, <1>3, <1>4, <1>5, <1>6 DEF Next

\* The two tables, the leases and the fences implement the job board: a write
\* that commits is always one of the attempt the job was handed to last, and a
\* job that ended never changes again.
THEOREM Refinement == Spec => IsJobBoard
<1>1. Init => Board!Init
  BY DEF Init, Board!Init
<1>2. IInv /\ [Next]_vars => [Board!Next]_(Board!vars)
  BY StepsOfTheBoard
<1> QED
  BY <1>1, <1>2, Inductive, PTL DEF Spec, IsJobBoard, Board!Spec
=============================================================================
