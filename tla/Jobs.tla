-------------------------------- MODULE Jobs --------------------------------
(***************************************************************************)
(* Durable work on Postgres: the rows of job_claims and jobs, the fenced   *)
(* transactions of app/store/pg.py and app/store/pg_jobs.py, and the slots *)
(* of the worker processes of app/worker.py.                               *)
(*                                                                         *)
(* A slot claims a job with a new token and a lease.  Each transaction of  *)
(* the attempt first holds the claim's row with FOR KEY SHARE, the fence,  *)
(* and keeps it until the commit.  A claim takes a row nobody holds, whose *)
(* job is ready or whose lease ended.  Slots run in any number of worker   *)
(* processes; a crash takes a slot at any step, and leaves behind the      *)
(* session of its open transaction, whose COMMIT may be on its way.        *)
(*                                                                         *)
(* Times count down: a lease ends, and a job is ready, when its timer is   *)
(* zero.  Any of the claimable jobs may be the next one claimed: ORDER BY  *)
(* ready_at only chooses among them.                                       *)
(***************************************************************************)
EXTENDS Integers, FiniteSets

CONSTANTS
  Job,          \* the jobs that may be asked for
  Slot,         \* the slots of every worker process
  MaxAttempts,  \* MAX_ATTEMPTS
  Lease,        \* Leases.lease, in ticks
  Lag,          \* how far behind the clock now() of a statement may be, in ticks
  RetryIn,      \* Leases.retry_in, in ticks
  RetryAfter,   \* DatabaseBusy.retry_after, in ticks
  MaxDefers,    \* bound: how often the handler of one job is deferred
  Mishaps,      \* bound: which of crashes, refused connections and lapsed leases happen
  MaxMishaps,   \* bound: how many of them
  NoJob         \* the job of a slot with no claim

ASSUME JobsAssumption ==
  /\ NoJob \notin Job
  /\ MaxAttempts \in Nat \ {0}
  /\ Lease \in Nat \ {0}
  /\ Lag \in 0..(Lease - 1)
  /\ RetryIn \in [1..MaxAttempts -> Nat]
  /\ RetryAfter \in Nat
  /\ MaxDefers \in Nat
  /\ MaxMishaps \in Nat

ASSUME MishapsAssumption == Mishaps \subseteq {"crash", "busy", "lapse"}

VARIABLES
  claims,   \* job_claims: one row for each job
  jobs,     \* jobs.state: "none" until the job is asked for
  slot,     \* the claim each slot holds, and the call it is in
  txn,      \* the fenced transaction of each slot: closed, begun, held
  live,     \* the slots whose lease had not ended when that transaction began
  orphans,  \* the claims that the sessions of crashed slots still hold
  issued,   \* how many tokens the job has had: each claim takes a fresh uuid4
  wrote,    \* the token whose write for the job committed last
  starts,   \* how often a handler started for the job
  mishaps   \* how many crashes, refused connections and lapsed leases so far

table   == <<claims, jobs>>
history == <<issued, wrote, starts, mishaps>>
vars    == <<claims, jobs, slot, txn, live, orphans, issued, wrote, starts, mishaps>>

NoToken == 0

\* The writes that end an attempt, and all the calls of a slot that open a
\* fenced transaction.
Ending == {"done", "dead", "again", "deferred"}
Call   == {"asked", "handler"} \union Ending

Free == [call |-> "free", job |-> NoJob, token |-> NoToken, attempts |-> 0]

\* A claim in a worker: the attempt, and the call it is in.
Claims == [call : Call, job : Job, token : Nat \ {0}, attempts : Nat \ {0}]

Row == [state : {"none", "ready", "running", "ended"}, token : Nat,
        leaseLeft : 0..Lease, attempts : Nat, readyIn : Nat]

NoRow == [state |-> "none", token |-> NoToken, leaseLeft |-> 0, attempts |-> 0, readyIn |-> 0]

ReadyRow(attempts, readyIn) ==
  [state |-> "ready", token |-> NoToken, leaseLeft |-> 0,
   attempts |-> attempts, readyIn |-> readyIn]

TypeOK ==
  /\ claims \in [Job -> Row]
  /\ jobs \in [Job -> {"none", "pending", "done", "dead"}]
  /\ slot \in [Slot -> Claims \union {Free}]
  /\ txn \in [Slot -> {"closed", "begun", "held"}]
  /\ live \in SUBSET Slot
  /\ orphans \in SUBSET Claims
  /\ issued \in [Job -> Nat]
  /\ wrote \in [Job -> Nat]
  /\ starts \in [Job -> Nat]
  /\ mishaps \in Nat

Init ==
  /\ claims = [j \in Job |-> NoRow]
  /\ jobs = [j \in Job |-> "none"]
  /\ slot = [s \in Slot |-> Free]
  /\ txn = [s \in Slot |-> "closed"]
  /\ live = {}
  /\ orphans = {}
  /\ issued = [j \in Job |-> 0]
  /\ wrote = [j \in Job |-> 0]
  /\ starts = [j \in Job |-> 0]
  /\ mishaps = 0

-----------------------------------------------------------------------------
(* The rows and their locks.                                               *)

\* The claims whose row a transaction holds with FOR KEY SHARE.
Fenced == {slot[s] : s \in {t \in Slot : txn[t] = "held"}} \union orphans

\* Mutant: a claim does not see the rows that transactions hold.
MutantLockedNever(j) == j \notin Job

Locked(j) == \E c \in Fenced : c.job = j

\* Mutant: only a ready job is claimed, and never one whose lease ended.
MutantClaimableReady(j) == claims[j].state = "ready" /\ claims[j].readyIn = 0

Claimable(j) ==
  \/ claims[j].state = "ready" /\ claims[j].readyIn = 0
  \/ claims[j].state = "running" /\ claims[j].leaseLeft = 0

\* The row still carries the token of this attempt.
Current(c) == claims[c.job].state = "running" /\ claims[c.job].token = c.token

\* How many attempts of the job ended deferred: each gave its attempt back.
Deferrals(j) == issued[j] - claims[j].attempts

-----------------------------------------------------------------------------
(* The web process asks; a slot claims.                                    *)

\* One transaction inserts both rows.
Ask(j) ==
  /\ jobs[j] = "none"
  /\ jobs' = [jobs EXCEPT ![j] = "pending"]
  /\ claims' = [claims EXCEPT ![j] = ReadyRow(0, 0)]
  /\ UNCHANGED <<slot, txn, live, orphans, history>>

\* FOR UPDATE SKIP LOCKED: a row some transaction holds is passed over.
Claim(s, j) ==
  /\ slot[s] = Free
  /\ Claimable(j)
  /\ ~Locked(j)
  /\ issued' = [issued EXCEPT ![j] = @ + 1]
  /\ \E late \in 0..Lag :
       claims' = [claims EXCEPT ![j] =
         [state |-> "running", token |-> issued[j] + 1, leaseLeft |-> Lease - late,
          attempts |-> claims[j].attempts + 1, readyIn |-> claims[j].readyIn]]
  /\ slot' = [slot EXCEPT ![s] =
       [call |-> "asked", job |-> j, token |-> issued[j] + 1,
        attempts |-> claims[j].attempts + 1]]
  /\ UNCHANGED <<jobs, txn, live, orphans, wrote, starts, mishaps>>

-----------------------------------------------------------------------------
(* A fenced transaction: begin, hold the claim, commit.                    *)

\* now() is fixed when the transaction begins.
Begin(s) ==
  /\ slot[s] # Free
  /\ txn[s] = "closed"
  /\ txn' = [txn EXCEPT ![s] = "begun"]
  /\ live' = IF claims[slot[s].job].leaseLeft > 0 THEN live \union {s} ELSE live \ {s}
  /\ UNCHANGED <<table, slot, orphans, history>>

\* Mutant: the fence looks at the lease and not at the token.
MutantMatchesLease(s) ==
  /\ claims[slot[s].job].state = "running"
  /\ s \in live \/ claims[slot[s].job].leaseLeft > 0

\* The row matches the token, and its lease ends after now().
Matches(s) ==
  /\ Current(slot[s])
  /\ s \in live \/ claims[slot[s].job].leaseLeft > 0

Hold(s) ==
  /\ txn[s] = "begun"
  /\ Matches(s)
  /\ txn' = [txn EXCEPT ![s] = "held"]
  /\ UNCHANGED <<table, slot, live, orphans, history>>

\* The slot is free again, and what its transaction wrote is rolled back.
LetGo(s) ==
  /\ slot' = [slot EXCEPT ![s] = Free]
  /\ txn' = [txn EXCEPT ![s] = "closed"]
  /\ live' = live \ {s}

\* LeaseLost: run() logs it, and the slot looks for the next job.
Lost(s) ==
  /\ txn[s] = "begun"
  /\ ~Matches(s)
  /\ LetGo(s)
  /\ UNCHANGED <<table, orphans, history>>

\* Mutant: an outcome is written and its claim is not ended with it.
MutantEndsJobOnly(c) ==
  /\ c.call \in {"done", "dead"}
  /\ jobs' = [jobs EXCEPT ![c.job] = c.call]
  /\ UNCHANGED claims

\* What the transaction of the claim c leaves in the two tables.
Ends(c) ==
  /\ c.call \in {"done", "dead"}
  /\ jobs' = [jobs EXCEPT ![c.job] = c.call]
  /\ claims' = [claims EXCEPT ![c.job] =
       [state |-> "ended", token |-> NoToken, leaseLeft |-> 0,
        attempts |-> @.attempts, readyIn |-> @.readyIn]]

ReadyAgain(c, after, givenBack) ==
  /\ claims' = [claims EXCEPT ![c.job] = ReadyRow(@.attempts - givenBack, after)]
  /\ UNCHANGED jobs

Leaves(c) ==
  \/ Ends(c)
  \/ c.call = "again" /\ ReadyAgain(c, RetryIn[c.attempts], 0)
  \/ c.call = "deferred" /\ ReadyAgain(c, RetryAfter, 1)
  \/ c.call = "handler" /\ UNCHANGED table

\* Mutant: a handler starts whatever the number of the attempt.
MutantCommitAskedAlways(s) ==
  /\ txn[s] = "held"
  /\ slot[s].call = "asked"
  /\ slot' = [slot EXCEPT ![s].call = "handler"]
  /\ starts' = [starts EXCEPT ![slot[s].job] = @ + 1]
  /\ txn' = [txn EXCEPT ![s] = "closed"]
  /\ live' = live \ {s}
  /\ UNCHANGED <<table, orphans, issued, wrote, mishaps>>

\* asked() read the input and the actor.  An attempt past MAX_ATTEMPTS runs no
\* handler.
CommitAsked(s) ==
  /\ txn[s] = "held"
  /\ slot[s].call = "asked"
  /\ IF slot[s].attempts > MaxAttempts
       THEN /\ slot' = [slot EXCEPT ![s].call = "dead"]
            /\ UNCHANGED starts
       ELSE /\ slot' = [slot EXCEPT ![s].call = "handler"]
            /\ starts' = [starts EXCEPT ![slot[s].job] = @ + 1]
  /\ txn' = [txn EXCEPT ![s] = "closed"]
  /\ live' = live \ {s}
  /\ UNCHANGED <<table, orphans, issued, wrote, mishaps>>

\* A transaction of the handler's store commits, and the handler goes on.
CommitHandler(s) ==
  /\ txn[s] = "held"
  /\ slot[s].call = "handler"
  /\ Leaves(slot[s])
  /\ wrote' = [wrote EXCEPT ![slot[s].job] = slot[s].token]
  /\ txn' = [txn EXCEPT ![s] = "closed"]
  /\ live' = live \ {s}
  /\ UNCHANGED <<slot, orphans, issued, starts, mishaps>>

\* done, dead, again or deferred commits, and the slot looks for the next job.
CommitEnding(s) ==
  /\ txn[s] = "held"
  /\ slot[s].call \in Ending
  /\ Leaves(slot[s])
  /\ wrote' = [wrote EXCEPT ![slot[s].job] = slot[s].token]
  /\ LetGo(s)
  /\ UNCHANGED <<orphans, issued, starts, mishaps>>

-----------------------------------------------------------------------------
(* The attempt: the handler beside its renewer.                            *)

\* A transaction of the handler raises and rolls back.
Rollback(s) ==
  /\ slot[s].call = "handler"
  /\ txn[s] # "closed"
  /\ txn' = [txn EXCEPT ![s] = "closed"]
  /\ live' = live \ {s}
  /\ UNCHANGED <<table, slot, orphans, history>>

\* The handler returns an outcome, fails, or got no connection: the write that
\* ends the attempt follows.
HandlerEnds(s) ==
  /\ slot[s].call = "handler"
  /\ txn[s] = "closed"
  /\ \E end \in Ending :
       /\ end = "dead" => slot[s].attempts >= MaxAttempts
       /\ end = "again" => slot[s].attempts < MaxAttempts
       /\ end = "deferred" => Deferrals(slot[s].job) < MaxDefers
       /\ slot' = [slot EXCEPT ![s].call = end]
  /\ UNCHANGED <<table, txn, live, orphans, history>>

\* The renewer's UPDATE, beside the handler and whatever transaction it holds.
Renew(s) ==
  /\ slot[s].call = "handler"
  /\ Current(slot[s])
  /\ claims[slot[s].job].leaseLeft > 0
  /\ \E late \in 0..Lag :
       claims' = [claims EXCEPT ![slot[s].job].leaseLeft = Lease - late]
  /\ UNCHANGED <<jobs, slot, txn, live, orphans, history>>

\* The renewer finds no such row: LeaseLost cancels the handler.
RenewLost(s) ==
  /\ slot[s].call = "handler"
  /\ ~(Current(slot[s]) /\ claims[slot[s].job].leaseLeft > 0)
  /\ LetGo(s)
  /\ UNCHANGED <<table, orphans, history>>

-----------------------------------------------------------------------------
(* What fails.  Crashes, refused connections and leases that lapse under a *)
(* working attempt are bounded together: each can cost a job an attempt.   *)

Mishap(kind) ==
  /\ kind \in Mishaps
  /\ mishaps < MaxMishaps
  /\ mishaps' = mishaps + 1

\* asked(), or a write that ends the attempt, gets no connection: DatabaseBusy
\* reaches _slot, which backs off and looks for the next job.
Busy(s) ==
  /\ slot[s].call \in Ending \union {"asked"}
  /\ txn[s] = "closed"
  /\ Mishap("busy")
  /\ LetGo(s)
  /\ UNCHANGED <<table, orphans, issued, wrote, starts>>

\* The worker stops, is killed, or fails on any other error.
Crash(s) ==
  /\ slot[s] # Free
  /\ Mishap("crash")
  /\ orphans' = IF txn[s] = "held" THEN orphans \union {slot[s]} ELSE orphans
  /\ LetGo(s)
  /\ UNCHANGED <<table, issued, wrote, starts>>

\* The COMMIT a crashed worker sent takes effect.
OrphanCommits(c) ==
  /\ c \in orphans
  /\ c.call # "asked"
  /\ Leaves(c)
  /\ wrote' = [wrote EXCEPT ![c.job] = c.token]
  /\ orphans' = orphans \ {c}
  /\ UNCHANGED <<slot, txn, live, issued, starts, mishaps>>

\* Postgres ends the session, on the closed socket or on
\* idle_in_transaction_session_timeout, and its lock goes with it.
OrphanRollsBack(c) ==
  /\ c \in orphans
  /\ orphans' = orphans \ {c}
  /\ UNCHANGED <<table, slot, txn, live, history>>

-----------------------------------------------------------------------------
Less(n) == IF n > 0 THEN n - 1 ELSE 0

Later(row) ==
  [state |-> row.state, token |-> row.token, leaseLeft |-> Less(row.leaseLeft),
   attempts |-> row.attempts, readyIn |-> Less(row.readyIn)]

\* The next tick ends the lease of an attempt that is still at work.
Lapses == \E s \in Slot :
  /\ slot[s] # Free
  /\ Current(slot[s])
  /\ claims[slot[s].job].leaseLeft = 1

Tick ==
  /\ \E j \in Job : claims[j].leaseLeft > 0 \/ claims[j].readyIn > 0
  /\ claims' = [j \in Job |-> Later(claims[j])]
  /\ IF Lapses THEN Mishap("lapse") ELSE UNCHANGED mishaps
  /\ UNCHANGED <<jobs, slot, txn, live, orphans, issued, wrote, starts>>

\* Every job ended, and no slot or session has anything left to do.
Finished ==
  /\ \A j \in Job : jobs[j] \in {"done", "dead"}
  /\ \A s \in Slot : slot[s] = Free
  /\ orphans = {}
  /\ UNCHANGED vars

Next ==
  \/ \E j \in Job : Ask(j)
  \/ \E s \in Slot, j \in Job : Claim(s, j)
  \/ \E s \in Slot :
       \/ Begin(s) \/ Hold(s) \/ Lost(s)
       \/ CommitAsked(s) \/ CommitHandler(s) \/ CommitEnding(s)
       \/ Rollback(s) \/ HandlerEnds(s) \/ Renew(s) \/ RenewLost(s)
       \/ Busy(s) \/ Crash(s)
  \/ \E c \in orphans : OrphanCommits(c) \/ OrphanRollsBack(c)
  \/ Tick
  \/ Finished

Spec == Init /\ [][Next]_vars

(***************************************************************************)
(* A worker keeps running its slots, a session that outlived its client    *)
(* ends, and time passes.  A handler may open any number of transactions,  *)
(* and it returns in the end.                                              *)
(***************************************************************************)
Works(s) ==
  \/ Begin(s) /\ slot[s].call # "handler"
  \/ Hold(s) \/ Lost(s) \/ CommitAsked(s) \/ CommitHandler(s) \/ CommitEnding(s)

Fairness ==
  /\ \A j \in Job : SF_vars(\E s \in Slot : Claim(s, j))
  /\ \A s \in Slot : WF_vars(Works(s)) /\ SF_vars(HandlerEnds(s))
  /\ WF_vars(\E c \in orphans : OrphanRollsBack(c))
  /\ WF_vars(Tick)

FairSpec == Spec /\ Fairness

-----------------------------------------------------------------------------
(* What is right about it.                                                 *)

\* A transaction that holds the fence belongs to the attempt that holds the
\* claim, whatever time has passed and whoever waits for the job: no claim
\* comes between the check of the fence and the commit.
FenceHolds == \A c \in Fenced : Current(c)

\* The tables agree on every job: no crash, lost lease or retry leaves a job
\* ended in one and open in the other.
TablesAgree == \A j \in Job :
  /\ jobs[j] = "none" <=> claims[j].state = "none"
  /\ jobs[j] \in {"done", "dead"} <=> claims[j].state = "ended"

\* A handler starts at most MAX_ATTEMPTS times, not counting the attempts that
\* were deferred, though a claim past them is made and ended dead.
HandlerStartsAreBounded == \A j \in Job : starts[j] <= MaxAttempts + Deferrals(j)

\* A job is dead only when its attempts are spent: a deferral, a lost lease or
\* a crash never makes it dead early.
DeadIsSpent == \A j \in Job : jobs[j] = "dead" => claims[j].attempts >= MaxAttempts

\* The rows of job_claims and the slots of the workers are a job board, whose
\* attempts are the tokens.
Board == INSTANCE JobBoard WITH status <- jobs, attempt <- issued, author <- wrote

IsJobBoard == Board!Spec

\* Every job that is asked for ends, whatever crashed, lapsed or was refused a
\* connection on the way.
EveryJobEnds == \A j \in Job : jobs[j] = "pending" ~> jobs[j] \in {"done", "dead"}

\* What ADR 0027:96 says: an attempt that gets no database connection does not
\* count.  A job whose attempts got no connection is not dead of them: where
\* nothing crashes and no lease lapses, a handler started for each dead job.  The
\* code breaks it: asked() outside the handler is not deferred.
DeadWasTried == \A j \in Job : jobs[j] = "dead" => starts[j] > 0

-----------------------------------------------------------------------------
(* Why: the inductive invariant.                                           *)

\* A row is running exactly when it has a token, the one issued last.
\* job_claims_lease_whole, the CHECK of the table, refuses no write.
RowsWhole == \A j \in Job :
  /\ claims[j].state = "none" => claims[j] = NoRow /\ issued[j] = 0 /\ starts[j] = 0
  /\ claims[j].state = "running" <=> claims[j].token # NoToken
  /\ claims[j].leaseLeft > 0 => claims[j].state = "running"
  /\ claims[j].state = "running" => claims[j].token = issued[j] /\ claims[j].attempts > 0
  /\ claims[j].attempts <= issued[j]

\* The attempts at work, and those whose session outlived them.
AtWork == {slot[s] : s \in {t \in Slot : slot[t] # Free}} \union orphans

\* The token of every attempt was issued, and no two attempts share one.
TokensDiffer ==
  /\ \A c \in AtWork : c.token <= issued[c.job]
  /\ \A s, t \in Slot : s # t /\ slot[s] # Free /\ slot[s].job = slot[t].job
       => slot[s].token # slot[t].token
  /\ \A s \in Slot, c \in orphans : slot[s].job = c.job => slot[s].token # c.token
  /\ \A c, d \in orphans : c.job = d.job /\ c.token = d.token => c = d

\* An attempt that holds the claim knows its number, and is in a call that its
\* number allows.
AttemptsAgree == \A c \in AtWork :
  /\ Current(c) => c.attempts = claims[c.job].attempts
  /\ c.call \in {"handler", "done", "deferred"} => c.attempts <= MaxAttempts
  /\ c.call = "again" => c.attempts < MaxAttempts
  /\ c.call = "dead" => c.attempts >= MaxAttempts

FreeIsClosed == \A s \in Slot : slot[s] = Free => txn[s] = "closed"

\* The handler of a current attempt that still reads what was asked has not
\* started.
StartsCounted ==
  /\ \A j \in Job : starts[j] <= issued[j]
  /\ \A s \in Slot : slot[s].call = "asked" /\ Current(slot[s])
       => starts[slot[s].job] < issued[slot[s].job]

IInv ==
  /\ TypeOK
  /\ RowsWhole /\ TokensDiffer /\ AttemptsAgree /\ FreeIsClosed /\ StartsCounted
  /\ FenceHolds /\ TablesAgree /\ HandlerStartsAreBounded /\ DeadIsSpent
=============================================================================
