----------------------------- MODULE MemoryJobs -----------------------------
(***************************************************************************)
(* The jobs of the in-memory substrate (app/store/memory.py).  The process *)
(* that is asked runs each job itself, as an asyncio task of its own, and  *)
(* tries it again at once when its handler fails.  close() cancels the     *)
(* tasks that run.                                                         *)
(***************************************************************************)
EXTENDS Naturals

CONSTANTS
  Job,          \* the jobs that may be asked for
  MaxAttempts   \* MAX_ATTEMPTS of app/store/jobs.py

VARIABLES
  status,   \* Job.state of what a reader gets, "none" before the job is there
  attempt,  \* the attempt that _attempts counts, 0 before the task's first step
  author,   \* the attempt whose effect on the rows was the last
  failed,   \* how often the job's handler raised
  task,     \* where the job's task is
  toEnd,    \* the tasks that are asked to end and have not had their turn
  closing   \* where close() is: "open", "waits" for the tasks it read, "closed"

vars == <<status, attempt, author, failed, task, toEnd, closing>>

Running(j) == task[j] \in {"ready", "tries", "backs off"}

TypeOK ==
  /\ status \in [Job -> {"none", "pending", "done", "dead"}]
  /\ attempt \in [Job -> 0..MaxAttempts]
  /\ author \in [Job -> 0..MaxAttempts]
  /\ failed \in [Job -> 0..MaxAttempts]
  /\ task \in [Job -> {"none", "ready", "tries", "backs off", "ended"}]
  /\ toEnd \subseteq Job
  /\ closing \in {"open", "waits", "closed"}

Init ==
  /\ status = [j \in Job |-> "none"]
  /\ attempt = [j \in Job |-> 0]
  /\ author = [j \in Job |-> 0]
  /\ failed = [j \in Job |-> 0]
  /\ task = [j \in Job |-> "none"]
  /\ toEnd = {}
  /\ closing = "open"

\* A request asks: the job is there, pending, and its task is made.  Nothing
\* refuses a request that outlives close().
Ask(j) ==
  /\ task[j] = "none"
  /\ status' = [status EXCEPT ![j] = "pending"]
  /\ task' = [task EXCEPT ![j] = "ready"]
  /\ UNCHANGED <<attempt, author, failed, toEnd, closing>>

\* The first step of the task, as the actor that asked.
Begin(j) ==
  /\ task[j] = "ready" /\ j \notin toEnd
  /\ attempt' = [attempt EXCEPT ![j] = 1]
  /\ task' = [task EXCEPT ![j] = "tries"]
  /\ UNCHANGED <<status, author, failed, toEnd, closing>>

Tries(j) == task[j] = "tries" /\ j \notin toEnd

\* The handler changes rows of its tenant.
Write(j) ==
  /\ Tries(j)
  /\ author' = [author EXCEPT ![j] = attempt[j]]
  /\ UNCHANGED <<status, attempt, failed, task, toEnd, closing>>

\* Mutant: only a job that is done is written.
MutantEndsOnlyDone(j, how) ==
  /\ status' = [status EXCEPT ![j] = IF how = "dead" THEN @ ELSE how]
  /\ author' = [author EXCEPT ![j] = attempt[j]]
  /\ task' = [task EXCEPT ![j] = "ended"]

\* Mutant: the task goes on when the job has ended.
MutantEndsGoesOn(j, how) ==
  /\ status' = [status EXCEPT ![j] = how]
  /\ author' = [author EXCEPT ![j] = attempt[j]]
  /\ UNCHANGED task

Ends(j, how) ==
  /\ status' = [status EXCEPT ![j] = how]
  /\ author' = [author EXCEPT ![j] = attempt[j]]
  /\ task' = [task EXCEPT ![j] = "ended"]

Succeed(j) ==
  /\ Tries(j)
  /\ Ends(j, "done")
  /\ UNCHANGED <<attempt, failed, toEnd, closing>>

IsLast(j) == attempt[j] = MaxAttempts

\* The handler raises, or its outcome cannot be stored.
Fail(j) ==
  /\ Tries(j)
  /\ failed' = [failed EXCEPT ![j] = @ + 1]
  /\ \/ IsLast(j) /\ Ends(j, "dead") /\ UNCHANGED attempt
     \/ /\ ~IsLast(j)
        /\ attempt' = [attempt EXCEPT ![j] = @ + 1]
        /\ UNCHANGED <<status, author, task>>
  /\ UNCHANGED <<toEnd, closing>>

\* The handler got no connection.  The attempt does not count.
Deferred(j) == UNCHANGED attempt

Defer(j) ==
  /\ Tries(j)
  /\ task' = [task EXCEPT ![j] = "backs off"]
  /\ Deferred(j)
  /\ UNCHANGED <<status, author, failed, toEnd, closing>>

TryAgain(j) ==
  /\ task[j] = "backs off" /\ j \notin toEnd
  /\ task' = [task EXCEPT ![j] = "tries"]
  /\ UNCHANGED <<status, attempt, author, failed, toEnd, closing>>

\* The task gets its cancel at the wait it is in.  The job stays pending.
Cancelled(j) ==
  /\ j \in toEnd /\ Running(j)
  /\ task' = [task EXCEPT ![j] = "ended"]
  /\ toEnd' = toEnd \ {j}
  /\ UNCHANGED <<status, attempt, author, failed, closing>>

Close ==
  /\ closing = "open"
  /\ closing' = "waits"
  /\ toEnd' = {j \in Job : Running(j)}
  /\ UNCHANGED <<status, attempt, author, failed, task>>

\* close() returns when each task that it read has ended.
Closed ==
  /\ closing = "waits" /\ toEnd = {}
  /\ closing' = "closed"
  /\ UNCHANGED <<status, attempt, author, failed, task, toEnd>>

Turn(j) == Begin(j) \/ TryAgain(j) \/ Cancelled(j)

Next ==
  \/ \E j \in Job :
       Ask(j) \/ Turn(j) \/ Write(j) \/ Succeed(j) \/ Fail(j) \/ Defer(j)
  \/ Close \/ Closed

Spec == Init /\ [][Next]_vars

(* The event loop gives each task its turn, and the wait before a retry ends.  *)
(* A handler that is tried over and over is not refused a connection each time *)
(* (SF): the code does not bound the deferrals, so this is what it needs.      *)
Finishes(j) == Succeed(j) \/ Fail(j)

-----------------------------------------------------------------------------
\* A job is dead only when its handler raised in each of its attempts, however often
\* it got no connection in between (memory.py: _attempts, _run).
DeadFailedEachTime == \A j \in Job : status[j] = "dead" => failed[j] = MaxAttempts

\* A job that was asked for ends, done or dead, or close() ended its task
\* (memory.py: asked, _run, close).
AskedJobsEnd ==
  \A j \in Job : task[j] = "ready" ~> status[j] \in {"done", "dead"} \/ closing # "open"

\* What is promised of a job on Postgres holds in memory.
Board == INSTANCE JobBoard

IsJobBoard == Board!Spec

=============================================================================
