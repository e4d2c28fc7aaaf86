------------------------------ MODULE JobBoard ------------------------------
(***************************************************************************)
(* What durable work promises, with no database, lease or worker in it.    *)
(*                                                                         *)
(* A job is asked for once.  It is handed to one attempt after another,    *)
(* attempt 1, 2, 3 and so on.  Only the attempt it was handed to last may  *)
(* write for it, and it ends once, done or dead, for good.                 *)
(***************************************************************************)
EXTENDS Naturals

CONSTANT Job

VARIABLES
  status,   \* what a reader of the job sees
  attempt,  \* the attempt the job was handed to last, 0 before the first
  author    \* the attempt whose write for the job was the last to commit

vars == <<status, attempt, author>>

Ended == {"done", "dead"}

TypeOK ==
  /\ status \in [Job -> {"none", "pending"} \union Ended]
  /\ attempt \in [Job -> Nat]
  /\ author \in [Job -> Nat]

Init ==
  /\ status = [j \in Job |-> "none"]
  /\ attempt = [j \in Job |-> 0]
  /\ author = [j \in Job |-> 0]

Ask(j) ==
  /\ status[j] = "none"
  /\ status' = [status EXCEPT ![j] = "pending"]
  /\ UNCHANGED <<attempt, author>>

Hand(j) ==
  /\ status[j] = "pending"
  /\ attempt' = [attempt EXCEPT ![j] = @ + 1]
  /\ UNCHANGED <<status, author>>

\* The attempt a job was handed to last writes for it: rows of the tenant, or
\* that the job is to be tried again.
Write(j) ==
  /\ status[j] = "pending"
  /\ author' = [author EXCEPT ![j] = attempt[j]]
  /\ UNCHANGED <<status, attempt>>

End(j) ==
  /\ status[j] = "pending"
  /\ \E how \in Ended : status' = [status EXCEPT ![j] = how]
  /\ author' = [author EXCEPT ![j] = attempt[j]]
  /\ UNCHANGED attempt

Next == \E j \in Job : Ask(j) \/ Hand(j) \/ Write(j) \/ End(j)

Spec == Init /\ [][Next]_vars
=============================================================================
