------------------------------ MODULE MCJobs ------------------------------
(* Jobs on small instances.                                                *)
EXTENDS Jobs

\* Leases.retry_in: it doubles with each attempt.
MCRetryIn == [n \in 1..MaxAttempts |-> 2 ^ (n - 1)]
=============================================================================
