------------------------------- MODULE Reads -------------------------------
(***************************************************************************)
(* What lets a tab read: the causes of src/query-client.ts, the record of  *)
(* the last read of each key, the grants of mutations and server events,   *)
(* and the fetches of TanStack Query that ask.                             *)
(*                                                                         *)
(* A step is a task of the tab, or one of the microtasks that follow it: a *)
(* fetch waits one microtask before it is admitted, and no other task runs *)
(* before the microtasks are done.  Keys touch each other through          *)
(* answeredSinceTheLast only, so a few are followed and the others answer. *)
(***************************************************************************)
EXTENDS Naturals, FiniteSets

CONSTANTS
  Key,        \* the query keys that are followed
  Paged,      \* the keys of infinite queries
  Mutation,   \* the mutations that may run at once
  Retries,    \* RETRIES_OF_AN_UNREACHED_READ
  MaxGranted, \* the bound of the grants a key keeps
  MaxStray    \* the bound of the reads that run on at once

ASSUME ReadsAssumption ==
  /\ Paged \subseteq Key
  /\ Retries \in Nat
  /\ MaxGranted \in Nat \ {0}
  /\ MaxStray \in Nat

VARIABLES
  answeredSinceTheLast,  \* whether a read answered since the last cause
  reads,     \* the record of the last read of each key
  query,     \* the fetch of each key, and whether the key has data
  stray,     \* a read that still runs though its fetch was cancelled
  mutation,  \* the mutations that run, with a cause or without
  polled,    \* the keys with an observer that has a refetchInterval
  met        \* how the last read of each key that was admitted ended

vars == <<answeredSinceTheLast, reads, query, stray, mutation, polled, met>>

Failure == {"none", "unreached", "api"}

TypeOK ==
  /\ answeredSinceTheLast \in BOOLEAN
  /\ reads \in [Key -> [known : BOOLEAN, granted : 0..MaxGranted, due : BOOLEAN,
                        failure : Failure, refused : BOOLEAN]]
  /\ query \in [Key -> [at : {"idle", "asked", "reads", "waits"}, failures : 0..Retries,
                        data : BOOLEAN, caused : BOOLEAN, more : BOOLEAN, own : BOOLEAN]]
  /\ stray \in [Key -> {"none", "own", "forgotten"}]
  /\ mutation \in [Mutation -> {"none", "caused", "uncaused"}]
  /\ polled \in SUBSET Key
  /\ met \in [Key -> Failure]

\* No record: the key was not read since the last cause.
Forgotten == [known |-> FALSE, granted |-> 0, due |-> FALSE, failure |-> "none", refused |-> FALSE]

\* A read that begins now, with so many more granted.
Read(granted) == [Forgotten EXCEPT !.known = TRUE, !.granted = granted]

\* A fetch is one that a focus, a mutation with a cause or a server event asked
\* for, or not; one of the next page, or not; and its read's record is the one
\* in `reads`, its own, or one that was forgotten.
Idle == [at |-> "idle", failures |-> 0, data |-> FALSE, caused |-> FALSE, more |-> FALSE,
         own |-> FALSE]

Init ==
  /\ answeredSinceTheLast = FALSE
  /\ reads = [k \in Key |-> Forgotten]
  /\ query = [k \in Key |-> Idle]
  /\ stray = [k \in Key |-> "none"]
  /\ mutation = [m \in Mutation |-> "none"]
  /\ polled \in SUBSET Key
  /\ met = [k \in Key |-> "none"]

\* The microtasks of the last task are done.
TaskMayRun == \A k \in Key : query[k].at # "asked"

-----------------------------------------------------------------------------
(* How TanStack Query starts a fetch.                                      *)

\* A fetch that is under way is shared; with data, a caller may cancel it and
\* start its own.
Joins(q, cancels) == q.at # "idle" /\ ~(cancels /\ q.data)

\* A fetch that waits to try again does so when it is joined.
Asked(q, cancels, caused, more) ==
  IF Joins(q, cancels) THEN [q EXCEPT !.at = IF q.at = "waits" THEN "asked" ELSE q.at]
  ELSE [Idle EXCEPT !.at = "asked", !.data = q.data, !.caused = caused, !.more = more]

\* The read of a fetch that is cancelled runs on.
Cancelled(q, cancels) == q.at = "reads" /\ ~Joins(q, cancels)

Strays == {k \in Key : stray[k] # "none"}

Starts(keys, cancels, caused, more) ==
  /\ LET leaves == {k \in keys : Cancelled(query[k], cancels)}
     IN  leaves \intersect Strays = {} /\ Cardinality(leaves \union Strays) <= MaxStray
  /\ query' = [k \in Key |->
       IF k \in keys THEN Asked(query[k], cancels, caused, more) ELSE query[k]]
  /\ stray' = [k \in Key |->
       IF k \in keys /\ Cancelled(query[k], cancels)
       THEN IF query[k].own THEN "own" ELSE "forgotten"
       ELSE stray[k]]

\* A screen mounts a query, enables it, reads it again or reads its next page,
\* for any reason of its own; an interval is over.
Ask(k) ==
  /\ TaskMayRun
  /\ \E cancels, more \in BOOLEAN : (more => k \in Paged) /\ Starts({k}, cancels, FALSE, more)
  /\ UNCHANGED <<answeredSinceTheLast, reads, mutation, polled, met>>

-----------------------------------------------------------------------------
(* The outside causes.                                                     *)

\* Mutant: the records are kept, and only the flag is reset.
MutantCausedByKeeps ==
  /\ answeredSinceTheLast' = FALSE
  /\ UNCHANGED <<reads, stray>>

\* causedBy forgets every record, and with them what the reads that still run
\* will write.
CausedBy ==
  /\ answeredSinceTheLast' = FALSE
  /\ reads' = [k \in Key |-> Forgotten]
  /\ stray' = [k \in Key |-> IF stray[k] = "own" THEN "forgotten" ELSE stray[k]]

Unowned(q) == [q EXCEPT !.own = FALSE]

\* A navigation, or an input of the person.
Act ==
  /\ TaskMayRun
  /\ CausedBy
  /\ query' = [k \in Key |-> Unowned(query[k])]
  /\ UNCHANGED <<mutation, polled, met>>

\* The tab regains focus or comes online: every mounted query reads again.
Regain ==
  /\ TaskMayRun
  /\ CausedBy
  /\ query' = [k \in Key |-> Asked(Unowned(query[k]), FALSE, TRUE, FALSE)]
  /\ UNCHANGED <<mutation, polled, met>>

Grant(keys) ==
  /\ \A k \in keys : reads[k].granted < MaxGranted
  /\ reads' = [k \in Key |->
       IF k \notin keys THEN reads[k]
       ELSE IF reads[k].known THEN [reads[k] EXCEPT !.granted = @ + 1]
       ELSE Read(1)]

\* A query that no screen shows is invalidated, and asked for by none.
ServerEvent(keys) ==
  /\ TaskMayRun
  /\ Grant(keys)
  /\ \E active \in SUBSET keys : Starts(active, TRUE, TRUE, FALSE)
  /\ UNCHANGED <<answeredSinceTheLast, mutation, polled, met>>

\* Mutant: every mutation is a cause.
MutantCauseOfAny == "caused"

\* A mutation is a cause when no read answered since the last.
CauseOf == IF answeredSinceTheLast THEN "uncaused" ELSE "caused"

Mutate(m) ==
  /\ TaskMayRun
  /\ mutation[m] = "none"
  /\ mutation' = [mutation EXCEPT ![m] = CauseOf]
  /\ UNCHANGED <<answeredSinceTheLast, reads, query, stray, polled, met>>

\* It grants the keys it invalidates, with a cause, and invalidates them.
Settle(m, keys) ==
  /\ TaskMayRun
  /\ mutation[m] # "none"
  /\ mutation' = [mutation EXCEPT ![m] = "none"]
  /\ IF mutation[m] = "caused" THEN Grant(keys) ELSE UNCHANGED reads
  /\ \E active \in SUBSET keys : Starts(active, TRUE, mutation[m] = "caused", FALSE)
  /\ UNCHANGED <<answeredSinceTheLast, polled, met>>

\* The interval of a polled key passes since its last read.
Tick(k) ==
  /\ TaskMayRun
  /\ k \in polled /\ reads[k].known /\ ~reads[k].due
  /\ reads' = [reads EXCEPT ![k].due = TRUE]
  /\ UNCHANGED <<answeredSinceTheLast, query, stray, mutation, polled, met>>

-----------------------------------------------------------------------------
(* The microtask: admit lets a read start, or throws.                      *)

ARetry(k) == reads[k].known /\ query[k].failures > 0
APage(k) == reads[k].known /\ query[k].more

\* The read starts, with the record it writes its end to.
Begins(k, read) ==
  /\ reads' = [reads EXCEPT ![k] = read]
  /\ query' = [query EXCEPT ![k].at = "reads", ![k].own = TRUE]

\* A fetch that failed waits to try again, or ends with its failure.
Throws(q, failure) ==
  IF failure = "unreached" /\ q.failures < Retries
  THEN [q EXCEPT !.at = "waits", !.failures = @ + 1, !.own = FALSE]
  ELSE [Idle EXCEPT !.data = q.data]

AdmitAgain(k) ==
  /\ query[k].at = "asked"
  /\ ARetry(k) /\ ~reads[k].refused
  /\ Begins(k, reads[k])
  /\ UNCHANGED <<answeredSinceTheLast, stray, mutation, polled, met>>

AdmitPage(k) ==
  /\ query[k].at = "asked"
  /\ ~ARetry(k) /\ APage(k)
  /\ Begins(k, [reads[k] EXCEPT !.refused = FALSE])
  /\ UNCHANGED <<answeredSinceTheLast, stray, mutation, polled, met>>

\* The first read since the last cause, or one that was granted; a read that
\* still runs keeps the record it had.
AdmitCaused(k) ==
  /\ query[k].at = "asked"
  /\ ~ARetry(k) /\ ~APage(k)
  /\ ~reads[k].known \/ reads[k].granted > 0
  /\ Begins(k, Read(IF reads[k].known THEN reads[k].granted - 1 ELSE 0))
  /\ stray' = [stray EXCEPT ![k] = IF @ = "own" THEN "forgotten" ELSE @]
  /\ met' = [met EXCEPT ![k] = "none"]
  /\ UNCHANGED <<answeredSinceTheLast, mutation, polled>>

AtItsSpacing(k) == k \in polled /\ reads[k].due

AdmitPoll(k) ==
  /\ query[k].at = "asked"
  /\ ~ARetry(k) /\ ~APage(k)
  /\ reads[k].known /\ reads[k].granted = 0 /\ AtItsSpacing(k)
  /\ Begins(k, [reads[k] EXCEPT !.due = FALSE, !.refused = FALSE])
  /\ UNCHANGED <<answeredSinceTheLast, stray, mutation, polled, met>>

\* What admit throws: the failure of the read it refuses once more, the failure
\* the last read met, or CycleStopped ("none"), which nothing retries.
Refuse(k) ==
  /\ query[k].at = "asked"
  /\ \/ ARetry(k) /\ reads[k].refused /\ UNCHANGED reads
        /\ query' = [query EXCEPT ![k] = Throws(query[k], "unreached")]
     \/ /\ ~ARetry(k) /\ ~APage(k)
        /\ reads[k].known /\ reads[k].granted = 0 /\ ~AtItsSpacing(k)
        /\ reads' = [reads EXCEPT ![k].refused = TRUE]
        /\ query' = [query EXCEPT ![k] = Throws(query[k], reads[k].failure)]
  /\ UNCHANGED <<answeredSinceTheLast, stray, mutation, polled, met>>

\* The retryer tries again.
Retry(k) ==
  /\ TaskMayRun
  /\ query[k].at = "waits"
  /\ query' = [query EXCEPT ![k].at = "asked"]
  /\ UNCHANGED <<answeredSinceTheLast, reads, stray, mutation, polled, met>>

-----------------------------------------------------------------------------
(* The end of a read.                                                      *)

\* Mutant: the end of a read is written to the record its key has now.
MutantNotesByKey(k, own, failure) == [reads EXCEPT ![k].failure = failure]

\* A read notes its end in its own record.
Notes(k, own, failure) ==
  IF own THEN [reads EXCEPT ![k].failure = failure] ELSE reads

\* It answers, or fails; "unreached" alone is tried again.
End(k) ==
  /\ TaskMayRun
  /\ query[k].at = "reads"
  /\ answeredSinceTheLast' = TRUE
  /\ \E failure \in Failure :
       /\ reads' = Notes(k, query[k].own, failure)
       /\ met' = [met EXCEPT ![k] = failure]
       /\ query' = [query EXCEPT ![k] =
            IF failure = "none" THEN [Idle EXCEPT !.data = TRUE]
            ELSE Throws(query[k], failure)]
  /\ UNCHANGED <<stray, mutation, polled>>

\* Nobody has the answer of a read whose fetch was cancelled.
EndStray(k) ==
  /\ TaskMayRun
  /\ stray[k] # "none"
  /\ answeredSinceTheLast' = TRUE
  /\ \E failure \in Failure :
       /\ reads' = Notes(k, stray[k] = "own", failure)
       /\ met' = IF stray[k] = "own" THEN [met EXCEPT ![k] = failure] ELSE met
  /\ stray' = [stray EXCEPT ![k] = "none"]
  /\ UNCHANGED <<query, mutation, polled>>

\* A read of a key that is not followed answers.
EndElsewhere ==
  /\ TaskMayRun
  /\ answeredSinceTheLast' = TRUE
  /\ UNCHANGED <<reads, query, stray, mutation, polled, met>>

Admits(k) == AdmitAgain(k) \/ AdmitPage(k) \/ AdmitCaused(k) \/ AdmitPoll(k)

Next ==
  \/ Act \/ Regain \/ EndElsewhere
  \/ \E k \in Key : Ask(k) \/ Tick(k) \/ Admits(k) \/ Refuse(k) \/ Retry(k) \/ End(k) \/ EndStray(k)
  \/ \E m \in Mutation : Mutate(m)
  \/ \E keys \in SUBSET Key \ {{}} :
       ServerEvent(keys) \/ \E m \in Mutation : Settle(m, keys)

Spec == Init /\ [][Next]_vars

-----------------------------------------------------------------------------
(* What is right about it.                                                 *)

Outside == Act \/ Regain \/ \E keys \in SUBSET Key : ServerEvent(keys)

\* A read that is no poll, and not of a page that was not read.
PlainRead(k) == (AdmitAgain(k) \/ AdmitCaused(k)) /\ ~query[k].more

\* A key that nobody polls is read over and over only while something outside
\* the tab's own cache happens over and over: no chain of reads, mutations that
\* their answers start, failures and retries goes on by itself (ADR 0024).
ReadsNeedCauses == \A k \in Key :
  k \notin polled /\ []<><<PlainRead(k)>>_vars => []<><<Outside>>_vars

\* No fetch that a focus, a reconnect, a server event or a mutation with a cause
\* started is refused, whatever else asked for the key meanwhile.
CausedFetchesRead == [][\A k \in Key : query[k].caused => ~Refuse(k)]_vars

\* What a refused read throws is how a read of its own cause ended, not how one
\* from before the cause, or before a grant, that answers late.
RefusedWithItsOwnFailure == \A k \in Key :
  reads[k].known /\ reads[k].refused => reads[k].failure = met[k]
=============================================================================
