----------------------------- MODULE TabProofs ------------------------------
(***************************************************************************)
(* The parts of a tab that share no state, for every value of their        *)
(* constants: what lets it read (Reads), and the hold of its requests      *)
(* (Holds).                                                                *)
(***************************************************************************)
EXTENDS MCTab, TLAPS

-----------------------------------------------------------------------------
(* The reads.                                                              *)

Record == [known : BOOLEAN, granted : 0..MaxGranted, due : BOOLEAN, failure : Failure,
           refused : BOOLEAN]

Place == {"idle", "asked", "reads", "waits"}

Query == [at : Place, failures : 0..Retries,
          data : BOOLEAN, caused : BOOLEAN, more : BOOLEAN, own : BOOLEAN]

\* The record of a key says how its last read ended, or one more is granted and no
\* fetch was refused since; and a read whose record was forgotten runs on only
\* while that is so.
RecordIsOfTheCause(r, q, ended) ==
  /\ r.known => r.failure = ended \/ (r.granted > 0 /\ ~r.refused)
  /\ r.known /\ q.at = "reads" /\ ~q.own => r.granted > 0 /\ ~r.refused

\* A fetch that has a cause is admitted when it asks: one more is granted, or no
\* read of its key is known, or it tries again what was not refused.
CauseIsKept(r, q) ==
  q.caused =>
    /\ ~q.more
    /\ q.at = "waits" => q.failures > 0
    /\ r.known => IF q.at = "asked" /\ q.failures = 0 THEN r.granted > 0
                  ELSE q.at # "idle" => ~r.refused

IsKept(r, q, ended) == RecordIsOfTheCause(r, q, ended) /\ CauseIsKept(r, q)

ReadsInv ==
  /\ TypeOK
  /\ \A k \in Key : IsKept(reads[k], query[k], met[k])

-----------------------------------------------------------------------------
\* What the fields of a fetch are after each operator of Reads.

LEMMA AtSet ==
  ASSUME NEW q \in Query, NEW x \in Place
  PROVE  LET y == [q EXCEPT !.at = x]
         IN  /\ y \in Query
             /\ y.at = x /\ y.failures = q.failures /\ y.data = q.data
             /\ y.caused = q.caused /\ y.more = q.more /\ y.own = q.own
BY DEF Query

LEMMA OwnSet ==
  ASSUME NEW q \in Query, NEW b \in BOOLEAN
  PROVE  LET y == [q EXCEPT !.own = b]
         IN  /\ y \in Query
             /\ y.at = q.at /\ y.failures = q.failures /\ y.data = q.data
             /\ y.caused = q.caused /\ y.more = q.more /\ y.own = b
BY DEF Query

LEMMA DataSet ==
  ASSUME NEW q \in Query, NEW b \in BOOLEAN
  PROVE  LET y == [q EXCEPT !.data = b]
         IN  /\ y \in Query
             /\ y.at = q.at /\ y.failures = q.failures /\ y.data = b
             /\ y.caused = q.caused /\ y.more = q.more /\ y.own = q.own
BY DEF Query

LEMMA CausedSet ==
  ASSUME NEW q \in Query, NEW b \in BOOLEAN
  PROVE  LET y == [q EXCEPT !.caused = b]
         IN  /\ y \in Query
             /\ y.at = q.at /\ y.failures = q.failures /\ y.data = q.data
             /\ y.caused = b /\ y.more = q.more /\ y.own = q.own
BY DEF Query

LEMMA MoreSet ==
  ASSUME NEW q \in Query, NEW b \in BOOLEAN
  PROVE  LET y == [q EXCEPT !.more = b]
         IN  /\ y \in Query
             /\ y.at = q.at /\ y.failures = q.failures /\ y.data = q.data
             /\ y.caused = q.caused /\ y.more = b /\ y.own = q.own
BY DEF Query

LEMMA FailuresSet ==
  ASSUME NEW q \in Query, NEW n \in 0..Retries
  PROVE  LET y == [q EXCEPT !.failures = n]
         IN  /\ y \in Query
             /\ y.at = q.at /\ y.failures = n /\ y.data = q.data
             /\ y.caused = q.caused /\ y.more = q.more /\ y.own = q.own
BY DEF Query

LEMMA IdleFields ==
  ASSUME ReadsAssumption
  PROVE  /\ Idle \in Query
         /\ Idle.at = "idle" /\ Idle.failures = 0 /\ Idle.data = FALSE
         /\ Idle.caused = FALSE /\ Idle.more = FALSE /\ Idle.own = FALSE
BY DEF ReadsAssumption, Idle, Query, Place

\* A fetch that is joined keeps its cause and page; one that starts has those it
\* is asked for with, and no failure yet.
LEMMA AskedFields ==
  ASSUME ReadsAssumption, NEW q \in Query,
         NEW cancels \in BOOLEAN, NEW caused \in BOOLEAN, NEW more \in BOOLEAN
  PROVE  LET a == Asked(q, cancels, caused, more)
         IN  /\ a \in Query
             /\ Joins(q, cancels) =>
                  /\ a.at = IF q.at = "waits" THEN "asked" ELSE q.at
                  /\ a.failures = q.failures /\ a.caused = q.caused
                  /\ a.more = q.more /\ a.own = q.own
             /\ ~Joins(q, cancels) =>
                  /\ a.at = "asked" /\ a.failures = 0
                  /\ a.caused = caused /\ a.more = more
<1> DEFINE a == Asked(q, cancels, caused, more)
           to == IF q.at = "waits" THEN "asked" ELSE q.at
<1>1. to \in Place
  BY DEF Place, Query
<1>2. CASE Joins(q, cancels)
  <2>1. a = [q EXCEPT !.at = to]
    BY <1>2 DEF Asked
  <2> QED  BY <1>1, <1>2, <2>1, AtSet
<1>3. CASE ~Joins(q, cancels)
  <2> DEFINE b == [Idle EXCEPT !.at = "asked"]
             c == [b EXCEPT !.data = q.data]
             d == [c EXCEPT !.caused = caused]
  <2>1. a = [Idle EXCEPT !.at = "asked", !.data = q.data, !.caused = caused, !.more = more]
    BY <1>3 DEF Asked
  <2>2. a = [d EXCEPT !.more = more]
    BY <2>1
  <2>3. b \in Query /\ b.at = "asked" /\ b.failures = 0
    BY IdleFields, AtSet DEF Place
  <2>4. q.data \in BOOLEAN
    BY DEF Query
  <2>5. c \in Query /\ c.at = "asked" /\ c.failures = 0
    BY <2>3, <2>4, DataSet
  <2>6. d \in Query /\ d.at = "asked" /\ d.failures = 0 /\ d.caused = caused
    BY <2>5, CausedSet
  <2> HIDE DEF b, c, d
  <2>7. /\ a \in Query /\ a.at = "asked" /\ a.failures = 0
        /\ a.caused = caused /\ a.more = more
    BY <2>2, <2>6, MoreSet
  <2> QED  BY <1>3, <2>7
<1> HIDE DEF a
<1> QED  BY <1>2, <1>3 DEF a

\* A fetch that throws waits with one more failure, its cause and page kept, or is
\* idle and has no cause.
LEMMA ThrowsFields ==
  ASSUME ReadsAssumption, NEW q \in Query, NEW failure \in Failure
  PROVE  LET t == Throws(q, failure)
         IN  /\ t \in Query
             /\ \/ /\ t.at = "waits" /\ t.failures > 0
                   /\ t.caused = q.caused /\ t.more = q.more
                \/ t.at = "idle" /\ ~t.caused
<1> DEFINE t == Throws(q, failure)
<1>1. CASE failure = "unreached" /\ q.failures < Retries
  <2> DEFINE b == [q EXCEPT !.at = "waits"]
             c == [b EXCEPT !.failures = q.failures + 1]
  <2>1. t = [q EXCEPT !.at = "waits", !.failures = @ + 1, !.own = FALSE]
    BY <1>1 DEF Throws
  <2>2. t = [c EXCEPT !.own = FALSE]
    BY <2>1
  <2>3. q.failures + 1 \in 0..Retries /\ q.failures + 1 > 0
    BY <1>1 DEF ReadsAssumption, Query
  <2>4. b \in Query /\ b.at = "waits" /\ b.caused = q.caused /\ b.more = q.more
    BY AtSet DEF Place
  <2>5. /\ c \in Query /\ c.at = "waits" /\ c.failures = q.failures + 1
        /\ c.caused = q.caused /\ c.more = q.more
    BY <2>3, <2>4, FailuresSet
  <2> HIDE DEF b, c, t
  <2>6. /\ t \in Query /\ t.at = "waits" /\ t.failures = q.failures + 1
        /\ t.caused = q.caused /\ t.more = q.more
    BY <2>2, <2>5, OwnSet
  <2> QED  BY <2>3, <2>6 DEF t
<1>2. CASE ~(failure = "unreached" /\ q.failures < Retries)
  <2>1. t = [Idle EXCEPT !.data = q.data]
    BY <1>2 DEF Throws
  <2>2. q.data \in BOOLEAN
    BY DEF Query
  <2> HIDE DEF t
  <2>3. t \in Query /\ t.at = "idle" /\ t.caused = FALSE
    BY <2>1, <2>2, IdleFields, DataSet
  <2> QED  BY <2>3 DEF t
<1> HIDE DEF t
<1> QED  BY <1>1, <1>2 DEF t

-----------------------------------------------------------------------------
\* What the fields of a record are after each operator of Reads.

LEMMA DueSet ==
  ASSUME NEW r \in Record, NEW b \in BOOLEAN
  PROVE  LET s == [r EXCEPT !.due = b]
         IN  /\ s \in Record
             /\ s.known = r.known /\ s.granted = r.granted /\ s.failure = r.failure
             /\ s.refused = r.refused
BY DEF Record

LEMMA RefusedSet ==
  ASSUME NEW r \in Record, NEW b \in BOOLEAN
  PROVE  LET s == [r EXCEPT !.refused = b]
         IN  /\ s \in Record
             /\ s.known = r.known /\ s.granted = r.granted /\ s.failure = r.failure
             /\ s.refused = b
BY DEF Record

LEMMA FailureSet ==
  ASSUME NEW r \in Record, NEW f \in Failure
  PROVE  LET s == [r EXCEPT !.failure = f]
         IN  /\ s \in Record
             /\ s.known = r.known /\ s.granted = r.granted /\ s.failure = f
             /\ s.refused = r.refused
BY DEF Record

LEMMA GrantedSet ==
  ASSUME NEW r \in Record, NEW n \in 0..MaxGranted
  PROVE  LET s == [r EXCEPT !.granted = n]
         IN  /\ s \in Record
             /\ s.known = r.known /\ s.granted = n /\ s.failure = r.failure
             /\ s.refused = r.refused
BY DEF Record

LEMMA KnownSet ==
  ASSUME NEW r \in Record, NEW b \in BOOLEAN
  PROVE  LET s == [r EXCEPT !.known = b]
         IN  /\ s \in Record
             /\ s.known = b /\ s.granted = r.granted /\ s.failure = r.failure
             /\ s.refused = r.refused
BY DEF Record

LEMMA ForgottenFields ==
  ASSUME ReadsAssumption
  PROVE  /\ Forgotten \in Record
         /\ Forgotten.known = FALSE /\ Forgotten.granted = 0
         /\ Forgotten.failure = "none" /\ Forgotten.refused = FALSE
BY DEF ReadsAssumption, Forgotten, Record, Failure

LEMMA ReadFields ==
  ASSUME ReadsAssumption, NEW n \in 0..MaxGranted
  PROVE  /\ Read(n) \in Record
         /\ Read(n).known = TRUE /\ Read(n).granted = n
         /\ Read(n).failure = "none" /\ Read(n).refused = FALSE
<1> DEFINE s == [Forgotten EXCEPT !.known = TRUE]
<1>1. /\ s \in Record
      /\ s.known = TRUE /\ s.failure = "none" /\ s.refused = FALSE
  BY ForgottenFields, KnownSet
<1>2. Read(n) = [s EXCEPT !.granted = n]
  BY DEF Read
<1> HIDE DEF s
<1> QED  BY <1>1, <1>2, GrantedSet

-----------------------------------------------------------------------------
\* Each thing that happens to a key keeps what is right about it.

LEMMA RecordTypes == ReadsInv =>
  /\ reads \in [Key -> Record] /\ query \in [Key -> Query] /\ met \in [Key -> Failure]
  /\ stray \in [Key -> {"none", "own", "forgotten"}]
  /\ \A k \in Key : IsKept(reads[k], query[k], met[k])
BY DEF ReadsInv, TypeOK, Record, Query, Place

\* It is asked for: with a cause, only when its next read is admitted, and never
\* for its next page.
LEMMA AskedIsKept ==
  ASSUME ReadsAssumption, NEW r \in Record, NEW q \in Query, NEW ended \in Failure,
         NEW cancels \in BOOLEAN, NEW caused \in BOOLEAN, NEW more \in BOOLEAN,
         IsKept(r, q, ended), q.at # "asked",
         caused => ~more /\ (r.known => r.granted > 0)
  PROVE  IsKept(r, Asked(q, cancels, caused, more), ended)
<1> DEFINE a == Asked(q, cancels, caused, more)
<1>1. /\ a \in Query
      /\ Joins(q, cancels) =>
           /\ a.at = IF q.at = "waits" THEN "asked" ELSE q.at
           /\ a.failures = q.failures /\ a.caused = q.caused
           /\ a.more = q.more /\ a.own = q.own
      /\ ~Joins(q, cancels) =>
           /\ a.at = "asked" /\ a.failures = 0
           /\ a.caused = caused /\ a.more = more
  BY AskedFields
<1> HIDE DEF a
<1>2. CASE Joins(q, cancels)
  <2>1. IsKept(r, a, ended)
    BY <1>1, <1>2 DEF IsKept, RecordIsOfTheCause, CauseIsKept, Joins
  <2> QED  BY <2>1 DEF a
<1>3. CASE ~Joins(q, cancels)
  <2>1. a.at = "asked" /\ a.failures = 0 /\ (a.caused => caused) /\ (a.more => more)
    BY <1>1, <1>3
  <2>2. RecordIsOfTheCause(r, a, ended)
    BY <2>1 DEF IsKept, RecordIsOfTheCause
  <2>3. CauseIsKept(r, a)
    BY <2>1 DEF CauseIsKept
  <2> QED  BY <2>2, <2>3 DEF a, IsKept
<1> QED  BY <1>2, <1>3

\* Its record is forgotten, and with it what the read that still runs will write.
LEMMA ForgottenIsKept ==
  ASSUME ReadsAssumption, NEW r \in Record, NEW q \in Query, NEW ended \in Failure,
         IsKept(r, q, ended)
  PROVE  /\ Unowned(q) \in Query /\ Unowned(q).at = q.at
         /\ IsKept(Forgotten, Unowned(q), ended)
<1> DEFINE u == Unowned(q)
<1>1. /\ u \in Query /\ u.at = q.at /\ u.failures = q.failures
      /\ u.caused = q.caused /\ u.more = q.more
  BY OwnSet DEF Unowned
<1> HIDE DEF u
<1>2. IsKept(Forgotten, u, ended)
  BY <1>1, ForgottenFields DEF IsKept, RecordIsOfTheCause, CauseIsKept
<1> QED  BY <1>1, <1>2 DEF u

\* One more read is granted.
GrantedTo(r) == IF r.known THEN [r EXCEPT !.granted = @ + 1] ELSE Read(1)

LEMMA GrantIsKept ==
  ASSUME ReadsAssumption, NEW r \in Record, NEW q \in Query, NEW ended \in Failure,
         IsKept(r, q, ended), q.at # "asked", r.granted < MaxGranted
  PROVE  /\ GrantedTo(r) \in Record /\ GrantedTo(r).known /\ GrantedTo(r).granted > 0
         /\ IsKept(GrantedTo(r), q, ended)
<1> DEFINE g == GrantedTo(r)
<1>1. CASE r.known
  <2>1. r.granted + 1 \in 0..MaxGranted
    BY DEF ReadsAssumption, Record
  <2>2. g = [r EXCEPT !.granted = r.granted + 1]
    BY <1>1 DEF GrantedTo
  <2> HIDE DEF g
  <2>3. /\ g \in Record /\ g.known = r.known /\ g.granted = r.granted + 1
        /\ g.failure = r.failure /\ g.refused = r.refused
    BY <2>1, <2>2, GrantedSet
  <2>4. r.granted \in Nat
    BY DEF Record, ReadsAssumption
  <2>5. IsKept(g, q, ended)
    BY <1>1, <2>3, <2>4 DEF IsKept, RecordIsOfTheCause, CauseIsKept
  <2> QED  BY <1>1, <2>3, <2>4, <2>5 DEF g
<1>2. CASE ~r.known
  <2>1. g = Read(1) /\ 1 \in 0..MaxGranted
    BY <1>2 DEF GrantedTo, ReadsAssumption
  <2> HIDE DEF g
  <2>2. g \in Record /\ g.known = TRUE /\ g.granted = 1 /\ g.refused = FALSE
    BY <2>1, ReadFields
  <2>3. IsKept(g, q, ended)
    BY <1>2, <2>2 DEF IsKept, RecordIsOfTheCause, CauseIsKept
  <2> QED  BY <2>2, <2>3 DEF g
<1> QED  BY <1>1, <1>2

\* Its fetch throws.
LEMMA ThrowsIsKept ==
  ASSUME ReadsAssumption, NEW r \in Record, NEW q \in Query, NEW ended \in Failure,
         NEW failure \in Failure,
         r.known => r.failure = ended \/ (r.granted > 0 /\ ~r.refused),
         q.caused => ~q.more /\ (r.known => ~r.refused)
  PROVE  IsKept(r, Throws(q, failure), ended)
<1> DEFINE t == Throws(q, failure)
<1>1. /\ t \in Query
      /\ \/ /\ t.at = "waits" /\ t.failures > 0
            /\ t.caused = q.caused /\ t.more = q.more
         \/ t.at = "idle" /\ ~t.caused
  BY ThrowsFields
<1> HIDE DEF t
<1>2. IsKept(r, t, ended)
  BY <1>1 DEF IsKept, RecordIsOfTheCause, CauseIsKept
<1> QED  BY <1>2 DEF t

-----------------------------------------------------------------------------
\* The invariant of the reads, step by step.

LEMMA InvAfter ==
  ASSUME answeredSinceTheLast' \in BOOLEAN, polled' \in SUBSET Key,
         mutation' \in [Mutation -> {"none", "caused", "uncaused"}],
         stray' \in [Key -> {"none", "own", "forgotten"}],
         reads' \in [Key -> Record], query' \in [Key -> Query], met' \in [Key -> Failure],
         \A k \in Key : IsKept(reads'[k], query'[k], met'[k])
  PROVE  ReadsInv'
BY DEF ReadsInv, TypeOK, Record, Query, Place

\* A step of one key.
LEMMA OneKey ==
  ASSUME ReadsInv, NEW k \in Key, NEW r \in Record, NEW q \in Query, NEW f \in Failure,
         answeredSinceTheLast' \in BOOLEAN, UNCHANGED <<mutation, polled>>,
         stray' \in [Key -> {"none", "own", "forgotten"}],
         reads' = [reads EXCEPT ![k] = r], query' = [query EXCEPT ![k] = q],
         met' = [met EXCEPT ![k] = f],
         IsKept(r, q, f)
  PROVE  ReadsInv'
<1>1. reads' \in [Key -> Record] /\ query' \in [Key -> Query] /\ met' \in [Key -> Failure]
  BY RecordTypes
<1>2. ASSUME NEW j \in Key PROVE IsKept(reads'[j], query'[j], met'[j])
  <2>1. CASE j = k
    <3>1. reads'[j] = r /\ query'[j] = q /\ met'[j] = f
      BY <2>1, RecordTypes
    <3> QED  BY <3>1
  <2>2. CASE j # k
    <3>1. reads'[j] = reads[j] /\ query'[j] = query[j] /\ met'[j] = met[j]
      BY <2>2, RecordTypes
    <3> QED  BY <3>1, RecordTypes
  <2> QED  BY <2>1, <2>2
<1>3. /\ mutation' \in [Mutation -> {"none", "caused", "uncaused"}]
      /\ polled' \in SUBSET Key
  BY DEF ReadsInv, TypeOK
<1> QED  BY <1>1, <1>2, <1>3, InvAfter

LEMMA Same ==
  ASSUME NEW f, NEW S, NEW T, f \in [S -> T], NEW k \in S
  PROVE  f = [f EXCEPT ![k] = f[k]]
OBVIOUS

\* What a key is left as by the start of fetches of some keys.
LEMMA StartsFields ==
  ASSUME ReadsAssumption, ReadsInv, NEW keys \in SUBSET Key,
         NEW cancels \in BOOLEAN, NEW caused \in BOOLEAN, NEW more \in BOOLEAN,
         Starts(keys, cancels, caused, more)
  PROVE  /\ query' \in [Key -> Query]
         /\ stray' \in [Key -> {"none", "own", "forgotten"}]
         /\ \A k \in Key :
              query'[k] = IF k \in keys THEN Asked(query[k], cancels, caused, more)
                          ELSE query[k]
<1>1. query' = [k \in Key |->
        IF k \in keys THEN Asked(query[k], cancels, caused, more) ELSE query[k]]
  BY DEF Starts
<1>2. \A k \in Key : query[k] \in Query /\ Asked(query[k], cancels, caused, more) \in Query
  BY RecordTypes, AskedFields
<1>3. stray' = [k \in Key |->
        IF k \in keys /\ Cancelled(query[k], cancels)
        THEN IF query[k].own THEN "own" ELSE "forgotten" ELSE stray[k]]
  BY DEF Starts
<1>4. stray' \in [Key -> {"none", "own", "forgotten"}]
  BY <1>3, RecordTypes
<1> QED  BY <1>1, <1>2, <1>4

\* Fetches are asked for between two tasks, with a cause only of granted keys.
LEMMA StartsKeep ==
  ASSUME ReadsAssumption, ReadsInv, TaskMayRun, NEW keys \in SUBSET Key,
         NEW cancels \in BOOLEAN, NEW caused \in BOOLEAN, NEW more \in BOOLEAN,
         Starts(keys, cancels, caused, more),
         reads' \in [Key -> Record],
         \A k \in Key : IsKept(reads'[k], query[k], met[k]),
         caused => ~more /\ \A k \in keys : reads'[k].known => reads'[k].granted > 0,
         mutation' \in [Mutation -> {"none", "caused", "uncaused"}],
         UNCHANGED <<answeredSinceTheLast, polled, met>>
  PROVE  ReadsInv'
<1>1. ASSUME NEW k \in Key PROVE IsKept(reads'[k], query'[k], met'[k])
  <2>1. /\ query[k] \in Query /\ query[k].at # "asked" /\ reads'[k] \in Record
        /\ met[k] \in Failure /\ met' = met
    BY RecordTypes DEF TaskMayRun
  <2>2. CASE k \in keys
    <3>1. query'[k] = Asked(query[k], cancels, caused, more)
      BY <2>2, StartsFields
    <3>2. caused => ~more /\ (reads'[k].known => reads'[k].granted > 0)
      BY <2>2
    <3> QED  BY <2>1, <3>1, <3>2, AskedIsKept
  <2>3. CASE k \notin keys
    BY <2>1, <2>3, StartsFields
  <2> QED  BY <2>2, <2>3
<1>2. /\ answeredSinceTheLast' \in BOOLEAN /\ polled' \in SUBSET Key
      /\ met' \in [Key -> Failure]
  BY DEF ReadsInv, TypeOK
<1> QED  BY <1>1, <1>2, StartsFields, InvAfter

\* Reads are granted between two tasks.
LEMMA GrantKeeps ==
  ASSUME ReadsAssumption, ReadsInv, TaskMayRun, NEW keys \in SUBSET Key, Grant(keys)
  PROVE  /\ reads' \in [Key -> Record]
         /\ \A k \in Key : IsKept(reads'[k], query[k], met[k])
         /\ \A k \in keys : reads'[k].known /\ reads'[k].granted > 0
<1>1. reads' = [k \in Key |-> IF k \notin keys THEN reads[k] ELSE GrantedTo(reads[k])]
  BY DEF Grant, GrantedTo
<1>2. \A k \in keys :
        /\ GrantedTo(reads[k]) \in Record
        /\ GrantedTo(reads[k]).known /\ GrantedTo(reads[k]).granted > 0
        /\ IsKept(GrantedTo(reads[k]), query[k], met[k])
  <2> SUFFICES ASSUME NEW k \in keys
               PROVE  /\ GrantedTo(reads[k]) \in Record
                      /\ GrantedTo(reads[k]).known /\ GrantedTo(reads[k]).granted > 0
                      /\ IsKept(GrantedTo(reads[k]), query[k], met[k])
    OBVIOUS
  <2>1. /\ reads[k] \in Record /\ query[k] \in Query /\ met[k] \in Failure
        /\ IsKept(reads[k], query[k], met[k]) /\ query[k].at # "asked"
    BY RecordTypes DEF TaskMayRun
  <2>2. reads[k].granted < MaxGranted
    BY DEF Grant
  <2> QED  BY <2>1, <2>2, GrantIsKept
<1> QED  BY <1>1, <1>2, RecordTypes

LEMMA ReadsBegin == ASSUME ReadsAssumption, Init PROVE ReadsInv
<1>1. \A k \in Key : IsKept(reads[k], query[k], met[k])
  <2> SUFFICES ASSUME NEW k \in Key PROVE IsKept(reads[k], query[k], met[k])
    OBVIOUS
  <2>1. reads[k] = Forgotten /\ query[k] = Idle /\ met[k] = "none"
    BY DEF Init
  <2> QED  BY <2>1, ForgottenFields, IdleFields
           DEF IsKept, RecordIsOfTheCause, CauseIsKept
<1>2. TypeOK
  BY ForgottenFields, IdleFields DEF Init, TypeOK, Record, Query, Place, Failure
<1> QED  BY <1>1, <1>2 DEF ReadsInv

\* The outside causes, and the mutations.
LEMMA CausesKeep ==
  ASSUME ReadsAssumption, ReadsInv,
         \/ Act \/ Regain \/ EndElsewhere \/ \E k \in Key : Ask(k)
         \/ \E m \in Mutation : Mutate(m)
         \/ \E keys \in SUBSET Key : ServerEvent(keys) \/ \E m \in Mutation : Settle(m, keys)
  PROVE  ReadsInv'
<1> USE DEF ReadsInv
<1>1. ASSUME CausedBy
      PROVE  /\ answeredSinceTheLast' \in BOOLEAN
             /\ reads' \in [Key -> Record] /\ \A k \in Key : reads'[k] = Forgotten
             /\ stray' \in [Key -> {"none", "own", "forgotten"}]
  <2>1. reads' = [k \in Key |-> Forgotten] /\ answeredSinceTheLast' = FALSE
    BY <1>1 DEF CausedBy
  <2>2. stray' = [k \in Key |-> IF stray[k] = "own" THEN "forgotten" ELSE stray[k]]
    BY <1>1 DEF CausedBy
  <2> QED  BY <2>1, <2>2, ForgottenFields, RecordTypes
<1>2. \A k \in Key : /\ Unowned(query[k]) \in Query /\ Unowned(query[k]).at = query[k].at
                     /\ IsKept(Forgotten, Unowned(query[k]), met[k])
  BY RecordTypes, ForgottenIsKept
<1>3. CASE Act
  <2>1. query' = [k \in Key |-> Unowned(query[k])] /\ UNCHANGED <<mutation, polled, met>>
    BY <1>3 DEF Act
  <2>2. \A k \in Key : IsKept(reads'[k], query'[k], met'[k])
    BY <1>1, <1>2, <1>3, <2>1 DEF Act
  <2>3. query' \in [Key -> Query]
    BY <1>2, <2>1
  <2>4. /\ mutation' \in [Mutation -> {"none", "caused", "uncaused"}]
        /\ polled' \in SUBSET Key /\ met' \in [Key -> Failure]
    BY <2>1 DEF TypeOK
  <2> QED  BY <1>1, <1>3, <2>2, <2>3, <2>4, InvAfter DEF Act
<1>4. CASE Regain
  <2>1. /\ query' = [k \in Key |-> Asked(Unowned(query[k]), FALSE, TRUE, FALSE)]
        /\ UNCHANGED <<mutation, polled, met>>
    BY <1>4 DEF Regain
  <2>2. ASSUME NEW k \in Key
        PROVE  /\ query'[k] \in Query
               /\ IsKept(reads'[k], query'[k], met'[k])
    <3>1. Unowned(query[k]).at # "asked" /\ met[k] \in Failure
      BY <1>2, <1>4, RecordTypes DEF Regain, TaskMayRun
    <3>2. Asked(Unowned(query[k]), FALSE, TRUE, FALSE) \in Query
      BY <1>2, AskedFields
    <3>3. IsKept(Forgotten, Asked(Unowned(query[k]), FALSE, TRUE, FALSE), met[k])
      BY <1>2, <3>1, ForgottenFields, AskedIsKept
    <3> QED  BY <1>1, <1>4, <2>1, <3>2, <3>3 DEF Regain
  <2>3. query' \in [Key -> Query]
    BY <2>1, <2>2
  <2>4. /\ mutation' \in [Mutation -> {"none", "caused", "uncaused"}]
        /\ polled' \in SUBSET Key /\ met' \in [Key -> Failure]
    BY <2>1 DEF TypeOK
  <2> QED  BY <1>1, <1>4, <2>2, <2>3, <2>4, InvAfter DEF Regain
<1>5. CASE EndElsewhere
  <2>1. reads' \in [Key -> Record] /\ query' \in [Key -> Query] /\ met' \in [Key -> Failure]
    BY <1>5, RecordTypes DEF EndElsewhere
  <2>2. \A k \in Key : IsKept(reads'[k], query'[k], met'[k])
    BY <1>5, RecordTypes DEF EndElsewhere
  <2> QED  BY <1>5, <2>1, <2>2, InvAfter DEF EndElsewhere, TypeOK
<1>6. ASSUME NEW k \in Key, Ask(k) PROVE ReadsInv'
  <2>1. PICK cancels \in BOOLEAN, more \in BOOLEAN : Starts({k}, cancels, FALSE, more)
    BY <1>6 DEF Ask
  <2>2. reads' \in [Key -> Record] /\ mutation' \in [Mutation -> {"none", "caused", "uncaused"}]
    BY <1>6, RecordTypes DEF Ask, TypeOK
  <2>3. \A j \in Key : IsKept(reads'[j], query[j], met[j])
    BY <1>6, RecordTypes DEF Ask
  <2>4. TaskMayRun /\ UNCHANGED <<answeredSinceTheLast, polled, met>> /\ {k} \in SUBSET Key
    BY <1>6 DEF Ask
  <2> QED  BY <2>1, <2>2, <2>3, <2>4, StartsKeep
<1>7. ASSUME NEW m \in Mutation, Mutate(m) PROVE ReadsInv'
  <2>1. mutation' \in [Mutation -> {"none", "caused", "uncaused"}]
    BY <1>7 DEF Mutate, CauseOf, TypeOK
  <2>2. /\ reads' \in [Key -> Record] /\ query' \in [Key -> Query] /\ met' \in [Key -> Failure]
        /\ \A k \in Key : IsKept(reads'[k], query'[k], met'[k])
    BY <1>7, RecordTypes DEF Mutate
  <2> QED  BY <1>7, <2>1, <2>2, InvAfter DEF Mutate, TypeOK
<1>8. ASSUME NEW keys \in SUBSET Key, ServerEvent(keys) PROVE ReadsInv'
  <2>1. PICK active \in SUBSET keys : Starts(active, TRUE, TRUE, FALSE)
    BY <1>8 DEF ServerEvent
  <2>2. /\ reads' \in [Key -> Record]
        /\ \A k \in Key : IsKept(reads'[k], query[k], met[k])
        /\ \A k \in active : reads'[k].granted > 0
    BY <1>8, GrantKeeps DEF ServerEvent
  <2>3. /\ mutation' \in [Mutation -> {"none", "caused", "uncaused"}]
        /\ TaskMayRun /\ UNCHANGED <<answeredSinceTheLast, polled, met>>
        /\ active \in SUBSET Key
    BY <1>8 DEF ServerEvent, TypeOK
  <2> QED  BY <2>1, <2>2, <2>3, StartsKeep
<1>9. ASSUME NEW keys \in SUBSET Key, NEW m \in Mutation, Settle(m, keys) PROVE ReadsInv'
  <2> DEFINE caused == mutation[m] = "caused"
  <2>1. PICK active \in SUBSET keys : Starts(active, TRUE, caused, FALSE)
    BY <1>9 DEF Settle
  <2>2. /\ reads' \in [Key -> Record]
        /\ \A k \in Key : IsKept(reads'[k], query[k], met[k])
        /\ caused => \A k \in active : reads'[k].granted > 0
    <3>1. CASE caused
      BY <1>9, <3>1, GrantKeeps DEF Settle
    <3>2. CASE ~caused
      BY <1>9, <3>2, RecordTypes DEF Settle
    <3> QED  BY <3>1, <3>2
  <2>3. /\ mutation' \in [Mutation -> {"none", "caused", "uncaused"}]
        /\ TaskMayRun /\ UNCHANGED <<answeredSinceTheLast, polled, met>>
        /\ active \in SUBSET Key /\ caused \in BOOLEAN
    BY <1>9 DEF Settle, TypeOK
  <2> HIDE DEF caused
  <2> QED  BY <2>1, <2>2, <2>3, StartsKeep
<1> QED  BY <1>3, <1>4, <1>5, <1>6, <1>7, <1>8, <1>9

\* A read begins, and writes its end to a record of its own.
LEMMA BeginsKeep ==
  ASSUME ReadsAssumption, ReadsInv, NEW k \in Key, NEW r \in Record, NEW f \in Failure,
         Begins(k, r), met' = [met EXCEPT ![k] = f],
         r.known => r.failure = f \/ (r.granted > 0 /\ ~r.refused),
         query[k].caused => ~query[k].more /\ (r.known => ~r.refused),
         stray' \in [Key -> {"none", "own", "forgotten"}],
         UNCHANGED <<answeredSinceTheLast, mutation, polled>>
  PROVE  ReadsInv'
<1> DEFINE a == [query[k] EXCEPT !.at = "reads"]
           b == [a EXCEPT !.own = TRUE]
<1>1. query[k] \in Query /\ query \in [Key -> Query]
  BY RecordTypes
<1>2. query' = [query EXCEPT ![k] = b] /\ reads' = [reads EXCEPT ![k] = r]
  BY DEF Begins
<1>3. a \in Query /\ a.at = "reads" /\ a.caused = query[k].caused /\ a.more = query[k].more
  BY <1>1, AtSet DEF Place
<1> HIDE DEF a
<1>4. /\ b \in Query /\ b.at = "reads" /\ b.own = TRUE
      /\ b.caused = query[k].caused /\ b.more = query[k].more
  BY <1>3, OwnSet
<1> HIDE DEF b
<1>5. IsKept(r, b, f)
  BY <1>4 DEF IsKept, RecordIsOfTheCause, CauseIsKept
<1>6. answeredSinceTheLast' \in BOOLEAN
  BY DEF ReadsInv, TypeOK
<1> QED  BY <1>2, <1>4, <1>5, <1>6, OneKey

\* What is known of a key.
LEMMA OfKey ==
  ASSUME ReadsInv, NEW k \in Key
  PROVE  /\ reads[k] \in Record /\ query[k] \in Query /\ met[k] \in Failure
         /\ reads = [reads EXCEPT ![k] = reads[k]]
         /\ query = [query EXCEPT ![k] = query[k]]
         /\ met = [met EXCEPT ![k] = met[k]]
         /\ stray \in [Key -> {"none", "own", "forgotten"}]
         /\ answeredSinceTheLast \in BOOLEAN
         /\ IsKept(reads[k], query[k], met[k])
<1>1. /\ reads \in [Key -> Record] /\ query \in [Key -> Query] /\ met \in [Key -> Failure]
      /\ stray \in [Key -> {"none", "own", "forgotten"}]
      /\ IsKept(reads[k], query[k], met[k])
  BY RecordTypes
<1>2. answeredSinceTheLast \in BOOLEAN
  BY DEF ReadsInv, TypeOK
<1> QED  BY <1>1, <1>2

LEMMA AdmitsKeep ==
  ASSUME ReadsAssumption, ReadsInv, NEW k \in Key, Admits(k)
  PROVE  ReadsInv'
<1>0. /\ reads[k] \in Record /\ query[k] \in Query /\ met[k] \in Failure
      /\ met = [met EXCEPT ![k] = met[k]]
      /\ stray \in [Key -> {"none", "own", "forgotten"}]
      /\ IsKept(reads[k], query[k], met[k])
  BY OfKey
<1>1. CASE AdmitAgain(k)
  <2>1. /\ Begins(k, reads[k]) /\ met' = met
        /\ stray' = stray /\ UNCHANGED <<answeredSinceTheLast, mutation, polled>>
    BY <1>1 DEF AdmitAgain
  <2>2. /\ reads[k].known => reads[k].failure = met[k] \/ (reads[k].granted > 0 /\ ~reads[k].refused)
        /\ query[k].caused => ~query[k].more /\ (reads[k].known => ~reads[k].refused)
    BY <1>0, <1>1 DEF IsKept, RecordIsOfTheCause, CauseIsKept, AdmitAgain
  <2> QED  BY <1>0, <2>1, <2>2, BeginsKeep
<1>2. CASE AdmitPage(k)
  <2> DEFINE r == [reads[k] EXCEPT !.refused = FALSE]
  <2>1. /\ Begins(k, r) /\ met' = met
        /\ stray' = stray /\ UNCHANGED <<answeredSinceTheLast, mutation, polled>>
    BY <1>2 DEF AdmitPage
  <2>2. /\ r \in Record /\ r.known = reads[k].known /\ r.granted = reads[k].granted
        /\ r.failure = reads[k].failure /\ r.refused = FALSE
    BY <1>0, RefusedSet
  <2> HIDE DEF r
  <2>3. /\ r.known => r.failure = met[k] \/ (r.granted > 0 /\ ~r.refused)
        /\ query[k].caused => ~query[k].more /\ (r.known => ~r.refused)
    BY <1>0, <2>2 DEF IsKept, RecordIsOfTheCause, CauseIsKept
  <2> QED  BY <1>0, <2>1, <2>2, <2>3, BeginsKeep
<1>3. CASE AdmitCaused(k)
  <2> DEFINE n == IF reads[k].known THEN reads[k].granted - 1 ELSE 0
  <2>1. /\ Begins(k, Read(n)) /\ met' = [met EXCEPT ![k] = "none"]
        /\ UNCHANGED <<answeredSinceTheLast, mutation, polled>>
    BY <1>3 DEF AdmitCaused
  <2>2. stray' = [stray EXCEPT ![k] = IF @ = "own" THEN "forgotten" ELSE @]
    BY <1>3 DEF AdmitCaused
  <2>3. stray' \in [Key -> {"none", "own", "forgotten"}]
    BY <1>0, <2>2
  <2>4. n \in 0..MaxGranted
    BY <1>0, <1>3 DEF AdmitCaused, Record, ReadsAssumption
  <2> HIDE DEF n
  <2>5. Read(n) \in Record /\ Read(n).failure = "none" /\ Read(n).refused = FALSE
    BY <2>4, ReadFields
  <2>6. "none" \in Failure
    BY DEF Failure
  <2>7. query[k].caused => ~query[k].more
    BY <1>0 DEF IsKept, CauseIsKept
  <2> QED  BY <2>1, <2>3, <2>5, <2>6, <2>7, BeginsKeep
<1>4. CASE AdmitPoll(k)
  <2> DEFINE d == [reads[k] EXCEPT !.due = FALSE]
             r == [d EXCEPT !.refused = FALSE]
  <2>1. /\ Begins(k, [reads[k] EXCEPT !.due = FALSE, !.refused = FALSE]) /\ met' = met
        /\ stray' = stray /\ UNCHANGED <<answeredSinceTheLast, mutation, polled>>
    BY <1>4 DEF AdmitPoll
  <2>2. Begins(k, r)
    BY <2>1
  <2>3. /\ d \in Record /\ d.known = reads[k].known /\ d.granted = reads[k].granted
        /\ d.failure = reads[k].failure
    BY <1>0, DueSet
  <2> HIDE DEF d
  <2>4. /\ r \in Record /\ r.known = reads[k].known /\ r.granted = reads[k].granted
        /\ r.failure = reads[k].failure /\ r.refused = FALSE
    BY <2>3, RefusedSet
  <2> HIDE DEF r
  <2>5. /\ r.known => r.failure = met[k] \/ (r.granted > 0 /\ ~r.refused)
        /\ query[k].caused => ~query[k].more /\ (r.known => ~r.refused)
    BY <1>0, <2>4 DEF IsKept, RecordIsOfTheCause, CauseIsKept
  <2> QED  BY <1>0, <2>1, <2>2, <2>4, <2>5, BeginsKeep
<1> QED  BY <1>1, <1>2, <1>3, <1>4 DEF Admits

\* What admit refuses has no cause: neither a try of what was refused before, nor
\* a read of what was read.
LEMMA RefusedHasNoCause ==
  ASSUME ReadsInv, NEW k \in Key, Refuse(k)
  PROVE  ~query[k].caused
<1>1. /\ reads[k] \in Record /\ query[k] \in Query
      /\ CauseIsKept(reads[k], query[k]) /\ query[k].at = "asked"
  BY OfKey DEF IsKept, Refuse
<1>2. query[k].failures \in 0..Retries /\ reads[k].granted \in 0..MaxGranted
  BY <1>1 DEF Query, Record
<1>3. CASE ARetry(k) /\ reads[k].refused
  BY <1>1, <1>2, <1>3 DEF ARetry, CauseIsKept
<1>4. CASE ~ARetry(k) /\ reads[k].known /\ reads[k].granted = 0
  <2>1. query[k].failures = 0
    BY <1>2, <1>4 DEF ARetry
  <2> QED  BY <1>1, <1>4, <2>1 DEF CauseIsKept
<1> QED  BY <1>3, <1>4 DEF Refuse

LEMMA RefuseKeeps ==
  ASSUME ReadsAssumption, ReadsInv, NEW k \in Key, Refuse(k)
  PROVE  ReadsInv'
<1>0. /\ reads[k] \in Record /\ query[k] \in Query /\ met[k] \in Failure
      /\ reads = [reads EXCEPT ![k] = reads[k]]
      /\ met = [met EXCEPT ![k] = met[k]]
      /\ stray \in [Key -> {"none", "own", "forgotten"}]
      /\ answeredSinceTheLast \in BOOLEAN
      /\ IsKept(reads[k], query[k], met[k])
  BY OfKey
<1>1. ~query[k].caused
  BY RefusedHasNoCause
<1>2. /\ met' = met /\ stray' = stray
      /\ UNCHANGED <<answeredSinceTheLast, mutation, polled>>
  BY DEF Refuse
<1>3. reads[k].known => reads[k].failure = met[k] \/ (reads[k].granted > 0 /\ ~reads[k].refused)
  BY <1>0 DEF IsKept, RecordIsOfTheCause
<1>4. CASE reads' = reads /\ query' = [query EXCEPT ![k] = Throws(query[k], "unreached")]
  <2>1. "unreached" \in Failure
    BY DEF Failure
  <2>2. /\ Throws(query[k], "unreached") \in Query
        /\ IsKept(reads[k], Throws(query[k], "unreached"), met[k])
    BY <1>0, <1>1, <1>3, <2>1, ThrowsFields, ThrowsIsKept
  <2> QED  BY <1>0, <1>2, <1>4, <2>2, OneKey
<1>5. CASE /\ reads[k].known /\ reads[k].granted = 0
           /\ reads' = [reads EXCEPT ![k].refused = TRUE]
           /\ query' = [query EXCEPT ![k] = Throws(query[k], reads[k].failure)]
  <2> DEFINE r == [reads[k] EXCEPT !.refused = TRUE]
  <2>1. reads' = [reads EXCEPT ![k] = r]
    BY <1>5
  <2>2. /\ r \in Record /\ r.failure = reads[k].failure /\ r.granted = reads[k].granted
    BY <1>0, RefusedSet
  <2> HIDE DEF r
  <2>3. r.failure = met[k] /\ reads[k].failure \in Failure
    BY <1>0, <1>3, <1>5, <2>2 DEF Record
  <2>4. /\ Throws(query[k], reads[k].failure) \in Query
        /\ IsKept(r, Throws(query[k], reads[k].failure), met[k])
    BY <1>0, <1>1, <2>2, <2>3, ThrowsFields, ThrowsIsKept
  <2> QED  BY <1>0, <1>2, <1>5, <2>1, <2>2, <2>4, OneKey
<1> QED  BY <1>4, <1>5 DEF Refuse

LEMMA TickKeeps ==
  ASSUME ReadsAssumption, ReadsInv, NEW k \in Key, Tick(k)
  PROVE  ReadsInv'
<1> DEFINE r == [reads[k] EXCEPT !.due = TRUE]
<1>0. /\ reads[k] \in Record /\ query[k] \in Query /\ met[k] \in Failure
      /\ query = [query EXCEPT ![k] = query[k]]
      /\ met = [met EXCEPT ![k] = met[k]]
      /\ stray \in [Key -> {"none", "own", "forgotten"}]
      /\ answeredSinceTheLast \in BOOLEAN
      /\ IsKept(reads[k], query[k], met[k])
  BY OfKey
<1>1. reads' = [reads EXCEPT ![k] = r]
  BY DEF Tick
<1>2. /\ r \in Record /\ r.known = reads[k].known /\ r.granted = reads[k].granted
      /\ r.failure = reads[k].failure /\ r.refused = reads[k].refused
  BY <1>0, DueSet
<1> HIDE DEF r
<1>3. IsKept(r, query[k], met[k])
  BY <1>0, <1>2 DEF IsKept, RecordIsOfTheCause, CauseIsKept
<1>4. /\ query' = query /\ met' = met /\ stray' = stray
      /\ UNCHANGED <<answeredSinceTheLast, mutation, polled>>
  BY DEF Tick
<1> QED  BY <1>0, <1>1, <1>2, <1>3, <1>4, OneKey

LEMMA RetryKeeps ==
  ASSUME ReadsAssumption, ReadsInv, NEW k \in Key, Retry(k)
  PROVE  ReadsInv'
<1> DEFINE q == [query[k] EXCEPT !.at = "asked"]
<1>0. /\ reads[k] \in Record /\ query[k] \in Query /\ met[k] \in Failure
      /\ reads = [reads EXCEPT ![k] = reads[k]]
      /\ met = [met EXCEPT ![k] = met[k]]
      /\ stray \in [Key -> {"none", "own", "forgotten"}]
      /\ answeredSinceTheLast \in BOOLEAN
      /\ IsKept(reads[k], query[k], met[k])
  BY OfKey
<1>1. query' = [query EXCEPT ![k] = q] /\ query[k].at = "waits"
  BY DEF Retry
<1>2. /\ q \in Query /\ q.at = "asked" /\ q.failures = query[k].failures
      /\ q.caused = query[k].caused /\ q.more = query[k].more
  BY <1>0, AtSet DEF Place
<1> HIDE DEF q
<1>3. IsKept(reads[k], q, met[k])
  BY <1>0, <1>1, <1>2 DEF IsKept, RecordIsOfTheCause, CauseIsKept
<1>4. /\ reads' = reads /\ met' = met /\ stray' = stray
      /\ UNCHANGED <<answeredSinceTheLast, mutation, polled>>
  BY DEF Retry
<1> QED  BY <1>0, <1>1, <1>2, <1>3, <1>4, OneKey

\* A read notes its end in its own record alone.
NotedIn(r, own, failure) == IF own THEN [r EXCEPT !.failure = failure] ELSE r

LEMMA NotedFields ==
  ASSUME NEW r \in Record, NEW own \in BOOLEAN, NEW failure \in Failure
  PROVE  LET n == NotedIn(r, own, failure)
         IN  /\ n \in Record /\ n.known = r.known /\ n.granted = r.granted
             /\ n.refused = r.refused
             /\ n.failure = IF own THEN failure ELSE r.failure
BY FailureSet DEF NotedIn

LEMMA NotesOne ==
  ASSUME ReadsInv, NEW k \in Key, NEW own \in BOOLEAN, NEW failure \in Failure
  PROVE  Notes(k, own, failure) = [reads EXCEPT ![k] = NotedIn(reads[k], own, failure)]
BY OfKey DEF Notes, NotedIn

LEMMA EndKeeps ==
  ASSUME ReadsAssumption, ReadsInv, NEW k \in Key, End(k)
  PROVE  ReadsInv'
<1>0. /\ reads[k] \in Record /\ query[k] \in Query
      /\ stray \in [Key -> {"none", "own", "forgotten"}]
      /\ IsKept(reads[k], query[k], met[k])
      /\ query[k].at = "reads" /\ query[k].own \in BOOLEAN
  BY OfKey DEF End, Query
<1> DEFINE left(failure) == IF failure = "none" THEN [Idle EXCEPT !.data = TRUE]
                            ELSE Throws(query[k], failure)
<1>1. PICK failure \in Failure :
        /\ reads' = Notes(k, query[k].own, failure)
        /\ met' = [met EXCEPT ![k] = failure]
        /\ query' = [query EXCEPT ![k] = left(failure)]
  BY DEF End
<1> DEFINE r == NotedIn(reads[k], query[k].own, failure)
<1>2. reads' = [reads EXCEPT ![k] = r]
  BY <1>0, <1>1, NotesOne
<1>3. /\ r \in Record /\ r.known = reads[k].known /\ r.granted = reads[k].granted
      /\ r.refused = reads[k].refused
      /\ r.failure = IF query[k].own THEN failure ELSE reads[k].failure
  BY <1>0, NotedFields
<1> HIDE DEF r
<1>4. r.known => r.failure = failure \/ (r.granted > 0 /\ ~r.refused)
  BY <1>0, <1>3 DEF IsKept, RecordIsOfTheCause
<1>5. query[k].caused => ~query[k].more /\ (r.known => ~r.refused)
  BY <1>0, <1>3 DEF IsKept, CauseIsKept
<1>6. left(failure) \in Query /\ IsKept(r, left(failure), failure)
  <2>1. CASE failure = "none"
    <3> DEFINE q == [Idle EXCEPT !.data = TRUE]
    <3>1. q \in Query /\ q.at = "idle" /\ q.caused = FALSE
      BY IdleFields, DataSet
    <3> HIDE DEF q
    <3>2. IsKept(r, q, failure)
      BY <1>4, <3>1 DEF IsKept, RecordIsOfTheCause, CauseIsKept
    <3>3. left(failure) = q
      BY <2>1 DEF q
    <3> QED  BY <3>1, <3>2, <3>3
  <2>2. CASE failure # "none"
    <3>1. left(failure) = Throws(query[k], failure)
      BY <2>2
    <3>2. Throws(query[k], failure) \in Query /\ IsKept(r, Throws(query[k], failure), failure)
      BY <1>0, <1>3, <1>4, <1>5, ThrowsFields, ThrowsIsKept
    <3> QED  BY <3>1, <3>2
  <2> QED  BY <2>1, <2>2
<1> HIDE DEF left
<1>7. stray' = stray /\ answeredSinceTheLast' \in BOOLEAN /\ UNCHANGED <<mutation, polled>>
  BY DEF End
<1> QED  BY <1>0, <1>1, <1>2, <1>3, <1>6, <1>7, OneKey

LEMMA EndStrayKeeps ==
  ASSUME ReadsAssumption, ReadsInv, NEW k \in Key, EndStray(k)
  PROVE  ReadsInv'
<1>0. /\ reads[k] \in Record /\ query[k] \in Query /\ met[k] \in Failure
      /\ query = [query EXCEPT ![k] = query[k]]
      /\ met = [met EXCEPT ![k] = met[k]]
      /\ stray \in [Key -> {"none", "own", "forgotten"}]
      /\ IsKept(reads[k], query[k], met[k])
  BY OfKey
<1> DEFINE own == stray[k] = "own"
<1>1. PICK failure \in Failure :
        /\ reads' = Notes(k, own, failure)
        /\ met' = IF own THEN [met EXCEPT ![k] = failure] ELSE met
  BY DEF EndStray
<1> DEFINE r == NotedIn(reads[k], own, failure)
           f == IF own THEN failure ELSE met[k]
<1>2. own \in BOOLEAN
  OBVIOUS
<1>3. met' = [met EXCEPT ![k] = f] /\ f \in Failure
  BY <1>0, <1>1
<1> HIDE DEF own
<1>4. reads' = [reads EXCEPT ![k] = r]
  BY <1>1, <1>2, NotesOne
<1>5. /\ r \in Record /\ r.known = reads[k].known /\ r.granted = reads[k].granted
      /\ r.refused = reads[k].refused
      /\ r.failure = IF own THEN failure ELSE reads[k].failure
  BY <1>0, <1>2, NotedFields
<1> HIDE DEF r
<1>6. IsKept(r, query[k], f)
  BY <1>0, <1>5 DEF IsKept, RecordIsOfTheCause, CauseIsKept
<1> HIDE DEF f
<1>7. /\ stray' = [stray EXCEPT ![k] = "none"] /\ answeredSinceTheLast' \in BOOLEAN
      /\ query' = query /\ UNCHANGED <<mutation, polled>>
  BY DEF EndStray
<1>8. stray' \in [Key -> {"none", "own", "forgotten"}]
  BY <1>0, <1>7
<1> QED  BY <1>0, <1>3, <1>4, <1>5, <1>6, <1>7, <1>8, OneKey

\* ReadsInv is kept by every step of the reads.
THEOREM ReadsInductive == ReadsAssumption /\ ReadsInv /\ [Next]_vars => ReadsInv'
<1> SUFFICES ASSUME ReadsAssumption, ReadsInv, [Next]_vars PROVE ReadsInv'
  OBVIOUS
<1>1. CASE UNCHANGED vars
  <2>1. /\ answeredSinceTheLast' = answeredSinceTheLast /\ reads' = reads /\ query' = query
        /\ stray' = stray /\ mutation' = mutation /\ polled' = polled /\ met' = met
    BY <1>1 DEF vars
  <2> QED  BY <2>1, RecordTypes, InvAfter DEF ReadsInv, TypeOK
<1>2. CASE \E k \in Key : Tick(k) \/ Admits(k) \/ Refuse(k) \/ Retry(k) \/ End(k) \/ EndStray(k)
  BY <1>2, TickKeeps, AdmitsKeep, RefuseKeeps, RetryKeeps, EndKeeps, EndStrayKeeps
<1>3. CASE ~\E k \in Key : Tick(k) \/ Admits(k) \/ Refuse(k) \/ Retry(k) \/ End(k) \/ EndStray(k)
  BY <1>1, <1>3, CausesKeep DEF Next
<1> QED  BY <1>2, <1>3

\* What a refused read throws is how a read of its own cause ended, whatever reads
\* from before the cause, or before a grant, answer late (src/query-client.ts).
THEOREM RefusalsThrowTheirOwn == Spec => []RefusedWithItsOwnFailure
<1>1. ReadsInv => RefusedWithItsOwnFailure
  BY DEF ReadsInv, IsKept, RecordIsOfTheCause, RefusedWithItsOwnFailure
<1>2. Init => ReadsInv
  BY ReadsAssumption, ReadsBegin
<1>3. ReadsInv /\ [Next]_vars => ReadsInv'
  BY ReadsAssumption, ReadsInductive
<1> QED  BY <1>1, <1>2, <1>3, PTL DEF Spec

\* No fetch that a focus, a reconnect, a server event or a mutation with a cause
\* started is refused (src/query-client.ts).
THEOREM CausedFetchesAreAdmitted == Spec => CausedFetchesRead
<1>1. Init => ReadsInv
  BY ReadsAssumption, ReadsBegin
<1>2. ReadsInv /\ [Next]_vars => ReadsInv'
  BY ReadsAssumption, ReadsInductive
<1>3. ReadsInv /\ [Next]_vars => [\A k \in Key : query[k].caused => ~Refuse(k)]_vars
  BY RefusedHasNoCause
<1> QED  BY <1>1, <1>2, <1>3, PTL DEF Spec, CausedFetchesRead

-----------------------------------------------------------------------------
(* The hold.                                                               *)

\* The hold ends no sooner than the longest wait that was asked for, and one that
\* was dropped was over.
HoldsInv ==
  /\ now \in Nat /\ asked \in Nat /\ hold \in Nat \union {Holds!NoHold}
  /\ asked <= IF hold = Holds!NoHold THEN now ELSE hold

LEMMA HoldForKeeps ==
  ASSUME HoldsInv, NEW seconds \in Wait, Holds!HoldFor(seconds), now' = now
  PROVE  HoldsInv'
<1> DEFINE until == now + seconds
<1>1. seconds \in Nat /\ until \in Nat /\ now <= until
  BY TabAssumption DEF HoldsInv
<1>2. /\ hold' = IF hold = Holds!NoHold \/ hold < until THEN until ELSE hold
      /\ asked' = IF asked < until THEN until ELSE asked
  BY DEF Holds!HoldFor, Holds!LongerOf
<1> HIDE DEF until
<1>3. hold' \in Nat /\ asked' <= hold' /\ asked' \in Nat
  BY <1>1, <1>2 DEF HoldsInv, Holds!NoHold
<1> QED  BY <1>3 DEF HoldsInv, Holds!NoHold

THEOREM HoldsInductive == HoldsInv /\ [Holds!Next]_(Holds!vars) => HoldsInv'
<1> SUFFICES ASSUME HoldsInv, [Holds!Next]_(Holds!vars) PROVE HoldsInv'
  OBVIOUS
<1>1. CASE UNCHANGED <<now, hold, asked>>
  BY <1>1 DEF HoldsInv
<1>2. ASSUME NEW c \in Call, Holds!Send(c) PROVE HoldsInv'
  BY <1>2 DEF HoldsInv, Holds!Send, Holds!NoHold
<1>3. ASSUME NEW c \in Call, Holds!Refused(c) PROVE HoldsInv'
  BY <1>3, HoldForKeeps DEF Holds!Refused
<1>4. ASSUME NEW e \in Event, Holds!Reported(e) PROVE HoldsInv'
  <2>1. CASE UNCHANGED <<hold, asked>>
    BY <1>1, <1>4, <2>1 DEF Holds!Reported
  <2>2. CASE \E seconds \in Wait : Holds!HoldFor(seconds)
    BY <1>4, <2>2, HoldForKeeps DEF Holds!Reported
  <2> QED  BY <1>4, <2>1, <2>2 DEF Holds!Reported
<1>5. CASE Holds!Tick
  BY <1>5 DEF HoldsInv, Holds!Tick, Holds!NoHold
<1>6. CASE \E c \in Call : Holds!Refuse(c) \/ Holds!Answered(c) \/ Holds!Fails(c)
  BY <1>1, <1>6 DEF Holds!Refuse, Holds!Answered, Holds!Fails
<1>7. CASE UNCHANGED Holds!vars
  BY <1>1, <1>7 DEF Holds!vars
<1> QED  BY <1>2, <1>3, <1>4, <1>5, <1>6, <1>7 DEF Holds!Next

\* No request is sent before the longest wait that any answer asked for is over
\* (src/api/client.ts).
THEOREM HoldsAreWaitedFor == Holds!Spec => HeldSendsNothing
<1>1. Holds!Init => HoldsInv
  BY DEF Holds!Init, HoldsInv, Holds!NoHold
<1>2. HoldsInv /\ [Holds!Next]_(Holds!vars) => HoldsInv'
  BY HoldsInductive
<1>3. HoldsInv /\ [Holds!Next]_(Holds!vars)
        => [\A c \in Call : c \in away' \ away => now >= asked]_(Holds!vars)
  <2> SUFFICES ASSUME HoldsInv, Holds!Next, NEW c \in Call, c \in away' \ away
               PROVE  now >= asked
    OBVIOUS
  <2>1. CASE \E d \in Call : Holds!Send(d)
    BY <2>1 DEF HoldsInv, Holds!Send, Holds!NoHold
  <2>2. CASE \E d \in Call : Holds!Refuse(d) \/ Holds!Answered(d) \/ Holds!Fails(d) \/ Holds!Refused(d)
    BY <2>2 DEF Holds!Refuse, Holds!Answered, Holds!Fails, Holds!Refused
  <2>3. CASE Holds!Tick \/ \E e \in Event : Holds!Reported(e)
    BY <2>3 DEF Holds!Tick, Holds!Reported
  <2> QED  BY <2>1, <2>2, <2>3 DEF Holds!Next
<1> QED  BY <1>1, <1>2, <1>3, PTL DEF Holds!Spec, HeldSendsNothing, Holds!HeldSendsNothing
=============================================================================
