-------------------------- MODULE WorkerWakeProofs --------------------------
(***************************************************************************)
(* That no slot sleeps far past the end of a lease, for any number of      *)
(* workers, slots and jobs: the sweep is no longer than a lease, so that a *)
(* slot which lay down before the job was claimed wakes in time as well,   *)
(* but for how late its wait began and how long the claim took.  And       *)
(* that the slots of one worker leave no ready job behind: what makes a    *)
(* job ready ends with a slot that looks, or with a notice, and a slot     *)
(* that lies down has read the time of every ready job.                    *)
(***************************************************************************)
EXTENDS WorkerWake, TLAPS

\* A time that is long past is due, whatever now() it is compared with.
LEMMA PastIsPast == Past \in Int /\ Past <= 0 /\ \A late \in 0..Late : Past <= Lease - late
BY WakeAssumption DEF Past

\* A tick takes one off what is left, down to the least.
LEMMA Lesser ==
  ASSUME NEW least \in Int, NEW n \in Int, n >= least
  PROVE  Less(n, least) \in Int /\ Less(n, least) >= least /\ Less(n, least) <= n
         /\ Less(n, least) >= n - 1 /\ (n > least => Less(n, least) = n - 1)
BY DEF Less

\* Every value keeps its type.
LEMMA InitTypes == ASSUME Init PROVE TypeOK
<1>1. At("down") \in Place
  BY WakeAssumption DEF At, Place
<1> QED
  BY <1>1, PastIsPast DEF Init, TypeOK, Row

\* Every step keeps the types.
LEMMA NextTypes == ASSUME TypeOK, [Next]_vars PROVE TypeOK'
<1> USE WakeAssumption DEF TypeOK
<1>1. At("down") \in Place /\ At("look") \in Place /\ At("claiming") \in Place /\ At("nothing") \in Place
  BY DEF At, Place
<1>2. ASSUME NEW j \in Job, Ask(j) PROVE TypeOK'
  <2>1. \A left \in Left(0) : [state |-> "ready", in |-> left, by |-> NoSlot] \in Row
    BY PastIsPast DEF Row, Left
  <2>2. rows' \in [Job -> Row]
    BY <1>2, <2>1 DEF Ask
  <2>3. notices' \in [Worker -> Nat]
    BY <1>2 DEF Ask
  <2> QED
    BY <1>2, <2>2, <2>3 DEF Ask
<1>3. ASSUME NEW w \in Worker, Hear(w) \/ Listen(w) \/ WakesLost(w) PROVE TypeOK'
  <2>1. CASE Hear(w)
    <3>1. notices' \in [Worker -> Nat]
      BY <2>1 DEF Hear
    <3>2. wake' \in [Worker -> BOOLEAN] /\ woken' \in SUBSET Slot
      BY <2>1 DEF Hear, SetWake, SlotsOf
    <3> QED
      BY <2>1, <3>1, <3>2 DEF Hear
  <2>2. CASE Listen(w)
    BY <2>2 DEF Listen
  <2>3. CASE WakesLost(w)
    BY <2>3 DEF WakesLost
  <2> QED
    BY <1>3, <2>1, <2>2, <2>3
<1>4. ASSUME NEW w \in Worker, Start(w) \/ Stop(w) PROVE TypeOK'
  <2>1. CASE Start(w)
    <3>1. slot' \in [Slot -> Place]
      BY <1>1, <2>1 DEF Start
    <3> QED
      BY <2>1, <3>1 DEF Start
  <2>2. CASE Stop(w)
    <3>1. slot' \in [Slot -> Place]
      BY <1>1, <2>2 DEF Stop
    <3>2. /\ notices' \in [Worker -> Nat] /\ wake' \in [Worker -> BOOLEAN]
          /\ woken' \in SUBSET Slot /\ up' \in SUBSET Worker /\ hears' \in SUBSET Worker
      BY <2>2 DEF Stop
    <3> QED
      BY <2>2, <3>1, <3>2 DEF Stop
  <2> QED
    BY <1>4, <2>1, <2>2
<1>5. ASSUME NEW s \in Slot, Look(s) \/ ClaimFindsNone(s) \/ Busy(s) PROVE TypeOK'
  <2>1. slot' \in [Slot -> Place]
    BY <1>1, <1>5 DEF Look, ClaimFindsNone, Busy
  <2>2. wake' \in [Worker -> BOOLEAN] /\ woken' \in SUBSET Slot
    BY <1>5 DEF Look, ClaimFindsNone, Busy
  <2> QED
    BY <1>5, <2>1, <2>2 DEF Look, ClaimFindsNone, Busy
<1>6. ASSUME NEW s \in Slot, NEW j \in Job, ClaimFinds(s, j) PROVE TypeOK'
  <2>1. /\ \A late \in 0..Late : [state |-> "running", in |-> Lease - late, by |-> s] \in Row
        /\ [at |-> "claimed", job |-> j, within |-> 0, late |-> 0] \in Place
    BY PastIsPast DEF Row, Place
  <2>2. PICK late \in 0..Late :
          rows' = [rows EXCEPT ![j] = [state |-> "running", in |-> Lease - late, by |-> s]]
    BY <1>6 DEF ClaimFinds
  <2>3. rows' \in [Job -> Row]
    BY <2>1, <2>2
  <2> QED
    BY <1>6, <2>1, <2>3 DEF ClaimFinds
<1>7. ASSUME NEW s \in Slot, Claimed(s) PROVE TypeOK'
  <2>1. [slot[s] EXCEPT !.at = "running"] \in Place
    BY <1>7 DEF Claimed, Place
  <2> QED
    BY <1>7, <2>1 DEF Claimed, SetWake, SlotsOf
<1>8. ASSUME NEW s \in Slot, NextClaimWithin(s) PROVE TypeOK'
  <2>1. PICK first \in Coming \union {Sweep} :
           /\ \A other \in Coming \union {Sweep} : first <= other
           /\ slot' = [slot EXCEPT ![s] =
                [at |-> "next", job |-> NoJob, within |-> IF first > 0 THEN first ELSE 0, late |-> 0]]
    BY <1>8 DEF NextClaimWithin
  <2>2. first \in Int /\ first <= Sweep
    BY <2>1 DEF Coming, Row
  <2>3. [at |-> "next", job |-> NoJob, within |-> IF first > 0 THEN first ELSE 0, late |-> 0] \in Place
    BY <2>2 DEF Place
  <2> QED
    BY <1>8, <2>1, <2>3 DEF NextClaimWithin
<1>9. ASSUME NEW s \in Slot, Wait(s) PROVE TypeOK'
  <2>1. [slot[s] EXCEPT !.at = "waiting"] \in Place
    BY <1>9 DEF Wait, Place
  <2> QED
    BY <1>9, <2>1 DEF Wait
<1>10. ASSUME NEW s \in Slot, slot[s].at = "running" PROVE slot[s].job \in Job
  BY <1>10 DEF Place
<1>11. ASSUME NEW s \in Slot, Renew(s) PROVE TypeOK'
  <2>1. slot[s].job \in Job
    BY <1>10, <1>11 DEF Renew, Runs
  <2>2. \A late \in 0..Late : [rows[slot[s].job] EXCEPT !.in = Lease - late] \in Row
    BY <2>1, PastIsPast DEF Row
  <2> QED
    BY <1>11, <2>1, <2>2 DEF Renew
<1>12. ASSUME NEW s \in Slot, Hold(s) PROVE TypeOK'
  BY <1>10, <1>12 DEF Hold, Runs
<1>13. ASSUME NEW s \in Slot, RunEnds(s) PROVE TypeOK'
  <2>1. [state |-> "ended", in |-> Past, by |-> NoSlot] \in Row
    BY PastIsPast DEF Row
  <2>2. \A after \in RetryIns : \A left \in Left(after) :
          [state |-> "ready", in |-> left, by |-> NoSlot] \in Row
    BY PastIsPast DEF Row, Left
  <2>3. CASE UNCHANGED <<rows, held>>
    BY <1>1, <1>13, <2>3 DEF RunEnds
  <2>4. ASSUME NEW row \in Row, Becomes(s, row) PROVE TypeOK'
    <3>1. rows' \in [Job -> Row] /\ held' \in SUBSET Job
      BY <2>4 DEF Becomes
    <3> QED
      BY <1>1, <1>13, <3>1 DEF RunEnds
  <2> QED
    BY <1>13, <2>1, <2>2, <2>3, <2>4 DEF RunEnds
<1>14. CASE Tick
  <2>1. ASSUME NEW j \in Job PROVE [rows[j] EXCEPT !.in = Less(@, Past)] \in Row
    BY Lesser, PastIsPast DEF Row
  <2>2. ASSUME NEW s \in Slot PROVE Passed(slot[s]) \in Place
    <3>1. slot[s] \in Place
      OBVIOUS
    <3>2. \A n \in 0..Sweep : Less(n, 0) \in 0..Sweep
      BY DEF Less
    <3>3. slot[s].at = "next" => slot[s].late < Late
      BY <1>14 DEF Tick
    <3>4. CASE slot[s].at = "next"
      <4>1. slot[s].late + 1 \in 0..Late
        BY <3>1, <3>3, <3>4 DEF Place
      <4>2. Passed(slot[s]) = [slot[s] EXCEPT !.late = @ + 1]
        BY <3>1, <3>4 DEF Passed, Place
      <4> QED
        BY <3>1, <3>4, <4>1, <4>2 DEF Place
    <3>5. CASE slot[s].at = "waiting"
      <4>1. Passed(slot[s]) = [slot[s] EXCEPT !.within = Less(@, 0)]
        BY <3>1, <3>5 DEF Passed, Place
      <4> QED
        BY <3>1, <3>2, <3>5, <4>1 DEF Place
    <3>6. CASE slot[s].at \notin {"next", "waiting"}
      <4>1. Passed(slot[s]) = slot[s]
        BY <3>1, <3>6 DEF Passed, Place
      <4> QED
        BY <3>1, <4>1
    <3> QED
      BY <3>4, <3>5, <3>6
  <2> QED
    BY <1>14, <2>1, <2>2 DEF Tick
<1>15. ASSUME NEW j \in Job, LetGo(j) PROVE TypeOK'
  BY <1>15 DEF LetGo
<1>16. CASE UNCHANGED vars
  BY <1>16 DEF vars
<1> QED
  BY <1>2, <1>3, <1>4, <1>5, <1>6, <1>7, <1>8, <1>9, <1>11, <1>12, <1>13, <1>14, <1>15, <1>16 DEF Next

\* No slot rests at first.
LEMMA InitSleeps == ASSUME Init PROVE NoSleepFarPastALease
BY DEF Init, At, Rests, NoSleepFarPastALease

\* A step that leaves every wait as it was, or ends it, and no running row with
\* less time than it had, or than a claim leaves.
LEMMA QuietSleeps ==
  ASSUME TypeOK, NoSleepFarPastALease,
         \A s \in Slot : Rests(s)' =>
           /\ Rests(s)
           /\ slot'[s].within = slot[s].within /\ slot'[s].late = slot[s].late,
         \A j \in Job : rows'[j].state = "running" /\ rows'[j].in > 0
           => \/ rows[j].state = "running" /\ rows'[j].in = rows[j].in
              \/ \E late \in 0..Late : rows'[j].in = Lease - late
  PROVE  NoSleepFarPastALease'
<1> SUFFICES ASSUME NEW s \in Slot, NEW j \in Job, Rests(s)',
                    rows'[j].state = "running", rows'[j].in > 0
             PROVE  slot'[s].within <= rows'[j].in + slot'[s].late + Late
  BY DEF NoSleepFarPastALease
<1>1. slot'[s].within = slot[s].within /\ slot'[s].late = slot[s].late /\ Rests(s)
  OBVIOUS
<1>2. slot[s].within \in 0..Sweep /\ slot[s].late \in 0..Late
  BY <1>1, WakeAssumption DEF TypeOK, Place, Rests
<1>3. CASE rows[j].state = "running" /\ rows'[j].in = rows[j].in
  BY <1>1, <1>3 DEF NoSleepFarPastALease
<1>4. ASSUME NEW late \in 0..Late, rows'[j].in = Lease - late
      PROVE  slot'[s].within <= rows'[j].in + slot'[s].late + Late
  BY <1>1, <1>2, <1>4, WakeAssumption
<1> QED
  BY <1>3, <1>4

\* No step of a slot, a worker or the clock has a slot sleep past a lease.
LEMMA NextSleeps == ASSUME TypeOK, NoSleepFarPastALease, [Next]_vars PROVE NoSleepFarPastALease'
<1> USE WakeAssumption DEF At, Rests
<1>1. ASSUME NEW j \in Job, Ask(j) PROVE NoSleepFarPastALease'
  BY <1>1, QuietSleeps DEF Ask, TypeOK, Row
<1>2. ASSUME NEW w \in Worker, Hear(w) \/ Listen(w) \/ WakesLost(w) PROVE NoSleepFarPastALease'
  BY <1>2, QuietSleeps DEF Hear, Listen, WakesLost
<1>3. ASSUME NEW w \in Worker, Start(w) \/ Stop(w) PROVE NoSleepFarPastALease'
  BY <1>3, QuietSleeps DEF Start, Stop
<1>4. ASSUME NEW s \in Slot, Look(s) \/ ClaimFindsNone(s) \/ Busy(s) PROVE NoSleepFarPastALease'
  BY <1>4, QuietSleeps DEF Look, ClaimFindsNone, Busy, TypeOK
<1>5. ASSUME NEW s \in Slot, NEW j \in Job, ClaimFinds(s, j) PROVE NoSleepFarPastALease'
  <2>1. \A i \in Job : rows'[i] = rows[i] \/ \E late \in 0..Late : rows'[i].in = Lease - late
    BY <1>5 DEF ClaimFinds, TypeOK
  <2>2. \A t \in Slot : slot'[t] = slot[t] \/ slot'[t].at = "claimed"
    BY <1>5 DEF ClaimFinds, TypeOK
  <2> QED
    BY <2>1, <2>2, QuietSleeps
<1>6. ASSUME NEW s \in Slot, Claimed(s) PROVE NoSleepFarPastALease'
  BY <1>6, QuietSleeps DEF Claimed, TypeOK, Place
<1>7. ASSUME NEW s \in Slot, NextClaimWithin(s) PROVE NoSleepFarPastALease'
  <2>1. PICK first \in Coming \union {Sweep} :
           /\ \A other \in Coming \union {Sweep} : first <= other
           /\ slot' = [slot EXCEPT ![s] =
                [at |-> "next", job |-> NoJob, within |-> IF first > 0 THEN first ELSE 0, late |-> 0]]
    BY <1>7 DEF NextClaimWithin
  <2>2. ASSUME NEW j \in Job, rows[j].state = "running", rows[j].in > 0
        PROVE  (IF first > 0 THEN first ELSE 0) <= rows[j].in + Late
    <3>1. first <= rows[j].in
      BY <2>1, <2>2 DEF Coming
    <3>2. rows[j].in \in Int /\ first \in Int
      BY <2>1 DEF TypeOK, Row, Coming
    <3> QED
      BY <2>2, <3>1, <3>2
  <2>3. /\ slot'[s].within = IF first > 0 THEN first ELSE 0
        /\ slot'[s].late = 0
        /\ \A t \in Slot : t # s => slot'[t] = slot[t]
    BY <2>1 DEF TypeOK
  <2>4. ASSUME NEW j \in Job, rows[j].state = "running", rows[j].in > 0
        PROVE  slot'[s].within <= rows[j].in + slot'[s].late + Late
    <3>1. rows[j].in \in Int
      BY DEF TypeOK, Row
    <3> QED
      BY <2>2, <2>3, <2>4, <3>1
  <2>5. rows' = rows
    BY <1>7 DEF NextClaimWithin
  <2> QED
    BY <2>3, <2>4, <2>5 DEF NoSleepFarPastALease
<1>8. ASSUME NEW s \in Slot, Wait(s) PROVE NoSleepFarPastALease'
  <2>1. /\ slot[s].at = "next" /\ slot'[s].within = slot[s].within /\ slot'[s].late = slot[s].late
        /\ \A t \in Slot : t # s => slot'[t] = slot[t]
    BY <1>8 DEF Wait, TypeOK, Place
  <2> QED
    BY <1>8, <2>1, QuietSleeps DEF Wait
<1>9. ASSUME NEW s \in Slot, Renew(s) PROVE NoSleepFarPastALease'
  <2>1. \A j \in Job : rows'[j].state = rows[j].state
          /\ (rows'[j].in = rows[j].in \/ \E late \in 0..Late : rows'[j].in = Lease - late)
    BY <1>9 DEF Renew, TypeOK, Row
  <2>2. slot' = slot
    BY <1>9 DEF Renew
  <2> QED
    BY <2>1, <2>2, QuietSleeps
<1>10. ASSUME NEW s \in Slot, Hold(s) PROVE NoSleepFarPastALease'
  BY <1>10, QuietSleeps DEF Hold
<1>11. ASSUME NEW s \in Slot, RunEnds(s) PROVE NoSleepFarPastALease'
  <2>1. \A j \in Job : rows'[j] = rows[j] \/ rows'[j].state # "running"
    <3>1. ASSUME NEW row, row.state # "running", Becomes(s, row)
          PROVE  \A j \in Job : rows'[j] = rows[j] \/ rows'[j].state # "running"
      BY <3>1 DEF Becomes, TypeOK
    <3>2. CASE Becomes(s, [state |-> "ended", in |-> Past, by |-> NoSlot])
      BY <3>1, <3>2
    <3>3. ASSUME NEW left, Becomes(s, [state |-> "ready", in |-> left, by |-> NoSlot])
          PROVE  \A j \in Job : rows'[j] = rows[j] \/ rows'[j].state # "running"
      BY <3>1, <3>3
    <3>4. CASE UNCHANGED <<rows, held>>
      BY <3>4
    <3> QED
      BY <1>11, <3>2, <3>3, <3>4 DEF RunEnds
  <2>2. \A t \in Slot : slot'[t] = slot[t] \/ slot'[t].at = "look"
    BY <1>11 DEF RunEnds, TypeOK
  <2> QED
    BY <2>1, <2>2, QuietSleeps
<1>12. CASE Tick
  <2> SUFFICES ASSUME NEW s \in Slot, NEW j \in Job, Rests(s)',
                      rows'[j].state = "running", rows'[j].in > 0
               PROVE  slot'[s].within <= rows'[j].in + slot'[s].late + Late
    BY DEF NoSleepFarPastALease
  <2>1. slot'[s] = Passed(slot[s]) /\ slot[s] \in Place /\ rows[j] \in Row
    BY <1>12 DEF Tick, TypeOK
  <2>2. Rests(s) /\ slot[s].within \in 0..Sweep /\ slot[s].late \in 0..Late
    BY <2>1 DEF Passed, Place
  <2>3. rows'[j].in = Less(rows[j].in, Past) /\ rows[j].state = "running" /\ rows[j].in \in Int
    BY <1>12, <2>1 DEF Tick, Row
  <2>4. rows[j].in > 0 /\ rows'[j].in = rows[j].in - 1
    BY <2>3, PastIsPast DEF Less
  <2>5. slot[s].within <= rows[j].in + slot[s].late + Late
    BY <2>2, <2>3, <2>4 DEF NoSleepFarPastALease
  <2>6. CASE slot[s].at = "next"
    <3>1. slot'[s].within = slot[s].within /\ slot'[s].late = slot[s].late + 1
      BY <2>1, <2>6 DEF Passed, Place
    <3> QED
      BY <2>2, <2>3, <2>4, <2>5, <3>1
  <2>7. CASE slot[s].at = "waiting"
    <3>1. slot'[s].within = Less(slot[s].within, 0) /\ slot'[s].late = slot[s].late
      BY <2>1, <2>7 DEF Passed, Place
    <3>2. slot'[s].within = slot[s].within - 1 \/ slot'[s].within = 0
      BY <2>2, <3>1 DEF Less
    <3> QED
      BY <2>2, <2>3, <2>4, <2>5, <3>1, <3>2
  <2> QED
    BY <2>2, <2>6, <2>7
<1>13. ASSUME NEW j \in Job, LetGo(j) PROVE NoSleepFarPastALease'
  BY <1>13, QuietSleeps DEF LetGo
<1>14. CASE UNCHANGED vars
  BY <1>14, QuietSleeps DEF vars
<1> QED
  BY <1>1, <1>2, <1>3, <1>4, <1>5, <1>6, <1>7, <1>8, <1>9, <1>10, <1>11, <1>12, <1>13, <1>14 DEF Next

-----------------------------------------------------------------------------
(* The slots of each worker.                                               *)

\* A row that is ready, or was not asked for, is claimed by none, and no attempt
\* renews it.
ReadyIsFree == \A j \in Job : rows[j].state \in {"none", "ready"} => rows[j].by = NoSlot

\* It asks the same of a slot that is about to wait as of one that sleeps: no step
\* of a slot lies between the wait that it read and its sleep.
LooksAfter(w, j) == (\E s \in SlotsOf(w) : Rests(s)) => AttendsTo(w, j)

ReadyHasWorker ==
  Slot # {} => \A j \in Job : rows[j].state = "ready" => \E w \in Worker : LooksAfter(w, j)

AttendInv == TypeOK /\ ReadyIsFree /\ ReadyHasWorker

\* A step that leaves a worker to look after every job.
LEMMA WorkerLooks ==
  ASSUME NEW w \in Worker, \A j \in Job : LooksAfter(w, j)'
  PROVE  ReadyHasWorker'
BY DEF ReadyHasWorker

\* One that leaves a slot about to look or to claim, or about to read the time.
LEMMA SlotAttends ==
  ASSUME NEW s \in Slot, slot'[s].at \in {"look", "claiming", "claimed", "nothing"}
  PROVE  ReadyHasWorker'
<1>1. Home[s] \in Worker /\ s \in SlotsOf(Home[s])
  BY WakeAssumption DEF SlotsOf
<1>2. \A j \in Job : LooksAfter(Home[s], j)'
  BY <1>1 DEF LooksAfter, AttendsTo, Attends, SlotsOf
<1> QED
  BY <1>1, <1>2, WorkerLooks

\* One that sets the Event of a worker: each of its slots that rests is resumed.
LEMMA WakeAttends ==
  ASSUME TypeOK, NEW w \in Worker, SetWake(w),
         \A s \in Slot : slot'[s].at \in {"next", "waiting"} => slot'[s].at = slot[s].at
  PROVE  ReadyHasWorker'
<1>1. ASSUME NEW j \in Job, NEW s \in SlotsOf(w), slot'[s].at \in {"next", "waiting"}
      PROVE  AttendsTo(w, j)'
  <2>1. s \in Slot /\ Home[s] = w
    BY DEF SlotsOf
  <2>2. wake'[w] = TRUE
    BY DEF SetWake, TypeOK
  <2>3. slot[s].at = "waiting" => s \in woken'
    BY DEF SetWake
  <2>4. slot[s].at = slot'[s].at
    BY <1>1, <2>1
  <2>5. Attends(s)'
    BY <1>1, <2>1, <2>2, <2>3, <2>4 DEF Attends, Resumes
  <2> QED
    BY <2>1, <2>5 DEF AttendsTo, SlotsOf
<1>2. \A j \in Job : LooksAfter(w, j)'
  BY <1>1 DEF LooksAfter, Rests, SlotsOf
<1> QED
  BY <1>2, WorkerLooks

\* One that leaves a worker about to run its slots from the top, or with a notice
\* on its way.
LEMMA WorkerAttends ==
  ASSUME NEW w \in Worker, w \notin up' \intersect hears' \/ notices'[w] > 0
  PROVE  ReadyHasWorker'
<1>1. \A j \in Job : LooksAfter(w, j)'
  BY DEF LooksAfter, AttendsTo, Restarts
<1> QED
  BY <1>1, WorkerLooks

\* One after which each worker looks after the ready jobs that it did before.
LEMMA StillLooks ==
  ASSUME ReadyHasWorker,
         \A j \in Job : rows'[j].state = "ready" =>
           /\ rows[j].state = "ready"
           /\ \A w \in Worker : LooksAfter(w, j) => LooksAfter(w, j)'
  PROVE  ReadyHasWorker'
BY DEF ReadyHasWorker

\* One that changes none of what it says, but for the rows of attempts.
LEMMA QuietAttends ==
  ASSUME ReadyHasWorker, UNCHANGED <<slot, wake, woken, notices, hears, up>>,
         \A j \in Job : rows'[j].state = "ready" => rows'[j] = rows[j]
  PROVE  ReadyHasWorker'
<1>1. ASSUME NEW j \in Job, rows'[j].state = "ready"
      PROVE  /\ rows[j].state = "ready"
             /\ \A w \in Worker : LooksAfter(w, j) => LooksAfter(w, j)'
  BY <1>1 DEF LooksAfter, AttendsTo, InTime, Attends, Resumes, Rests, Restarts, SlotsOf
<1> QED
  BY <1>1, StillLooks

\* Only a row that an attempt has is renewed.
LEMMA RenewsRunning ==
  ASSUME TypeOK, ReadyIsFree, NEW s \in Slot, Renew(s)
  PROVE  \A j \in Job : rows'[j].state = "ready" => rows'[j] = rows[j]
<1> SUFFICES ASSUME NEW j \in Job, rows'[j].state = "ready" PROVE rows'[j] = rows[j]
  OBVIOUS
<1>1. CASE j = slot[s].job
  <2>1. rows'[j].state = rows[j].state
    BY <1>1 DEF Renew, TypeOK, Row
  <2>2. rows[j].by = s /\ rows[j].by = NoSlot
    BY <1>1, <2>1 DEF Renew, Runs, ReadyIsFree
  <2> QED
    BY <2>2, WakeAssumption DEF NoSlot
<1>2. CASE j # slot[s].job
  BY <1>2 DEF Renew, TypeOK
<1> QED
  BY <1>1, <1>2

\* A job becomes ready where it is asked for, or where its attempt ends, and then
\* none has claimed it.
LEMMA NextFree == ASSUME TypeOK, ReadyIsFree, [Next]_vars PROVE ReadyIsFree'
<1> USE DEF ReadyIsFree, TypeOK
<1>1. ASSUME NEW j \in Job, Ask(j) PROVE ReadyIsFree'
  BY <1>1 DEF Ask
<1>2. ASSUME NEW s \in Slot, NEW j \in Job, ClaimFinds(s, j) PROVE ReadyIsFree'
  BY <1>2 DEF ClaimFinds
<1>3. ASSUME NEW s \in Slot, Renew(s) PROVE ReadyIsFree'
  BY <1>3, RenewsRunning DEF Renew
<1>4. ASSUME NEW s \in Slot, RunEnds(s) PROVE ReadyIsFree'
  <2>1. ASSUME NEW row, row.by = NoSlot, Becomes(s, row) PROVE ReadyIsFree'
    BY <2>1 DEF Becomes
  <2>2. CASE Becomes(s, [state |-> "ended", in |-> Past, by |-> NoSlot])
    BY <2>1, <2>2
  <2>3. ASSUME NEW left, Becomes(s, [state |-> "ready", in |-> left, by |-> NoSlot])
        PROVE  ReadyIsFree'
    BY <2>1, <2>3
  <2>4. CASE UNCHANGED rows
    BY <2>4
  <2> QED
    BY <1>4, <2>2, <2>3, <2>4 DEF RunEnds
<1>5. CASE Tick
  BY <1>5 DEF Tick, Row
<1>6. CASE UNCHANGED rows
  BY <1>6
<1> QED
  BY <1>1, <1>2, <1>3, <1>4, <1>5, <1>6
  DEF Next, Hear, LetGo, Listen, Start, WakesLost, Stop, Look, ClaimFindsNone, Claimed,
      NextClaimWithin, Wait, Busy, Hold, vars

\* No step of the slots, the workers or the clock leaves a ready job to the slots
\* that rest of every worker.
LEMMA NextAttends ==
  ASSUME TypeOK, ReadyIsFree, ReadyHasWorker, [Next]_vars
  PROVE  ReadyHasWorker'
<1>1. ASSUME NEW j \in Job, Ask(j) PROVE ReadyHasWorker'
  <2>1. CASE Slot = {}
    BY <2>1 DEF ReadyHasWorker
  <2>2. CASE Slot # {}
    <3>1. PICK w \in Worker : TRUE
      BY <2>2, WakeAssumption
    <3>2. w \in hears => notices'[w] = notices[w] + 1 /\ notices[w] \in Nat
      BY <1>1, <3>1 DEF Ask, TypeOK
    <3>3. w \notin hears => w \notin hears'
      BY <1>1 DEF Ask
    <3> QED
      BY <3>2, <3>3, WorkerAttends
  <2> QED
    BY <2>1, <2>2
<1>2. ASSUME NEW w \in Worker, Hear(w) PROVE ReadyHasWorker'
  BY <1>2, WakeAttends DEF Hear
<1>3. ASSUME NEW w \in Worker, Listen(w) \/ WakesLost(w) \/ Stop(w) PROVE ReadyHasWorker'
  BY <1>3, WorkerAttends DEF Listen, WakesLost, Stop
<1>4. ASSUME NEW w \in Worker, Start(w) PROVE ReadyHasWorker'
  <2>1. \A s \in SlotsOf(w) : s \in Slot /\ slot'[s].at = "look"
    BY <1>4 DEF Start, At, SlotsOf
  <2>2. \A j \in Job : LooksAfter(w, j)'
    BY <2>1 DEF LooksAfter, Rests, SlotsOf
  <2> QED
    BY <2>2, WorkerLooks
<1>5. ASSUME NEW s \in Slot, Look(s) \/ ClaimFindsNone(s) \/ Busy(s) PROVE ReadyHasWorker'
  BY <1>5, SlotAttends DEF Look, ClaimFindsNone, Busy, At, TypeOK
<1>6. ASSUME NEW s \in Slot, NEW j \in Job, ClaimFinds(s, j) PROVE ReadyHasWorker'
  BY <1>6, SlotAttends DEF ClaimFinds, TypeOK
<1>7. ASSUME NEW s \in Slot, RunEnds(s) PROVE ReadyHasWorker'
  BY <1>7, SlotAttends DEF RunEnds, At, TypeOK
<1>8. ASSUME NEW s \in Slot, Claimed(s) PROVE ReadyHasWorker'
  <2>1. \A t \in Slot : slot'[t].at \in {"next", "waiting"} => slot'[t].at = slot[t].at
    BY <1>8 DEF Claimed, TypeOK, Place
  <2>2. Home[s] \in Worker /\ SetWake(Home[s])
    BY <1>8, WakeAssumption DEF Claimed
  <2> QED
    BY <2>1, <2>2, WakeAttends
<1>9. ASSUME NEW s \in Slot, NextClaimWithin(s) PROVE ReadyHasWorker'
  <2>1. PICK first \in Coming \union {Sweep} :
           /\ \A other \in Coming \union {Sweep} : first <= other
           /\ slot' = [slot EXCEPT ![s] =
                [at |-> "next", job |-> NoJob, within |-> IF first > 0 THEN first ELSE 0, late |-> 0]]
    BY <1>9 DEF NextClaimWithin
  <2>2. /\ slot'[s].at = "next" /\ slot'[s].late = 0
        /\ slot'[s].within = IF first > 0 THEN first ELSE 0
    BY <2>1 DEF TypeOK
  <2>3. \A j \in Job : rows[j].state = "ready" =>
          first <= rows[j].in /\ first \in Int /\ rows[j].in \in Int
    BY <2>1, WakeAssumption DEF Coming, TypeOK, Row
  <2>4. Home[s] \in Worker /\ s \in SlotsOf(Home[s]) /\ rows' = rows
    BY <1>9, WakeAssumption DEF SlotsOf, NextClaimWithin
  <2>5. \A j \in Job : rows[j].state = "ready" =>
          slot'[s].within = 0 \/ slot'[s].within <= rows[j].in + slot'[s].late
    BY <2>2, <2>3
  <2>6. \A j \in Job : rows'[j].state = "ready" => LooksAfter(Home[s], j)'
    BY <2>2, <2>4, <2>5 DEF LooksAfter, AttendsTo, InTime, Rests, SlotsOf
  <2> QED
    BY <2>4, <2>6 DEF ReadyHasWorker
<1>10. ASSUME NEW s \in Slot, Wait(s) PROVE ReadyHasWorker'
  <2>1. /\ slot[s].at = "next" /\ slot'[s].at = "waiting" /\ slot'[s].within = slot[s].within
        /\ slot'[s].late = slot[s].late /\ \A t \in Slot : t # s => slot'[t] = slot[t]
    BY <1>10 DEF Wait, TypeOK, Place
  <2>2. \A t \in Slot : Rests(t)' <=> Rests(t)
    BY <2>1 DEF Rests
  <2>3. \A t \in Slot, j \in Job : InTime(t, j) => InTime(t, j)'
    BY <1>10, <2>1, <2>2 DEF InTime, Wait
  <2>4. \A t \in Slot : Attends(t) => Attends(t)'
    BY <1>10, <2>1 DEF Attends, Resumes, Wait
  <2>5. \A t \in Slot : slot[t].at = "nothing" => slot'[t].at = "nothing"
    BY <2>1
  <2>6. \A w \in Worker, j \in Job : LooksAfter(w, j) => LooksAfter(w, j)'
    BY <1>10, <2>2, <2>3, <2>4, <2>5 DEF LooksAfter, AttendsTo, Rests, Restarts, SlotsOf, Wait
  <2> QED
    BY <1>10, <2>6, StillLooks DEF Wait
<1>11. ASSUME NEW s \in Slot, Renew(s) PROVE ReadyHasWorker'
  BY <1>11, RenewsRunning, QuietAttends DEF Renew
<1>12. ASSUME NEW s \in Slot, Hold(s) PROVE ReadyHasWorker'
  BY <1>12, QuietAttends DEF Hold
<1>13. ASSUME NEW j \in Job, LetGo(j) PROVE ReadyHasWorker'
  BY <1>13, QuietAttends DEF LetGo
<1>14. CASE Tick
  <2>1. ASSUME NEW s \in Slot
        PROVE  /\ slot'[s].at = slot[s].at
               /\ slot[s].at = "next" =>
                    slot'[s].within = slot[s].within /\ slot'[s].late = slot[s].late + 1
               /\ slot[s].at = "waiting" =>
                    slot'[s].within = Less(slot[s].within, 0) /\ slot'[s].late = slot[s].late
               /\ slot[s].within \in Nat /\ slot[s].late \in Nat
    <3>1. slot[s] \in Place /\ slot'[s] = Passed(slot[s])
      BY <1>14 DEF Tick, TypeOK
    <3> QED
      BY <3>1, WakeAssumption DEF Passed, Place
  <2>2. ASSUME NEW j \in Job
        PROVE  /\ rows'[j].state = rows[j].state
               /\ rows[j].in \in Int /\ rows'[j].in \in Int /\ rows'[j].in >= rows[j].in - 1
    <3>1. rows[j] \in Row /\ rows'[j] = [rows[j] EXCEPT !.in = Less(@, Past)]
      BY <1>14 DEF Tick, TypeOK
    <3> QED
      BY <3>1, Lesser, PastIsPast DEF Row
  <2>3. \A s \in Slot : Rests(s)' <=> Rests(s)
    BY <2>1 DEF Rests
  <2>4. \A s \in Slot : Attends(s) => Attends(s)'
    BY <1>14, <2>1 DEF Attends, Resumes, Tick, Less
  <2>5. ASSUME NEW s \in Slot, NEW j \in Job, InTime(s, j) PROVE InTime(s, j)'
    <3>1. CASE slot[s].at = "next"
      BY <2>1, <2>2, <2>3, <2>5, <3>1 DEF InTime
    <3>2. CASE slot[s].at = "waiting"
      BY <2>1, <2>2, <2>3, <2>5, <3>2 DEF InTime, Less
    <3> QED
      BY <2>5, <3>1, <3>2 DEF InTime, Rests
  <2>6. \A w \in Worker, j \in Job : LooksAfter(w, j) => LooksAfter(w, j)'
    BY <1>14, <2>1, <2>3, <2>4, <2>5 DEF LooksAfter, AttendsTo, Restarts, SlotsOf, Tick
  <2> QED
    BY <2>2, <2>6, StillLooks
<1>15. CASE UNCHANGED vars
  BY <1>15, QuietAttends DEF vars
<1> QED
  BY <1>1, <1>2, <1>3, <1>4, <1>5, <1>6, <1>7, <1>8, <1>9, <1>10, <1>11, <1>12, <1>13, <1>14, <1>15 DEF Next

\* Every variable keeps its type: the rows, and where each slot is.
THEOREM TypeCorrect == Spec => []TypeOK
<1> QED
  BY InitTypes, NextTypes, PTL DEF Spec

\* No slot of any worker sleeps past the end of a lease by more than its wait began
\* late and a claim takes: when the worker of an attempt crashed, each free slot is
\* awake soon after its job can be claimed.
THEOREM SleepsEndInTime == Spec => []NoSleepFarPastALease
<1>1. Init => TypeOK /\ NoSleepFarPastALease
  BY InitTypes, InitSleeps
<1>2. TypeOK /\ NoSleepFarPastALease /\ [Next]_vars => (TypeOK /\ NoSleepFarPastALease)'
  BY NextTypes, NextSleeps
<1> QED
  BY <1>1, <1>2, PTL DEF Spec

\* Each ready job has a worker of which no slot rests, or that has a slot that looks
\* in time.
THEOREM AttendInductive == Spec => []AttendInv
<1>1. Init => AttendInv
  <2>1. Init => ReadyIsFree /\ ReadyHasWorker
    BY DEF Init, ReadyIsFree, ReadyHasWorker
  <2> QED
    BY <2>1, InitTypes DEF AttendInv
<1>2. AttendInv /\ [Next]_vars => AttendInv'
  BY NextTypes, NextFree, NextAttends DEF AttendInv
<1> QED
  BY <1>1, <1>2, PTL DEF Spec

\* No wake is lost: no interleaving of the clears, claims and waits of slots leaves
\* a ready job to sleeping slots, for any number of workers, slots and jobs.
THEOREM NoWakeIsLost == Spec => []ReadyIsAttended
<1>1. AttendInv => ReadyIsAttended
  <2> SUFFICES ASSUME AttendInv, Slot # {}, NEW j \in Job, rows[j].state = "ready"
               PROVE  \E w \in Worker : (\E s \in SlotsOf(w) : Asleep(s)) => AttendsTo(w, j)
    BY DEF ReadyIsAttended
  <2>1. PICK w \in Worker : LooksAfter(w, j)
    BY DEF AttendInv, ReadyHasWorker
  <2> QED
    BY <2>1 DEF LooksAfter, Asleep, Rests
<1> QED
  BY <1>1, AttendInductive, PTL
=============================================================================
