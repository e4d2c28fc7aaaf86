----------------------------- MODULE WorkerWake -----------------------------
(***************************************************************************)
(* How the slots of app/worker.py find the next job: the Event `wake` the  *)
(* slots of one worker share, the LISTEN connection that sets it, the time *)
(* next_claim_within reads, and the sweep.                                 *)
(*                                                                         *)
(* The slots of a worker are tasks of one event loop: what a slot does     *)
(* between two awaits is one step, and every await is a step of its own.   *)
(* The claim and what it does to the row is in Jobs; here a row is what    *)
(* the two queries read, and an attempt is what changes it.                *)
(***************************************************************************)
EXTENDS Integers

CONSTANTS
  Job,      \* the jobs that may be asked for
  Worker,   \* the worker processes
  Slot,     \* the slots of every worker
  Home,     \* the worker each slot is a task of
  Lease,    \* Leases.lease, in ticks
  Sweep,    \* SWEEP_SECONDS, in ticks
  Late,     \* how long a transaction goes on after its now(), and how long a slot takes
            \* from the answer of next_claim_within to its wait, in ticks
  RetryIns, \* how long a job that is made ready again may have to wait, in ticks
  NoJob     \* the job of a slot with no claim

\* Nothing in the code ties the sweep to the lease: both are 30 seconds.
ASSUME WakeAssumption ==
  /\ NoJob \notin Job
  /\ "nobody" \notin Slot
  /\ Home \in [Slot -> Worker]
  /\ Lease \in Nat \ {0}
  /\ Sweep \in 1..Lease
  /\ Late \in Nat
  /\ RetryIns \in SUBSET Nat

VARIABLES
  rows,     \* job_claims: the state, the time until the row is due, and who claimed it
  held,     \* the jobs whose row a fenced transaction holds
  slot,     \* where each slot is, its job, and the time its wait has left
  wake,     \* whether the Event of each worker is set
  woken,    \* the waiting slots that a set of the Event resumes
  notices,  \* the notifications on their way to each worker
  hears,    \* the workers whose LISTEN connection is open
  up        \* the workers that run their slots

vars == <<rows, held, slot, wake, woken, notices, hears, up>>

NoSlot == "nobody"

\* Due for so long that the now() of no statement is before it.
Past == -Late

Row ==
  [state : {"none", "ready", "running", "ended"}, in : {n \in Int : n >= Past},
   by : Slot \union {NoSlot}]

\* A slot has a job, or a time it waits at most, which it began to wait late.
Place ==
  [at : {"claimed", "running"}, job : Job, within : {0}, late : {0}]
  \union [at : {"down", "look", "claiming", "nothing", "next", "waiting"}, job : {NoJob},
          within : 0..Sweep, late : 0..Late]

TypeOK ==
  /\ rows \in [Job -> Row]
  /\ held \in SUBSET Job
  /\ slot \in [Slot -> Place]
  /\ wake \in [Worker -> BOOLEAN]
  /\ woken \in SUBSET Slot
  /\ notices \in [Worker -> Nat]
  /\ hears \in SUBSET Worker
  /\ up \in SUBSET Worker

At(place) == [at |-> place, job |-> NoJob, within |-> 0, late |-> 0]

Init ==
  /\ rows = [j \in Job |-> [state |-> "none", in |-> Past, by |-> NoSlot]]
  /\ held = {}
  /\ slot = [s \in Slot |-> At("down")]
  /\ wake = [w \in Worker |-> FALSE]
  /\ woken = {}
  /\ notices = [w \in Worker |-> 0]
  /\ hears = {}
  /\ up = {}

SlotsOf(w) == {s \in Slot : Home[s] = w}

\* Mutant: a wake resumes the slots that wait now, and stays for none.
MutantSetWakeNow(w) ==
  /\ woken' = woken \union {s \in SlotsOf(w) : slot[s].at = "waiting"}
  /\ UNCHANGED wake

\* The Event is set: it stays set for the slots that wait later, and every slot
\* that waits now is resumed, though another slot clears it first.
SetWake(w) ==
  /\ wake' = [wake EXCEPT ![w] = TRUE]
  /\ woken' = woken \union {s \in SlotsOf(w) : slot[s].at = "waiting"}

-----------------------------------------------------------------------------
(* A job is asked for, and the workers hear of it.                         *)

\* What is left of a time that counts from the now() of a transaction, when it commits.
Left(time) == Past..time

\* The job is ready from the now() of its transaction.  The NOTIFY goes out with the
\* commit, to every session that listens then.
Ask(j) ==
  /\ rows[j].state = "none"
  /\ \E left \in Left(0) :
       rows' = [rows EXCEPT ![j] = [state |-> "ready", in |-> left, by |-> NoSlot]]
  /\ notices' = [w \in Worker |-> IF w \in hears THEN notices[w] + 1 ELSE notices[w]]
  /\ UNCHANGED <<held, slot, wake, woken, hears, up>>

Hear(w) ==
  /\ notices[w] > 0
  /\ notices' = [notices EXCEPT ![w] = @ - 1]
  /\ SetWake(w)
  /\ UNCHANGED <<rows, held, slot, hears, up>>

-----------------------------------------------------------------------------
(* The loop of a slot.                                                     *)

\* A job that was ready, or whose lease had ended, so long ago.
WasDue(j, late) == rows[j].state \in {"ready", "running"} /\ rows[j].in <= -late

IsDue(j) == WasDue(j, 0)

\* The claim asks what was due at its now(), and SKIP LOCKED passes over a row that
\* some transaction holds.
Claimable(j, late) ==
  /\ WasDue(j, late)
  /\ j \notin held

\* Mutant: a wait has no time of its own.
MutantResumesOnWake(s) ==
  \/ slot[s].at = "look"
  \/ slot[s].at = "next" /\ wake[Home[s]]
  \/ slot[s].at = "waiting" /\ s \in woken

\* A slot whose wait is over, or whose wait returns at once.
Resumes(s) ==
  \/ slot[s].at = "look"
  \/ slot[s].at = "next" /\ wake[Home[s]]
  \/ slot[s].at = "waiting" /\ (s \in woken \/ slot[s].within = 0)

\* It clears the Event and sends the claim, with no await between.
Look(s) ==
  /\ Resumes(s)
  /\ wake' = [wake EXCEPT ![Home[s]] = FALSE]
  /\ woken' = woken \ {s}
  /\ slot' = [slot EXCEPT ![s] = At("claiming")]
  /\ UNCHANGED <<rows, held, notices, hears, up>>

\* The lease counts from the now() of the claim too.
ClaimFinds(s, j) ==
  /\ slot[s].at = "claiming"
  /\ \E late \in 0..Late :
       /\ Claimable(j, late)
       /\ rows' = [rows EXCEPT ![j] = [state |-> "running", in |-> Lease - late, by |-> s]]
  /\ slot' = [slot EXCEPT ![s] = [at |-> "claimed", job |-> j, within |-> 0, late |-> 0]]
  /\ UNCHANGED <<held, wake, woken, notices, hears, up>>

ClaimFindsNone(s) ==
  /\ slot[s].at = "claiming"
  /\ \E late \in 0..Late : \A j \in Job : ~Claimable(j, late)
  /\ slot' = [slot EXCEPT ![s] = At("nothing")]
  /\ UNCHANGED <<rows, held, wake, woken, notices, hears, up>>

\* The slot that claimed a job has the others look.
Claimed(s) ==
  /\ slot[s].at = "claimed"
  /\ slot' = [slot EXCEPT ![s].at = "running"]
  /\ SetWake(Home[s])
  /\ UNCHANGED <<rows, held, notices, hears, up>>

\* Mutant: the leases are left out of what comes next.
MutantComingReady == {rows[j].in : j \in {k \in Job : rows[k].state = "ready"}}

\* What next_claim_within reads: a row that is ready, now or later, and a lease
\* that has not ended.
Coming == {rows[j].in : j \in {k \in Job :
  \/ rows[k].state = "ready"
  \/ rows[k].state = "running" /\ rows[k].in > 0}}

\* One statement, which commits by itself and reads at its now().
NextClaimWithin(s) ==
  /\ slot[s].at = "nothing"
  /\ \E first \in Coming \union {Sweep} :
       /\ \A other \in Coming \union {Sweep} : first <= other
       /\ slot' = [slot EXCEPT ![s] =
            [at |-> "next", job |-> NoJob, within |-> IF first > 0 THEN first ELSE 0, late |-> 0]]
  /\ UNCHANGED <<rows, held, wake, woken, notices, hears, up>>

\* The connection is back in the pool and the answer is there: the wait begins.
Wait(s) ==
  /\ slot[s].at = "next"
  /\ ~wake[Home[s]]
  /\ slot' = [slot EXCEPT ![s].at = "waiting"]
  /\ UNCHANGED <<rows, held, wake, woken, notices, hears, up>>

\* A query gets no connection: the slot backs off, with the Event cleared.
Busy(s) ==
  /\ slot[s].at \in {"claiming", "nothing"}
  /\ slot' = [slot EXCEPT ![s] = At("look")]
  /\ UNCHANGED <<rows, held, wake, woken, notices, hears, up>>

-----------------------------------------------------------------------------
(* The attempt of a slot.                                                  *)

Runs(s) == slot[s].at = "running" /\ rows[slot[s].job].by = s

\* The lease of its job had not ended, so long ago.
HasLease(s, late) == rows[slot[s].job].in > -late

Renew(s) ==
  /\ Runs(s)
  /\ \E late \in 0..Late :
       /\ HasLease(s, late)
       /\ rows' = [rows EXCEPT ![slot[s].job].in = Lease - late]
  /\ UNCHANGED <<held, slot, wake, woken, notices, hears, up>>

\* A transaction of the attempt holds the claim, until LetGo or the end.
Hold(s) ==
  /\ Runs(s)
  /\ \E late \in 0..Late : HasLease(s, late)
  /\ held' = held \union {slot[s].job}
  /\ UNCHANGED <<rows, slot, wake, woken, notices, hears, up>>

\* It commits or rolls back, or Postgres ends the session of a crashed worker.
LetGo(j) ==
  /\ j \in held
  /\ held' = held \ {j}
  /\ UNCHANGED <<rows, slot, wake, woken, notices, hears, up>>

Becomes(s, row) ==
  /\ Runs(s)
  /\ slot[s].job \in held \/ \E late \in 0..Late : HasLease(s, late)
  /\ rows' = [rows EXCEPT ![slot[s].job] = row]
  /\ held' = held \ {slot[s].job}

\* done and dead, again and deferred; or the lease is lost, or the last write
\* gets no connection, and the row stays.
RunEnds(s) ==
  /\ slot[s].at = "running"
  /\ \/ Becomes(s, [state |-> "ended", in |-> Past, by |-> NoSlot])
     \/ \E after \in RetryIns : \E left \in Left(after) :
          Becomes(s, [state |-> "ready", in |-> left, by |-> NoSlot])
     \/ slot[s].job \notin held /\ UNCHANGED <<rows, held>>
  /\ slot' = [slot EXCEPT ![s] = At("look")]
  /\ UNCHANGED <<wake, woken, notices, hears, up>>

-----------------------------------------------------------------------------
(* Workers start and stop.                                                 *)

\* work() listens before it starts a slot.
Listen(w) ==
  /\ w \notin up \union hears
  /\ hears' = hears \union {w}
  /\ UNCHANGED <<rows, held, slot, wake, woken, notices, up>>

Start(w) ==
  /\ w \in hears \ up
  /\ up' = up \union {w}
  /\ slot' = [s \in Slot |-> IF Home[s] = w THEN At("look") ELSE slot[s]]
  /\ UNCHANGED <<rows, held, wake, woken, notices, hears>>

\* The LISTEN connection ends, and what was on its way is lost.
WakesLost(w) ==
  /\ w \in up \intersect hears
  /\ hears' = hears \ {w}
  /\ notices' = [notices EXCEPT ![w] = 0]
  /\ UNCHANGED <<rows, held, slot, wake, woken, up>>

\* The worker stops: on WakesLost, on a signal, on an error, or killed.  The
\* leases of its attempts, and the rows they hold, stay as they are.
Stop(w) ==
  /\ w \in up
  /\ up' = up \ {w}
  /\ hears' = hears \ {w}
  /\ notices' = [notices EXCEPT ![w] = 0]
  /\ wake' = [wake EXCEPT ![w] = FALSE]
  /\ woken' = woken \ SlotsOf(w)
  /\ slot' = [s \in Slot |-> IF Home[s] = w THEN At("down") ELSE slot[s]]
  /\ UNCHANGED <<rows, held>>

-----------------------------------------------------------------------------
\* One less, and no less than the least.
Less(n, least) == IF n > least THEN n - 1 ELSE least

\* What a wait has left, and how late it begins.
Passed(place) ==
  [place EXCEPT
     !.within = IF place.at = "waiting" THEN Less(@, 0) ELSE @,
     !.late = IF place.at = "next" THEN @ + 1 ELSE @]

\* Time passes also between what a slot reads and its wait, up to Late.
Tick ==
  /\ \A s \in Slot : slot[s].at = "next" => slot[s].late < Late
  /\ \/ \E j \in Job : rows[j].in > Past
     \/ \E s \in Slot : slot[s].within > 0
  /\ rows' = [j \in Job |-> [rows[j] EXCEPT !.in = Less(@, Past)]]
  /\ slot' = [s \in Slot |-> Passed(slot[s])]
  /\ UNCHANGED <<held, wake, woken, notices, hears, up>>

Next ==
  \/ \E j \in Job : Ask(j) \/ LetGo(j)
  \/ \E w \in Worker : Hear(w) \/ Listen(w) \/ Start(w) \/ WakesLost(w) \/ Stop(w)
  \/ \E s \in Slot :
       \/ Look(s) \/ (\E j \in Job : ClaimFinds(s, j)) \/ ClaimFindsNone(s) \/ Claimed(s)
       \/ NextClaimWithin(s) \/ Wait(s) \/ Busy(s)
       \/ Renew(s) \/ Hold(s) \/ RunEnds(s)
  \/ Tick

Spec == Init /\ [][Next]_vars

\* What a slot does next on its own.
Moves(s) ==
  \/ Look(s) \/ ClaimFindsNone(s) \/ Claimed(s) \/ NextClaimWithin(s) \/ Wait(s) \/ RunEnds(s)

(***************************************************************************)
(* The event loop runs each slot that can go on, the platform starts a     *)
(* worker that stopped, locks are let go and time passes.  Workers do not  *)
(* always stop before a slot looks, and a claim takes the job that waited  *)
(* longest.                                                                *)
(***************************************************************************)
Fairness ==
  /\ \A w \in Worker : WF_vars(Listen(w)) /\ WF_vars(Start(w))
  /\ \A s \in Slot : WF_vars(Moves(s))
  /\ \A j \in Job : SF_vars(LetGo(j)) /\ SF_vars(\E s \in Slot : ClaimFinds(s, j))
  /\ SF_vars(\E s \in Slot : Look(s))
  /\ SF_vars(Tick)

FairSpec == Spec /\ Fairness

-----------------------------------------------------------------------------
(* What is right about it.                                                 *)

\* A slot that sleeps, and that nothing resumes before its time is up.
Asleep(s) == slot[s].at = "waiting" /\ s \notin woken /\ slot[s].within > 0

\* A slot that is about to claim, or that will have the others look.
Attends(s) ==
  \/ slot[s].at \in {"look", "claiming", "claimed"}
  \/ Resumes(s)

\* A worker that will run its slots from the top: it is not up yet, or it stops
\* because its LISTEN connection ended.
Restarts(w) == w \notin up \intersect hears

\* A slot that has its wait before it, or waits.
Rests(s) == slot[s].at \in {"next", "waiting"}

\* A wait that ends by the time the job is due, but for how late it began.
InTime(s, j) == Rests(s) /\ (slot[s].within = 0 \/ slot[s].within <= rows[j].in + slot[s].late)

\* A worker has a slot that claims before a job that is ready has waited longer
\* than it must, or one whose wait ends in time, or a notification on its way.
AttendsTo(w, j) ==
  \/ \E s \in SlotsOf(w) :
       \/ Attends(s)
       \/ slot[s].at = "nothing"
       \/ InTime(s, j)
  \/ Restarts(w) \/ notices[w] > 0

\* No ready job is left to sleeping slots: of some worker no slot sleeps, or one
\* attends to the job.  Of every worker it is not so: one that made a job ready
\* again may claim another whose lease ended unseen (EndedLeaseIsSeen), and wakes
\* its own slots only.
ReadyIsAttended ==
  (\E s \in Slot : Asleep(s)) =>
    \A j \in Job : rows[j].state = "ready" =>
      \E w \in Worker : (\E s \in SlotsOf(w) : Asleep(s)) => AttendsTo(w, j)

\* No slot sleeps past the end of a lease by more than its wait began late and the
\* claim took: not past the lease of a job claimed after it lay down either, by a
\* worker that has since crashed.  Without the sweep, or with one that is longer than
\* a lease, it would.
NoSleepFarPastALease ==
  \A s \in Slot, j \in Job :
    Rests(s) /\ rows[j].state = "running" /\ rows[j].in > 0
      => slot[s].within <= rows[j].in + slot[s].late + Late

\* Every job that is due is claimed or ends, though its wake is lost, its lease
\* ended between the two queries of a slot, or its row was held when the slots
\* looked.
EveryJobIsFound == \A j \in Job : IsDue(j) ~> ~IsDue(j)

\* What app/worker.py:6 says of a slot that found no job: it waits until a lease
\* ends, or until the sweep.  The code breaks it: next_claim_within leaves out a
\* lease that ended after the claim looked, and no other slot need be awake.
EndedLeaseIsSeen ==
  \A s \in Slot, j \in Job :
    Asleep(s) /\ IsDue(j) /\ rows[j].state = "running" /\ j \notin held
      => \E t \in Slot : Attends(t) \/ slot[t].job = j
=============================================================================
