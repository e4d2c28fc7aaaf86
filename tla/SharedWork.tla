----------------------------- MODULE SharedWork -----------------------------
(***************************************************************************)
(* Work that several callers await at once, and work beside the requests,  *)
(* app/waits.py, on the event loop of one process that stops in the end.   *)
(*                                                                         *)
(* A run is a task.  That it ended is seen by others one turn of the loop  *)
(* later, when its done callbacks run: until then the table still names    *)
(* it.  Those callbacks are one step, for no other callback of the loop    *)
(* comes between them.  A caller is a request; a run may join another run  *)
(* in its turn.  What a run computes is left out.                          *)
(***************************************************************************)
EXTENDS Naturals, FiniteSets

CONSTANTS
  Key,      \* the keys callers share work by
  Beside,   \* what stands for the key of work beside the requests
  Caller,   \* the requests
  Nested,   \* the pairs of keys of which a run for the first may join the second
  MaxRuns   \* bound: how many runs the process starts

ASSUME SharedWorkAssumption ==
  /\ Beside \notin Key
  /\ Nested \in SUBSET ((Key \union {Beside}) \X Key)
  /\ MaxRuns \in Nat

VARIABLES
  runs,     \* _runs: the run of each key, or NoRun
  made,     \* how many runs were started
  run,      \* of each run: its key, where it is, how it ended, and whether it was told to cancel
  started,  \* _STARTED
  awaits,   \* the run that each caller and each run awaits, or NoRun
  answer,   \* how the call of each caller ended
  stop,     \* how far the stop of the process is
  toEnd,    \* the tasks that cancel_beside waits for
  before,   \* how many runs were started before the stop began
  outlived  \* the tasks that BesideOutlivedItsCancel names

vars == <<runs, made, run, started, awaits, answer, stop, toEnd, before, outlived>>

stopping == <<stop, toEnd, before, outlived>>

NoRun == 0
Run == 1..MaxRuns
Waiter == [kind : {"caller"}, of : Caller] \union [kind : {"run"}, of : Run]
CallerOf(c) == [kind |-> "caller", of |-> c]
RunOf(i) == [kind |-> "run", of |-> i]

\* A run returns or raises, which is its answer to whoever awaits it, or a cancel
\* ends it.
How == {"answer", "cancelled"}

NotMade == [key |-> Beside, at |-> "none", how |-> "", told |-> FALSE]

Made(k) == [key |-> k, at |-> "runs", how |-> "", told |-> FALSE]

RunState == [key : Key \union {Beside}, at : {"none", "runs", "ended", "over"},
             how : How \union {""}, told : BOOLEAN]

TypeOK ==
  /\ runs \in [Key -> Run \union {NoRun}]
  /\ made \in 0..MaxRuns
  /\ run \in [Run -> RunState]
  /\ started \in SUBSET Run
  /\ awaits \in [Waiter -> Run \union {NoRun}]
  /\ answer \in [Caller -> How \union {"none", "left"}]
  /\ stop \in {"serves", "cancels", "closed"}
  /\ toEnd \in SUBSET Run
  /\ before \in 0..MaxRuns
  /\ outlived \in SUBSET Run

Init ==
  /\ runs = [k \in Key |-> NoRun]
  /\ made = 0
  /\ run = [i \in Run |-> NotMade]
  /\ started = {}
  /\ awaits = [w \in Waiter |-> NoRun]
  /\ answer = [c \in Caller |-> "none"]
  /\ stop = "serves"
  /\ toEnd = {}
  /\ before = 0
  /\ outlived = {}

Running(i) == run[i].at = "runs" /\ awaits[RunOf(i)] = NoRun

-----------------------------------------------------------------------------
(* Who may call: a request that has not called yet, and a run that goes on *)
(* and may join that key.  Neither the stop nor a cancel keeps one from it. *)

Calls(w, k) ==
  \/ \E c \in Caller :
       /\ w = CallerOf(c) /\ answer[c] = "none" /\ awaits[w] = NoRun
  \/ \E i \in Run :
       /\ w = RunOf(i) /\ Running(i)
       /\ <<run[i].key, k>> \in Nested

\* Mutant: the process forgets a task that it started.
MutantMakeRunForgets(k) ==
  /\ made < MaxRuns
  /\ made' = made + 1
  /\ run' = [run EXCEPT ![made + 1] = Made(k)]
  /\ UNCHANGED started

\* _started: a task for the key, which the process is to cancel when it stops.
MakeRun(k) ==
  /\ made < MaxRuns
  /\ made' = made + 1
  /\ run' = [run EXCEPT ![made + 1] = Made(k)]
  /\ started' = started \union {made + 1}

\* Mutant: a call starts a run though one goes on.
MutantStartAlways(w, k) ==
  /\ Calls(w, k)
  /\ MakeRun(k)
  /\ runs' = [runs EXCEPT ![k] = made + 1]
  /\ awaits' = [awaits EXCEPT ![w] = made + 1]
  /\ UNCHANGED <<answer, stopping>>

\* joined, when the table holds no run for the key.
Start(w, k) ==
  /\ Calls(w, k)
  /\ runs[k] = NoRun
  /\ MakeRun(k)
  /\ runs' = [runs EXCEPT ![k] = made + 1]
  /\ awaits' = [awaits EXCEPT ![w] = made + 1]
  /\ UNCHANGED <<answer, stopping>>

\* joined, when it holds one.  A shield of a run that ended already answers at
\* once, and a run that joins its own key raises, which changes nothing.
Join(w, k) ==
  /\ Calls(w, k)
  /\ runs[k] # NoRun
  /\ w # RunOf(runs[k])
  /\ IF run[runs[k]].at = "ended"
       THEN /\ answer' = [c \in Caller |-> IF w = CallerOf(c) THEN run[runs[k]].how ELSE answer[c]]
            /\ UNCHANGED awaits
       ELSE /\ awaits' = [awaits EXCEPT ![w] = runs[k]]
            /\ UNCHANGED answer
  /\ UNCHANGED <<runs, made, run, started, stopping>>

\* beside, called by a request or by a run: nobody need await it.
StartBeside ==
  /\ MakeRun(Beside)
  /\ UNCHANGED <<runs, awaits, answer, stopping>>

\* Mutant: a caller awaits the run with no shield between them.
MutantLeaveCancels(c) ==
  /\ awaits[CallerOf(c)] # NoRun
  /\ run' = [run EXCEPT ![awaits[CallerOf(c)]].told = TRUE]
  /\ awaits' = [awaits EXCEPT ![CallerOf(c)] = NoRun]
  /\ answer' = [answer EXCEPT ![c] = "left"]
  /\ UNCHANGED <<runs, made, started, stopping>>

\* A caller is cancelled.  The shield takes it from the run, which goes on.
Leave(c) ==
  /\ awaits[CallerOf(c)] # NoRun
  /\ awaits' = [awaits EXCEPT ![CallerOf(c)] = NoRun]
  /\ answer' = [answer EXCEPT ![c] = "left"]
  /\ UNCHANGED <<runs, made, run, started, stopping>>

-----------------------------------------------------------------------------
(* A run ends, and the loop tells of it.                                   *)

\* It returns, raises, or lets a cancel end it.
End(i) ==
  /\ Running(i)
  /\ \E how \in How :
       /\ how = "cancelled" => run[i].told
       /\ run' = [run EXCEPT ![i].at = "ended", ![i].how = how]
  /\ UNCHANGED <<runs, made, started, awaits, answer, stopping>>

Over == [NotMade EXCEPT !.at = "over"]

\* Mutant: a run that ended stays in the table.
MutantTellKeepsKey(i) ==
  /\ run[i].at = "ended"
  /\ run' = [j \in Run |->
       IF j = i THEN Over
       ELSE [run[j] EXCEPT !.told = @ \/ (run[i].how = "cancelled" /\ awaits[RunOf(j)] = i)]]
  /\ started' = started \ {i}
  /\ answer' = [c \in Caller |-> IF awaits[CallerOf(c)] = i THEN run[i].how ELSE answer[c]]
  /\ awaits' = [w \in Waiter |-> IF awaits[w] = i THEN NoRun ELSE awaits[w]]
  /\ UNCHANGED <<runs, made, stopping>>

\* Its done callbacks: _ended, the pop from the table, and each shield.  A run
\* that awaited one that was cancelled is cancelled with it.
Tell(i) ==
  /\ run[i].at = "ended"
  /\ run' = [j \in Run |->
       IF j = i THEN Over
       ELSE [run[j] EXCEPT !.told = @ \/ (run[i].how = "cancelled" /\ awaits[RunOf(j)] = i)]]
  /\ started' = started \ {i}
  /\ runs' = [k \in Key |-> IF run[i].key = k THEN NoRun ELSE runs[k]]
  /\ answer' = [c \in Caller |-> IF awaits[CallerOf(c)] = i THEN run[i].how ELSE answer[c]]
  /\ awaits' = [w \in Waiter |-> IF awaits[w] = i THEN NoRun ELSE awaits[w]]
  /\ UNCHANGED <<made, stopping>>

-----------------------------------------------------------------------------
(* _stop of the lifespan.                                                  *)

\* cancel_beside tells each task, and takes it from what it awaits.  What is
\* started from now on it does not know.
CancelBeside ==
  /\ stop = "serves"
  /\ stop' = "cancels"
  /\ toEnd' = started
  /\ before' = made
  /\ run' = [i \in Run |-> [run[i] EXCEPT !.told = @ \/ (i \in started /\ run[i].at = "runs")]]
  /\ awaits' = [w \in Waiter |->
       IF \E i \in started : w = RunOf(i) THEN NoRun ELSE awaits[w]]
  /\ UNCHANGED <<runs, made, started, answer, outlived>>

\* The tasks it waits for that still go on.
Still == {i \in toEnd : run[i].at = "runs"}

\* The database closes, in a finally.
ClosesTheDatabase ==
  /\ stop = "cancels"
  /\ stop' = "closed"
  /\ UNCHANGED <<runs, made, run, started, awaits, answer, toEnd, before>>

\* Every task it waits for has ended, and cancel_beside returns.
Close ==
  /\ ClosesTheDatabase
  /\ Still = {}
  /\ UNCHANGED outlived

\* CANCELLED_WITHIN_SECONDS passed, and cancel_beside raises with the tasks that
\* did not let the cancel end them.
Outlive ==
  /\ ClosesTheDatabase
  /\ Still # {}
  /\ outlived' = Still

Stopped == stop = "closed" /\ UNCHANGED vars

Next ==
  \/ \E w \in Waiter, k \in Key : Start(w, k) \/ Join(w, k)
  \/ StartBeside
  \/ \E c \in Caller : Leave(c)
  \/ \E i \in Run : End(i) \/ Tell(i)
  \/ CancelBeside \/ Close \/ Outlive \/ Stopped

Spec == Init /\ [][Next]_vars

\* Each wait in a run is bounded, so that the run ends, and the loop runs its
\* callbacks.
Fairness == \A i \in Run : WF_vars(End(i)) /\ WF_vars(Tell(i))

FairSpec == Spec /\ Fairness

-----------------------------------------------------------------------------
(* What is right about it.                                                 *)

\* There is one run at a time for each key: the table names every run for a key
\* that still goes on.
OneRunPerKey == \A i \in Run :
  run[i].key \in Key /\ run[i].at \in {"runs", "ended"} => runs[run[i].key] = i

\* Whoever awaits a run awaits one whose callbacks are still to come: no caller
\* joins a run that will tell it nothing.
AwaitsWhatWillTell == \A w \in Waiter :
  awaits[w] # NoRun => run[awaits[w]].at \in {"runs", "ended"}

\* A run goes on for the others when a caller is cancelled: nothing but the stop
\* of the process cancels one.
OnlyTheStopCancels == \A i \in Run : run[i].how = "cancelled" => stop # "serves"

\* Work beside the requests and shared work that goes on though the database closed
\* is named by BesideOutlivedItsCancel, so that the shutdown fails, or was started
\* after cancel_beside had read the tasks.
ClosedNamesWhatRuns == stop = "closed" =>
  \A i \in Run : run[i].at = "runs" => i \in outlived \/ i > before

\* A call of a request ends, though it joined a run that joined another, unless
\* the process stopped first.
EveryCallEnds == \A c \in Caller :
  awaits[CallerOf(c)] # NoRun ~> awaits[CallerOf(c)] = NoRun

-----------------------------------------------------------------------------
(* Why: the inductive invariant.                                           *)

\* The table names runs that are in flight, by their keys.
TableIsInFlight == \A k \in Key :
  runs[k] # NoRun => run[runs[k]].key = k /\ run[runs[k]].at \in {"runs", "ended"}

\* The process knows every run that goes on, each run that ended says how, and
\* runs that were not made are not there.
StartedIsInFlight ==
  /\ \A i \in Run : i \in started <=> run[i].at \in {"runs", "ended"}
  /\ \A i \in Run : run[i].at = "ended" => run[i].how \in How
  /\ \A i \in Run : i > made => run[i].at = "none"

\* Only the stop tells a run to cancel, and it tells every run that was started
\* before it.
StopTells ==
  /\ before <= made
  /\ \A i \in Run :
       /\ run[i].told => stop # "serves"
       /\ stop # "serves" /\ run[i].at = "runs" /\ ~(i > before) => run[i].told /\ i \in toEnd

IInv ==
  /\ TypeOK
  /\ OneRunPerKey /\ AwaitsWhatWillTell /\ OnlyTheStopCancels /\ ClosedNamesWhatRuns
  /\ TableIsInFlight /\ StartedIsInFlight /\ StopTells
=============================================================================
