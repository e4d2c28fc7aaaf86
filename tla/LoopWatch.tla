----------------------------- MODULE LoopWatch ------------------------------
(***************************************************************************)
(* The watch of the event loop (app/loop_watch.py): a tick on the loop's   *)
(* thread, and a thread beside it that names where the loop is when a tick *)
(* is overdue.  They share _due and _seen with no lock: each read and each *)
(* write is a step of its own.                                             *)
(*                                                                         *)
(* A tick is named by its number, which stands for the due time that _next *)
(* computes: no two ticks fall due at one time.                            *)
(***************************************************************************)
EXTENDS Naturals

CONSTANTS
  MaxTicks,  \* bound: the ticks that a behaviour has
  None       \* nothing was seen

VARIABLES
  due,       \* _due: the tick that is expected
  pace,      \* "late" once it is overdue by TICK_SECONDS
  seen,      \* _seen: the due time that was read, and where the loop was
  tick,      \* "expected", "runs" once it read the clock and _seen, "stopped"
  read,      \* the _seen that the running tick read
  look,      \* where the thread beside the loop is
  lookDue,   \* the _due that it read
  frame,     \* the frame that it read
  named      \* what the tick named last: the tick, and where the loop was

vars == <<due, pace, seen, tick, read, look, lookDue, frame, named>>

\* Where the loop is: between which ticks, and whether the next is overdue.
Place == [tick |-> due, pace |-> pace]

Paces == {"due", "late"}

Sight == [for : Nat, tick : Nat, pace : Paces] \union {None}

TypeOK ==
  /\ due \in Nat /\ pace \in Paces
  /\ seen \in Sight
  /\ tick \in {"expected", "runs", "stopped"}
  /\ read \in Sight
  /\ look \in {"waits", "looks", "finds", "writes", "ended"}
  /\ lookDue \in Nat
  /\ frame \in [tick : Nat, pace : Paces]
  /\ named \in Sight

Init ==
  /\ due = 0 /\ pace = "due"
  /\ seen = None /\ read = None /\ named = None
  /\ tick = "expected" /\ look = "waits"
  /\ lookDue = 0 /\ frame = Place

\* The loop holds its thread past the due time of the tick.
Overdue ==
  /\ tick = "expected" /\ pace = "due"
  /\ pace' = "late"
  /\ UNCHANGED <<due, seen, tick, read, look, lookDue, frame, named>>

\* The tick runs, and reads _seen.
Ticked ==
  /\ tick = "expected"
  /\ tick' = "runs"
  /\ read' = seen
  /\ UNCHANGED <<due, pace, seen, look, lookDue, frame, named>>

\* Mutant: what was seen last is named, whichever tick it was seen for.
MutantNamesAny(r) == IF r = None THEN None ELSE [r EXCEPT !.for = due]

\* What the tick names when the loop used its thread for long: what was seen for
\* the tick that it is, or no frame.
Names(r) == IF r # None /\ r.for = due THEN r ELSE None

\* The rest of the tick, up to the next: it names the hold if the CPU time says so.
Report ==
  /\ tick = "runs" /\ due < MaxTicks
  /\ tick' = "expected"
  /\ named' \in {named, Names(read)}
  /\ due' = due + 1 /\ pace' = "due"
  /\ UNCHANGED <<seen, read, look, lookDue, frame>>

\* __exit__ runs on the loop's thread: no tick runs after it, and it waits for the
\* thread beside the loop.
Exit ==
  /\ tick = "expected"
  /\ tick' = "stopped"
  /\ UNCHANGED <<due, pace, seen, read, look, lookDue, frame, named>>

ReadDue ==
  /\ look = "waits"
  /\ IF tick = "stopped"
     THEN look' = "ended" /\ UNCHANGED lookDue
     ELSE look' = "looks" /\ lookDue' = due
  /\ UNCHANGED <<due, pace, seen, tick, read, frame, named>>

\* What was seen was seen for the tick d.
Knows(d) == IF seen = None THEN FALSE ELSE seen.for = d

\* _seen is read, then the clock.  A due time whose tick has run may be overdue by
\* now, or not.
Look ==
  /\ look = "looks"
  /\ \/ look' = "waits" /\ (lookDue = due /\ pace = "late" => Knows(lookDue))
     \/ /\ look' = "finds"
        /\ lookDue < due \/ pace = "late"
        /\ ~Knows(lookDue)
  /\ UNCHANGED <<due, pace, seen, tick, read, lookDue, frame, named>>

\* The frame the loop's thread is in now.
Find ==
  /\ look = "finds"
  /\ frame' = Place
  /\ look' = "writes"
  /\ UNCHANGED <<due, pace, seen, tick, read, lookDue, named>>

\* The due time that what was seen is kept under.
KeptUnder == lookDue

Keep ==
  /\ look = "writes"
  /\ seen' = [for |-> KeptUnder, tick |-> frame.tick, pace |-> frame.pace]
  /\ look' = "waits"
  /\ UNCHANGED <<due, pace, tick, read, lookDue, frame, named>>

Next ==
  \/ Overdue \/ Ticked \/ Report \/ Exit
  \/ ReadDue \/ Look \/ Find \/ Keep

Spec == Init /\ [][Next]_vars

-----------------------------------------------------------------------------
\* The frame that a tick names is one the loop was in while that very tick was
\* overdue, though a tick may run between any two steps of the thread that looks
\* (loop_watch.py: _look, _ticked).
FramesAreOfTheHold == named # None => named.tick = named.for /\ named.pace = "late"

=============================================================================
