----------------------------- MODULE MCProcess ------------------------------
(* The parts of the backend's processes that share no state, on small      *)
(* instances: each of Deployment, MemoryJobs, LoopWatch and Pages is       *)
(* explored with the others at rest.                                       *)
EXTENDS Deployment

CONSTANTS Job, MaxAttempts, MaxTicks, Row, PageMax

\* A job has an attempt at least, and a page a row.
ASSUME ProcessAssumption ==
  /\ MaxAttempts \in Nat \ {0} /\ PageMax \in Nat \ {0}
  /\ IsFiniteSet(Row) /\ None \notin Row

VARIABLES
  part,  \* the part that is explored
  status, attempt, author, failed, task, toEnd, closing,
  due, pace, seen, tick, read, look, lookDue, frame, named,
  newestFirst, seq, number, row, walk, after, shown, before

Memory == INSTANCE MemoryJobs
Watch == INSTANCE LoopWatch
Lists == INSTANCE Pages

memory == <<status, attempt, author, failed, task, toEnd, closing>>
watch == <<due, pace, seen, tick, read, look, lookDue, frame, named>>
lists == <<newestFirst, seq, number, row, walk, after, shown, before>>
all == <<part, vars, memory, watch, lists>>

\* A production deployment, and what one setting less or more makes of it.
Production ==
  [app |-> "production", url |-> TRUE, owner |-> FALSE, timeouts |-> "unset",
   instances |-> 2, attributes |-> TRUE,
   endpoint |-> "url", telemetry |-> {"service"}, admission |-> TRUE]

Development == [Production EXCEPT !.app = "development", !.instances = Unset]

InMemory == [Development EXCEPT !.url = FALSE]

MCSettings ==
  {Production, Development, InMemory,
   [Production EXCEPT !.app = "other"], [Production EXCEPT !.url = FALSE],
   [Production EXCEPT !.owner = TRUE], [Production EXCEPT !.timeouts = "long"],
   [Production EXCEPT !.timeouts = "bad"], [Production EXCEPT !.timeouts = "good", !.instances = 1],
   [Production EXCEPT !.instances = Unset], [Production EXCEPT !.instances = NotACount],
   [Production EXCEPT !.attributes = FALSE], [Production EXCEPT !.endpoint = "unset"],
   [Production EXCEPT !.endpoint = "other"], [Production EXCEPT !.telemetry = {}],
   [Production EXCEPT !.telemetry = @ \union {"unread"}],
   [Production EXCEPT !.endpoint = "unset", !.telemetry = {}],
   [Production EXCEPT !.admission = FALSE], [InMemory EXCEPT !.timeouts = "good"],
   [InMemory EXCEPT !.instances = 2]}

MCLimits == {[max |-> 9, reserved |-> 2], [max |-> 5, reserved |-> 1]}

InitAll ==
  /\ part \in {"deployment", "memory", "watch", "lists"}
  /\ Init /\ Memory!Init /\ Watch!Init /\ Lists!Init
  /\ part # "deployment" => said = Production /\ server = CHOOSE l \in Limits : TRUE
  /\ part # "lists" => newestFirst

NextAll ==
  /\ UNCHANGED part
  /\ \/ part = "deployment" /\ Next /\ UNCHANGED <<memory, watch, lists>>
     \/ part = "memory" /\ Memory!Next /\ UNCHANGED <<vars, watch, lists>>
     \/ part = "watch" /\ Watch!Next /\ UNCHANGED <<vars, memory, lists>>
     \/ part = "lists" /\ Lists!Next /\ UNCHANGED <<vars, memory, watch>>

\* The fairness of MemoryJobs, while it is explored.
FairMemory ==
  \A j \in Job :
    /\ WF_memory(part = "memory" /\ Memory!Turn(j))
    /\ SF_memory(part = "memory" /\ Memory!Finishes(j))

SpecAll == InitAll /\ [][NextAll]_all /\ FairMemory

\* A job is dead only when its handler raised in each of its attempts
\* (store/memory.py).
DeadFailedEachTime == Memory!DeadFailedEachTime

\* A job that was asked for ends, or close() ends its task (store/memory.py).
AskedJobsEnd == Memory!AskedJobsEnd

\* A tick names a frame of the hold that made it late, and of no other
\* (loop_watch.py).
FramesAreOfTheHold == Watch!FramesAreOfTheHold

\* A reader that follows next to the end meets each row that stays, once and in
\* order (store/pg.py).
WalksAreComplete == Lists!WalksAreComplete

\* What is promised of a job on Postgres holds in memory (store/memory.py).
IsJobBoard == Memory!IsJobBoard

\* The variables of the parts have their types.
TypesOK == TypeOK /\ Memory!TypeOK /\ Watch!TypeOK
=============================================================================
