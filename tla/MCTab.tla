------------------------------- MODULE MCTab -------------------------------
(* The parts of one tab on small instances: Reads, Builds and Holds.  They *)
(* share no state, so each is explored with the others at rest.            *)
EXTENDS Reads

CONSTANTS Build, None, MaxChecks, Call, Wait, Event, MaxPage, MaxTime

\* A wait is of so many seconds.
ASSUME TabAssumption == Wait \subseteq Nat

VARIABLES
  part,  \* the part that is explored
  names, serves, running, next, notLoaded, reported, checks, going, intoBuild, chunks,
  now, hold, away, reporting, sent, asked

Builds == INSTANCE Builds
Holds == INSTANCE Holds

builds ==
  <<names, serves, running, next, notLoaded, reported, checks, going, intoBuild, chunks>>
holds == <<now, hold, away, reporting, sent, asked>>
tab == <<part, vars, builds, holds>>

InitTab ==
  /\ part \in {"reads", "builds", "holds"}
  /\ Init /\ Builds!Init /\ Holds!Init
  /\ part # "reads" => polled = {}
  /\ part # "builds" => names = serves /\ serves = CHOOSE b \in Build : TRUE

NextTab ==
  /\ UNCHANGED part
  /\ \/ part = "reads" /\ Next /\ UNCHANGED <<builds, holds>>
     \/ part = "builds" /\ Builds!Next /\ UNCHANGED <<vars, holds>>
     \/ part = "holds" /\ Holds!Next /\ UNCHANGED <<vars, builds>>

\* The fairness of Builds, while it is explored.
FairBuilds ==
  /\ WF_(builds)(part = "builds" /\ Builds!Navigate)
  /\ WF_(builds)(part = "builds" /\ Builds!Reload)
  /\ \A b \in Build : SF_(builds)(part = "builds" /\ Builds!Answer(b))

SpecTab == InitTab /\ [][NextTab]_tab /\ FairBuilds

\* The variables of the three parts have their types.
TypesOK == TypeOK /\ Builds!TypeOK /\ Holds!TypeOK

\* The tab reloads by itself over and over only while the host names other builds
\* over and over (src/build.ts, src/missing-chunk.ts).
ReloadsNeedDeploys == Builds!ReloadsNeedDeploys

\* A host that names and serves one build in the end is followed, or the tab has
\* said that it could not load it (src/build.ts).
TheBuildIsFollowed == Builds!TheBuildIsFollowed

\* No request is sent before the longest wait that an answer asked for is over
\* (src/api/client.ts).
HeldSendsNothing == Holds!HeldSendsNothing
=============================================================================
