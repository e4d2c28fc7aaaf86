------------------------------- MODULE Builds -------------------------------
(***************************************************************************)
(* How a tab follows the deployed build: src/build.ts, the reload on a     *)
(* missing chunk of src/missing-chunk.ts, and the host that serves         *)
(* build.json and index.html, which may name builds apart.  The page goes  *)
(* with a reload, the session storage stays.                               *)
(***************************************************************************)
EXTENDS Naturals, FiniteSets

CONSTANTS
  Build,     \* the entry chunks
  None,      \* no build
  MaxChecks  \* the bound of the reads of build.json on their way at once

VARIABLES
  names,     \* the build that build.json names
  serves,    \* the build that index.html loads
  running,   \* the build the page runs
  next,      \* the build the page reloads into at the next navigation
  notLoaded, \* the build it reloaded into and does not run
  reported,  \* whether it said so
  checks,    \* what the reads of build.json on their way will say
  going,     \* whether the page asked the tab to load again
  intoBuild, \* RELOADING_INTO in the session storage
  chunks     \* the builds the session reloaded from on a missing chunk

page == <<running, next, notLoaded, reported, checks, going>>
session == <<intoBuild, chunks>>
host == <<names, serves>>
vars == <<names, serves, running, next, notLoaded, reported, checks, going, intoBuild, chunks>>

TypeOK ==
  /\ {names, serves, running} \subseteq Build
  /\ {next, notLoaded, intoBuild} \subseteq Build \union {None}
  /\ reported \in BOOLEAN /\ going \in BOOLEAN
  /\ checks \subseteq Build /\ chunks \subseteq Build

Init ==
  /\ names \in Build /\ serves \in Build /\ running = serves
  /\ next = None /\ notLoaded = None /\ intoBuild = None
  /\ reported = FALSE /\ going = FALSE
  /\ checks = {} /\ chunks = {}

-----------------------------------------------------------------------------
(* The host: a deploy is not one step, and it may go back.                 *)

Deploy(b) ==
  /\ names' = b
  /\ UNCHANGED <<serves, page, session>>

Serve(b) ==
  /\ serves' = b
  /\ UNCHANGED <<names, page, session>>

-----------------------------------------------------------------------------
(* The page.                                                               *)

\* build.json is read on its way, and the read answers or fails later.
Check == checks' = checks \union {names} /\ Cardinality(checks') <= MaxChecks

Focus ==
  /\ Check
  /\ UNCHANGED <<host, session, running, next, notLoaded, reported, going>>

\* onBeforeLoad of a navigation to another path.
Navigate ==
  \/ /\ next # None
     /\ intoBuild' = next
     /\ going' = TRUE
     /\ UNCHANGED <<host, running, next, notLoaded, reported, checks, chunks>>
  \/ /\ next = None
     /\ Check
     /\ UNCHANGED <<host, session, running, next, notLoaded, reported, going>>

\* Mutant: a page that reloaded in vain reloads into no build any more.
MutantLearnedNoMore(b) == IF b = running THEN None ELSE IF notLoaded # None THEN next ELSE b

\* learned: back to the running build, or to one that this page may load.
Learned(b) == IF b = running THEN None ELSE IF b = notLoaded THEN next ELSE b

Answer(b) ==
  /\ b \in checks
  /\ checks' = checks \ {b}
  /\ next' = Learned(b)
  /\ reported' = (reported \/ b = notLoaded)
  /\ UNCHANGED <<host, session, running, notLoaded, going>>

Fail(b) ==
  /\ b \in checks
  /\ checks' = checks \ {b}
  /\ UNCHANGED <<host, session, running, next, notLoaded, reported, going>>

\* vite:preloadError: a chunk of the running build does not load, because the host has
\* it no more or on its way.
MissingChunk ==
  /\ running \notin chunks
  /\ chunks' = chunks \union {running}
  /\ going' = TRUE
  /\ UNCHANGED <<host, running, next, notLoaded, reported, checks, intoBuild>>

-----------------------------------------------------------------------------
\* Mutant: a page does not read what the session says of it.
MutantNotLoadedNever(b) == None

\* What the page that starts with b reads of the session.
NotLoaded(b) == IF intoBuild = b THEN None ELSE intoBuild

\* The page starts again: it asked to, or the person did.
Load ==
  /\ running' = serves
  /\ next' = None
  /\ notLoaded' = NotLoaded(serves)
  /\ reported' = FALSE
  /\ checks' = {}
  /\ going' = FALSE
  /\ UNCHANGED <<host, session>>

Reload == going /\ Load
Person == ~going /\ Load

Next ==
  \/ Focus \/ Navigate \/ MissingChunk \/ Reload \/ Person
  \/ \E b \in Build : Deploy(b) \/ Serve(b) \/ Answer(b) \/ Fail(b)

Spec == Init /\ [][Next]_vars

\* The person goes on to navigate, reads of build.json do not fail for ever, and
\* the browser reloads.
Fairness == WF_vars(Navigate) /\ WF_vars(Reload) /\ \A b \in Build : SF_vars(Answer(b))

FairSpec == Spec /\ Fairness

-----------------------------------------------------------------------------
\* The tab reloads by itself over and over only while the host goes on to name
\* other builds: a host that serves an old index.html, or has lost a chunk,
\* cannot make it (ADR 0025).
ReloadsNeedDeploys ==
  []<><<Reload>>_vars => []<><<\E b \in Build : Deploy(b)>>_vars

\* A host that names and serves one build in the end is followed: the tab runs
\* it, or it had reloaded into it before the host served it, and said so.
TheBuildIsFollowed == \A b \in Build :
  <>[](names = b /\ serves = b) => <>[](running = b \/ (notLoaded = b /\ reported))
=============================================================================
