-------------------------- MODULE SharedWorkProofs --------------------------
(***************************************************************************)
(* What is right about shared work, for any number of keys, callers and    *)
(* runs: one run at a time for each key, whoever awaits one is told, only  *)
(* the stop cancels, and what goes on on the closed database was named, or *)
(* was started after the stop had read what runs.                          *)
(***************************************************************************)
EXTENDS SharedWork, TLAPS

\* The kinds of waiters are told apart.
LEMMA WaitersDiffer ==
  /\ \A c \in Caller : CallerOf(c) \in Waiter
  /\ \A i \in Run : RunOf(i) \in Waiter
  /\ \A i, j \in Run : RunOf(i) = RunOf(j) => i = j
BY DEF CallerOf, RunOf, Waiter

\* A run that was just made runs, and nobody told it to cancel.
LEMMA MadeRuns ==
  ASSUME NEW k PROVE Made(k).key = k /\ Made(k).at = "runs" /\ Made(k).how = "" /\ ~Made(k).told
BY DEF Made

\* Nothing runs, and nothing is in the table.
LEMMA InitIInv == ASSUME Init PROVE IInv
<1>1. NotMade \in RunState
  BY DEF NotMade, RunState
<1>2. TypeOK
  BY <1>1, SharedWorkAssumption DEF Init, TypeOK, NoRun
<1>3. \A i \in Run : run[i] = NotMade
  BY DEF Init
<1>4. NotMade.at = "none" /\ NotMade.how = "" /\ NotMade.told = FALSE
  BY DEF NotMade
<1>5. (\A k \in Key : runs[k] = NoRun) /\ (\A w \in Waiter : awaits[w] = NoRun)
      /\ started = {} /\ stop = "serves" /\ before <= made
  BY DEF Init
<1> HIDE DEF NotMade
<1> QED
  BY <1>2, <1>3, <1>4, <1>5 DEF IInv, OneRunPerKey, AwaitsWhatWillTell, OnlyTheStopCancels,
     ClosedNamesWhatRuns, TableIsInFlight, StartedIsInFlight, StopTells

\* The run that is made next was not there, and is in flight from then on.
LEMMA MakeRunMakes ==
  ASSUME IInv, NEW k \in Key \union {Beside}, MakeRun(k)
  PROVE  /\ made + 1 \in Run /\ made + 1 # NoRun /\ run[made + 1].at = "none"
         /\ made' \in 0..MaxRuns
         /\ run' \in [Run -> RunState] /\ started' \in SUBSET Run
         /\ run'[made + 1] = Made(k)
         /\ \A i \in Run : i # made + 1 => run'[i] = run[i]
         /\ \A i \in Run : i \in started' <=> i \in started \/ i = made + 1
         /\ \A i \in Run : i > made' => i > made /\ i # made + 1
<1>1. made \in Nat /\ MaxRuns \in Nat /\ made < MaxRuns /\ made' = made + 1
  <2>1. TypeOK
    BY DEF IInv
  <2>2. made \in 0..MaxRuns
    BY <2>1 DEF TypeOK
  <2>3. made < MaxRuns /\ made' = made + 1
    BY DEF MakeRun
  <2>4. MaxRuns \in Nat
    BY SharedWorkAssumption
  <2> QED
    BY <2>2, <2>3, <2>4
<1>2. made + 1 \in Run /\ made + 1 # NoRun /\ made' \in 0..MaxRuns /\ made + 1 > made
  BY <1>1 DEF Run, NoRun
<1>3. run \in [Run -> RunState] /\ started \in SUBSET Run
  BY DEF IInv, TypeOK
<1>4. Made(k) \in RunState
  BY DEF RunState, Made
<1>5. run' = [run EXCEPT ![made + 1] = Made(k)]
      /\ started' = started \union {made + 1}
  BY DEF MakeRun
<1>6. run[made + 1].at = "none"
  BY <1>2 DEF IInv, StartedIsInFlight
<1>7. \A i \in Run : i > made' => i > made /\ i # made + 1
  BY <1>1 DEF Run
<1> QED
  BY <1>2, <1>3, <1>4, <1>5, <1>6, <1>7

\* A call starts a run.
LEMMA StartIInv == ASSUME IInv, NEW w \in Waiter, NEW k \in Key, Start(w, k) PROVE IInv'
<1> DEFINE new == made + 1
<1>1. /\ new \in Run /\ new # NoRun /\ run[new].at = "none" /\ made' \in 0..MaxRuns
      /\ run' \in [Run -> RunState] /\ started' \in SUBSET Run
      /\ run'[new] = Made(k)
      /\ \A i \in Run : i # new => run'[i] = run[i]
      /\ \A i \in Run : i \in started' <=> i \in started \/ i = new
      /\ \A i \in Run : i > made' => i > made /\ i # new
  BY MakeRunMakes DEF Start
<1>2. /\ runs[k] = NoRun
      /\ runs' = [runs EXCEPT ![k] = new]
      /\ awaits' = [awaits EXCEPT ![w] = new]
      /\ UNCHANGED <<answer, stop, toEnd, before, outlived>>
  BY DEF Start, stopping
<1>3. TypeOK
  BY DEF IInv
<1>4. before <= made /\ before \in Nat /\ made \in Nat /\ new > before
  <2>1. before \in Nat /\ made \in Nat /\ before <= made
    BY SharedWorkAssumption DEF IInv, TypeOK, StopTells
  <2> QED
    BY <2>1
<1> HIDE DEF new
<1>5. TypeOK'
  BY <1>1, <1>2, <1>3 DEF TypeOK
<1>6. /\ runs'[k] = new /\ \A l \in Key : l # k => runs'[l] = runs[l]
      /\ awaits'[w] = new /\ \A v \in Waiter : v # w => awaits'[v] = awaits[v]
  BY <1>2, <1>3 DEF TypeOK
<1>7. run'[new].key = k /\ run'[new].at = "runs" /\ run'[new].how = "" /\ ~run'[new].told
  BY <1>1, MadeRuns
<1>8. run[new].at = "none"
  BY <1>1
<1>9. OneRunPerKey'
  <2> SUFFICES ASSUME NEW i \in Run, run'[i].key \in Key, run'[i].at \in {"runs", "ended"}
               PROVE  runs'[run'[i].key] = i
    BY DEF OneRunPerKey
  <2>1. CASE i = new
    BY <2>1, <1>6, <1>7
  <2>2. CASE i # new
    <3>1. run'[i] = run[i] /\ runs[run[i].key] = i
      BY <2>2, <1>1 DEF IInv, OneRunPerKey
    <3>2. run[i].key # k
      BY <3>1, <1>2 DEF Run, NoRun
    <3> QED
      BY <3>1, <3>2, <1>6
  <2> QED
    BY <2>1, <2>2
<1>10. TableIsInFlight'
  <2> SUFFICES ASSUME NEW l \in Key, runs'[l] # NoRun
               PROVE  run'[runs'[l]].key = l /\ run'[runs'[l]].at \in {"runs", "ended"}
    BY DEF TableIsInFlight
  <2>1. CASE l = k
    BY <2>1, <1>6, <1>7
  <2>2. CASE l # k
    <3>1. runs'[l] = runs[l] /\ runs[l] \in Run
      BY <2>2, <1>6, <1>3 DEF TypeOK
    <3>2. run[runs[l]].key = l /\ run[runs[l]].at \in {"runs", "ended"}
      BY <3>1 DEF IInv, TableIsInFlight
    <3> QED
      BY <3>1, <3>2, <1>1, <1>8
  <2> QED
    BY <2>1, <2>2
<1>11. AwaitsWhatWillTell'
  <2> SUFFICES ASSUME NEW v \in Waiter, awaits'[v] # NoRun
               PROVE  run'[awaits'[v]].at \in {"runs", "ended"}
    BY DEF AwaitsWhatWillTell
  <2>1. CASE v = w
    BY <2>1, <1>6, <1>7
  <2>2. CASE v # w
    <3>1. awaits'[v] = awaits[v] /\ awaits[v] \in Run
      BY <2>2, <1>6, <1>3 DEF TypeOK
    <3>2. run[awaits[v]].at \in {"runs", "ended"}
      BY <3>1 DEF IInv, AwaitsWhatWillTell
    <3> QED
      BY <3>1, <3>2, <1>1, <1>8
  <2> QED
    BY <2>1, <2>2
<1>12. OnlyTheStopCancels' /\ ClosedNamesWhatRuns'
  BY <1>1, <1>2, <1>4, <1>7 DEF IInv, OnlyTheStopCancels, ClosedNamesWhatRuns
<1>14. StopTells'
  <2>1. before' = before /\ before <= made'
    BY <1>2, <1>4, MakeRunMakes DEF Start, MakeRun
  <2>2. \A i \in Run : i # new => run'[i] = run[i]
    BY <1>1
  <2> QED
    BY <1>2, <1>4, <1>7, <2>1, <2>2 DEF IInv, StopTells
<1>13. StartedIsInFlight'
  BY <1>1, <1>7 DEF IInv, StartedIsInFlight
<1> QED
  BY <1>5, <1>9, <1>10, <1>11, <1>12, <1>13, <1>14 DEF IInv

\* Work beside the requests is in no table.
LEMMA StartBesideIInv == ASSUME IInv, StartBeside PROVE IInv'
<1> DEFINE new == made + 1
<1>1. /\ new \in Run /\ run[new].at = "none" /\ made' \in 0..MaxRuns
      /\ run' \in [Run -> RunState] /\ started' \in SUBSET Run
      /\ run'[new] = Made(Beside)
      /\ \A i \in Run : i # new => run'[i] = run[i]
      /\ \A i \in Run : i \in started' <=> i \in started \/ i = new
      /\ \A i \in Run : i > made' => i > made /\ i # new
  BY MakeRunMakes DEF StartBeside
<1>2. UNCHANGED <<runs, awaits, answer, stop, toEnd, before, outlived>> /\ made' = made + 1
  BY DEF StartBeside, stopping, MakeRun
<1>3. TypeOK /\ Beside \notin Key
  BY SharedWorkAssumption DEF IInv
<1>11. before <= made /\ before \in Nat /\ made \in Nat /\ new > before
  <2>1. before \in Nat /\ made \in Nat /\ before <= made
    BY SharedWorkAssumption DEF IInv, TypeOK, StopTells
  <2> QED
    BY <2>1
<1> HIDE DEF new
<1>4. TypeOK'
  BY <1>1, <1>2, <1>3 DEF TypeOK
<1>5. /\ run'[new].key = Beside /\ run'[new].at = "runs" /\ run'[new].how = ""
      /\ ~run'[new].told
  BY <1>1, MadeRuns
<1>6. OneRunPerKey'
  BY <1>1, <1>2, <1>3, <1>5 DEF IInv, OneRunPerKey
<1>7. \A i \in Run : run[i].at \in {"runs", "ended"} => run'[i] = run[i]
  BY <1>1
<1>8. TableIsInFlight' /\ AwaitsWhatWillTell'
  BY <1>2, <1>3, <1>7 DEF IInv, TableIsInFlight, AwaitsWhatWillTell, TypeOK
<1>9. OnlyTheStopCancels' /\ ClosedNamesWhatRuns'
  BY <1>1, <1>2, <1>5, <1>11 DEF IInv, OnlyTheStopCancels, ClosedNamesWhatRuns
<1>12. StopTells'
  <2>1. before' = before /\ before <= made'
    BY <1>2, <1>11
  <2> QED
    BY <1>1, <1>2, <1>5, <1>11, <2>1 DEF IInv, StopTells
<1>10. StartedIsInFlight'
  BY <1>1, <1>5 DEF IInv, StartedIsInFlight
<1> QED
  BY <1>4, <1>6, <1>8, <1>9, <1>10, <1>12 DEF IInv

\* A call joins a run of the table, or a caller leaves one.
LEMMA WaitsIInv ==
  ASSUME IInv, UNCHANGED <<runs, made, run, started, stop, toEnd, before, outlived>>,
         awaits' \in [Waiter -> Run \union {NoRun}],
         answer' \in [Caller -> How \union {"none", "left"}],
         \A w \in Waiter : awaits'[w] \in {NoRun, awaits[w]}
                           \/ \E k \in Key : runs[k] # NoRun /\ awaits'[w] = runs[k]
  PROVE  IInv'
<1>1. TypeOK'
  BY DEF IInv, TypeOK
<1>2. AwaitsWhatWillTell'
  BY DEF IInv, AwaitsWhatWillTell, TableIsInFlight
<1> QED
  BY <1>1, <1>2 DEF IInv, OneRunPerKey, OnlyTheStopCancels, ClosedNamesWhatRuns, TableIsInFlight,
     StartedIsInFlight, StopTells

\* A call that joins the run of its key.
LEMMA JoinIInv == ASSUME IInv, NEW w \in Waiter, NEW k \in Key, Join(w, k) PROVE IInv'
<1>1. runs[k] \in Run /\ runs[k] # NoRun
  BY DEF Join, IInv, TypeOK
<1>2. CASE run[runs[k]].at = "ended"
  <2>1. answer' = [c \in Caller |-> IF w = CallerOf(c) THEN run[runs[k]].how ELSE answer[c]]
        /\ UNCHANGED <<awaits, runs, made, run, started, stop, toEnd, before, outlived>>
    BY <1>2 DEF Join, stopping
  <2>2. run[runs[k]].how \in How
    BY <1>1, <1>2 DEF IInv, StartedIsInFlight
  <2> QED
    BY <2>1, <2>2, WaitsIInv DEF IInv, TypeOK
<1>3. CASE run[runs[k]].at # "ended"
  <2>1. awaits' = [awaits EXCEPT ![w] = runs[k]]
        /\ UNCHANGED <<answer, runs, made, run, started, stop, toEnd, before, outlived>>
    BY <1>3 DEF Join, stopping
  <2>2. awaits' \in [Waiter -> Run \union {NoRun}] /\ answer' \in [Caller -> How \union {"none", "left"}]
    BY <1>1, <2>1 DEF IInv, TypeOK
  <2>3. \A v \in Waiter : awaits'[v] = awaits[v] \/ awaits'[v] = runs[k]
    BY <2>1 DEF IInv, TypeOK
  <2> QED
    BY <1>1, <2>1, <2>2, <2>3, WaitsIInv
<1> QED
  BY <1>2, <1>3

\* A caller that leaves takes nothing from the run.
LEMMA LeaveIInv == ASSUME IInv, NEW c \in Caller, Leave(c) PROVE IInv'
<1>1. /\ awaits' = [awaits EXCEPT ![CallerOf(c)] = NoRun]
      /\ answer' = [answer EXCEPT ![c] = "left"]
      /\ UNCHANGED <<runs, made, run, started, stop, toEnd, before, outlived>>
  BY DEF Leave, stopping
<1>2. awaits' \in [Waiter -> Run \union {NoRun}] /\ answer' \in [Caller -> How \union {"none", "left"}]
  BY <1>1 DEF IInv, TypeOK
<1>3. \A v \in Waiter : awaits'[v] \in {NoRun, awaits[v]}
  BY <1>1 DEF IInv, TypeOK
<1> QED
  BY <1>1, <1>2, <1>3, WaitsIInv

\* A run ends.  It stays where the table and the process know it.
LEMMA EndIInv == ASSUME IInv, NEW i \in Run, End(i) PROVE IInv'
<1>1. PICK how \in How : /\ how = "cancelled" => run[i].told
                         /\ run' = [run EXCEPT ![i].at = "ended", ![i].how = how]
  BY DEF End
<1>2. run[i].at = "runs" /\ UNCHANGED <<runs, made, started, awaits, answer, stop, toEnd, before, outlived>>
  BY DEF End, Running, stopping
<1>3. TypeOK /\ run[i] \in RunState
  BY DEF IInv, TypeOK
<1>4. /\ \A j \in Run : run'[j].key = run[j].key /\ (run'[j].told <=> run[j].told)
      /\ \A j \in Run : j # i => run'[j].at = run[j].at /\ run'[j].how = run[j].how
      /\ run'[i].at = "ended" /\ run'[i].how = how
      /\ run' \in [Run -> RunState]
  BY <1>1, <1>3 DEF TypeOK, RunState
<1>5. TypeOK'
  BY <1>2, <1>3, <1>4 DEF TypeOK
<1>6. \A j \in Run : run'[j].at \in {"runs", "ended"} <=> run[j].at \in {"runs", "ended"}
  BY <1>2, <1>4
<1>7. OneRunPerKey' /\ TableIsInFlight' /\ AwaitsWhatWillTell'
  BY <1>2, <1>3, <1>4, <1>6 DEF IInv, OneRunPerKey, TableIsInFlight, AwaitsWhatWillTell, TypeOK
<1>8. OnlyTheStopCancels' /\ StopTells'
  BY <1>1, <1>2, <1>4 DEF IInv, OnlyTheStopCancels, StopTells
<1>9. ClosedNamesWhatRuns'
  BY <1>2, <1>4 DEF IInv, ClosedNamesWhatRuns
<1>10. StartedIsInFlight'
  BY <1>2, <1>4, <1>6 DEF IInv, StartedIsInFlight
<1> QED
  BY <1>5, <1>7, <1>8, <1>9, <1>10 DEF IInv

\* The loop tells of a run: the table and the process forget it, and no other.
LEMMA TellIInv == ASSUME IInv, NEW i \in Run, Tell(i) PROVE IInv'
<1>1. /\ run[i].at = "ended"
      /\ started' = started \ {i}
      /\ runs' = [k \in Key |-> IF run[i].key = k THEN NoRun ELSE runs[k]]
      /\ answer' = [c \in Caller |-> IF awaits[CallerOf(c)] = i THEN run[i].how ELSE answer[c]]
      /\ awaits' = [w \in Waiter |-> IF awaits[w] = i THEN NoRun ELSE awaits[w]]
      /\ UNCHANGED <<made, stop, toEnd, before, outlived>>
  BY DEF Tell, stopping
<1>2. TypeOK /\ run[i].how \in How
  BY <1>1 DEF IInv, StartedIsInFlight
<1>3. run'[i] = Over
  BY DEF Tell
<1>4. Over \in RunState /\ Over.at = "over" /\ Over.how = "" /\ ~Over.told
  BY DEF Over, NotMade, RunState
<1>5. ASSUME NEW j \in Run, j # i
      PROVE  /\ run'[j] \in RunState
             /\ run'[j].key = run[j].key /\ run'[j].at = run[j].at /\ run'[j].how = run[j].how
             /\ run'[j].told <=> run[j].told \/ (run[i].how = "cancelled" /\ awaits[RunOf(j)] = i)
  <2>1. run'[j] = [run[j] EXCEPT !.told = run[j].told \/ (run[i].how = "cancelled" /\ awaits[RunOf(j)] = i)]
    BY <1>5 DEF Tell
  <2>2. run[j] \in RunState
    BY <1>2 DEF TypeOK
  <2> DEFINE told == run[j].told \/ (run[i].how = "cancelled" /\ awaits[RunOf(j)] = i)
  <2>3. told \in BOOLEAN
    BY <2>2 DEF RunState
  <2> HIDE DEF told
  <2>4. run'[j] = [run[j] EXCEPT !.told = told]
    BY <2>1 DEF told
  <2>5. /\ run'[j] \in RunState
        /\ run'[j].key = run[j].key /\ run'[j].at = run[j].at /\ run'[j].how = run[j].how
        /\ run'[j].told = told
    BY <2>2, <2>3, <2>4 DEF RunState
  <2> QED
    BY <2>5 DEF told
<1>6. run' \in [Run -> RunState]
  <2>1. \A j \in Run : run'[j] \in RunState
    BY <1>3, <1>4, <1>5
  <2>2. run' = [j \in Run |-> run'[j]]
    BY DEF Tell
  <2> QED
    BY <2>1, <2>2
<1>7. TypeOK'
  BY <1>1, <1>2, <1>6 DEF TypeOK
<1>8. OneRunPerKey'
  <2> SUFFICES ASSUME NEW j \in Run, run'[j].key \in Key, run'[j].at \in {"runs", "ended"}
               PROVE  runs'[run'[j].key] = j
    BY DEF OneRunPerKey
  <2>1. j # i
    BY <1>3, <1>4
  <2>2. run'[j].key = run[j].key /\ runs[run[j].key] = j
    BY <2>1, <1>5 DEF IInv, OneRunPerKey
  <2>3. run[i].key # run[j].key
    BY <2>1, <2>2, <1>1 DEF IInv, OneRunPerKey
  <2> QED
    BY <2>2, <2>3, <1>1
<1>9. TableIsInFlight'
  <2> SUFFICES ASSUME NEW k \in Key, runs'[k] # NoRun
               PROVE  run'[runs'[k]].key = k /\ run'[runs'[k]].at \in {"runs", "ended"}
    BY DEF TableIsInFlight
  <2>1. run[i].key # k /\ runs'[k] = runs[k] /\ runs[k] \in Run
    BY <1>1, <1>2 DEF TypeOK
  <2>2. run[runs[k]].key = k /\ run[runs[k]].at \in {"runs", "ended"}
    BY <2>1 DEF IInv, TableIsInFlight
  <2> QED
    BY <2>1, <2>2, <1>5
<1>10. AwaitsWhatWillTell'
  <2> SUFFICES ASSUME NEW w \in Waiter, awaits'[w] # NoRun
               PROVE  run'[awaits'[w]].at \in {"runs", "ended"}
    BY DEF AwaitsWhatWillTell
  <2>1. awaits[w] # i /\ awaits'[w] = awaits[w] /\ awaits[w] \in Run
    BY <1>1, <1>2 DEF TypeOK
  <2>2. run[awaits[w]].at \in {"runs", "ended"}
    BY <2>1 DEF IInv, AwaitsWhatWillTell
  <2> QED
    BY <2>1, <2>2, <1>5
<1>11. OnlyTheStopCancels'
  BY <1>1, <1>3, <1>4, <1>5 DEF IInv, OnlyTheStopCancels
<1>12. ClosedNamesWhatRuns'
  BY <1>1, <1>3, <1>4, <1>5 DEF IInv, ClosedNamesWhatRuns
<1>13. StopTells'
  <2> SUFFICES ASSUME NEW j \in Run
               PROVE  /\ run'[j].told => stop # "serves"
                      /\ stop # "serves" /\ run'[j].at = "runs" /\ ~(j > before)
                           => run'[j].told /\ j \in toEnd
    BY <1>1 DEF StopTells, IInv
  <2>1. CASE j = i
    BY <2>1, <1>3, <1>4
  <2>2. CASE j # i
    BY <2>2, <1>5 DEF IInv, StopTells, OnlyTheStopCancels
  <2> QED
    BY <2>1, <2>2
<1>14. StartedIsInFlight'
  <2>1. i \notin started' /\ \A j \in Run : j # i => (j \in started' <=> j \in started)
    BY <1>1
  <2>2. ~(i > made)
    BY <1>1 DEF IInv, StartedIsInFlight
  <2> QED
    BY <2>1, <2>2, <1>1, <1>3, <1>4, <1>5 DEF IInv, StartedIsInFlight
<1> QED
  BY <1>7, <1>8, <1>9, <1>10, <1>11, <1>12, <1>13, <1>14 DEF IInv

\* The stop tells every run that goes on.
LEMMA CancelBesideIInv == ASSUME IInv, CancelBeside PROVE IInv'
<1>1. /\ stop = "serves" /\ stop' = "cancels" /\ toEnd' = started /\ before' = made
      /\ awaits' = [w \in Waiter |-> IF \E i \in started : w = RunOf(i) THEN NoRun ELSE awaits[w]]
      /\ UNCHANGED <<runs, made, started, answer, outlived>>
  BY DEF CancelBeside
<1>2. TypeOK
  BY DEF IInv
<1>3. ASSUME NEW j \in Run
      PROVE  /\ run'[j] \in RunState
             /\ run'[j].key = run[j].key /\ run'[j].at = run[j].at /\ run'[j].how = run[j].how
             /\ run'[j].told <=> run[j].told \/ (j \in started /\ run[j].at = "runs")
  <2>1. run[j] \in RunState
    BY <1>2 DEF TypeOK
  <2> DEFINE told == run[j].told \/ (j \in started /\ run[j].at = "runs")
  <2>2. told \in BOOLEAN
    BY <2>1 DEF RunState
  <2>3. run'[j] = [run[j] EXCEPT !.told = told]
    BY DEF CancelBeside
  <2> HIDE DEF told
  <2>4. /\ run'[j] \in RunState
        /\ run'[j].key = run[j].key /\ run'[j].at = run[j].at /\ run'[j].how = run[j].how
        /\ run'[j].told = told
    BY <2>1, <2>2, <2>3 DEF RunState
  <2> QED
    BY <2>4 DEF told
<1>4. run' \in [Run -> RunState]
  <2>1. run' = [j \in Run |-> run'[j]]
    BY DEF CancelBeside
  <2> QED
    BY <2>1, <1>3
<1>5. TypeOK'
  BY <1>1, <1>2, <1>4 DEF TypeOK
<1>6. OneRunPerKey' /\ TableIsInFlight'
  BY <1>1, <1>2, <1>3 DEF IInv, OneRunPerKey, TableIsInFlight, TypeOK
<1>7. AwaitsWhatWillTell'
  <2> SUFFICES ASSUME NEW w \in Waiter, awaits'[w] # NoRun
               PROVE  run'[awaits'[w]].at \in {"runs", "ended"}
    BY DEF AwaitsWhatWillTell
  <2>1. awaits'[w] = awaits[w] /\ awaits[w] \in Run
    BY <1>1, <1>2 DEF TypeOK
  <2> QED
    BY <2>1, <1>3 DEF IInv, AwaitsWhatWillTell
<1>8. OnlyTheStopCancels' /\ ClosedNamesWhatRuns' /\ StartedIsInFlight'
  BY <1>1, <1>3 DEF IInv, OnlyTheStopCancels, ClosedNamesWhatRuns, StartedIsInFlight
<1>9. StopTells'
  <2>1. before' <= made'
    BY <1>1, SharedWorkAssumption DEF IInv, TypeOK
  <2> QED
    BY <1>1, <1>3, <2>1 DEF IInv, StopTells, StartedIsInFlight
<1> QED
  BY <1>5, <1>6, <1>7, <1>8, <1>9 DEF IInv

\* The stop ends, and names the runs it waited for that go on.
LEMMA StopIInv == ASSUME IInv, Close \/ Outlive PROVE IInv'
<1>1. /\ stop = "cancels" /\ stop' = "closed"
      /\ UNCHANGED <<runs, made, run, started, awaits, answer, toEnd, before>>
  BY DEF Close, Outlive, ClosesTheDatabase
<1>2. outlived' \in SUBSET Run /\ Still \subseteq outlived'
  BY DEF Close, Outlive, Still, IInv, TypeOK
<1>3. TypeOK'
  BY <1>1, <1>2 DEF IInv, TypeOK
<1>4. ClosedNamesWhatRuns'
  BY <1>1, <1>2 DEF IInv, StopTells, ClosedNamesWhatRuns, Still
<1>5. OnlyTheStopCancels' /\ StopTells'
  BY <1>1 DEF IInv, OnlyTheStopCancels, StopTells
<1> QED
  BY <1>1, <1>3, <1>4, <1>5 DEF IInv, OneRunPerKey, AwaitsWhatWillTell, TableIsInFlight,
     StartedIsInFlight

\* Each step keeps the invariant.
LEMMA NextIInv == ASSUME IInv, [Next]_vars PROVE IInv'
<1>1. CASE UNCHANGED vars
  BY <1>1 DEF vars, IInv, TypeOK, OneRunPerKey, AwaitsWhatWillTell, OnlyTheStopCancels,
     ClosedNamesWhatRuns, TableIsInFlight, StartedIsInFlight, StopTells
<1>2. CASE \E w \in Waiter, k \in Key : Start(w, k) \/ Join(w, k)
  BY <1>2, StartIInv, JoinIInv
<1>3. CASE StartBeside
  BY <1>3, StartBesideIInv
<1>4. CASE \E c \in Caller : Leave(c)
  BY <1>4, LeaveIInv
<1>5. CASE \E i \in Run : End(i) \/ Tell(i)
  BY <1>5, EndIInv, TellIInv
<1>6. CASE CancelBeside
  BY <1>6, CancelBesideIInv
<1>7. CASE Close \/ Outlive
  BY <1>7, StopIInv
<1>8. CASE Stopped
  BY <1>8, <1>1 DEF Stopped
<1> QED
  BY <1>1, <1>2, <1>3, <1>4, <1>5, <1>6, <1>7, <1>8 DEF Next

\* IInv is an invariant: it holds at first and each step keeps it.
THEOREM Inductive == Spec => []IInv
<1>1. Init => IInv
  BY InitIInv
<1>2. IInv /\ [Next]_vars => IInv'
  BY NextIInv
<1> QED
  BY <1>1, <1>2, PTL DEF Spec

\* Every variable keeps to its type, however many keys, callers and runs there are.
THEOREM TypeCorrect == Spec => []TypeOK
<1>1. IInv => TypeOK
  BY DEF IInv
<1> QED
  BY <1>1, Inductive, PTL

\* joined (app/waits.py) keeps one run for each key: the table names every run
\* for a key that still goes on, so no second one is started beside it.
THEOREM OneRunForEachKey == Spec => []OneRunPerKey
<1>1. IInv => OneRunPerKey
  BY DEF IInv
<1> QED
  BY <1>1, Inductive, PTL

\* Whoever joins a run joins one whose done callbacks are still to come.
THEOREM WhoeverAwaitsIsTold == Spec => []AwaitsWhatWillTell
<1>1. IInv => AwaitsWhatWillTell
  BY DEF IInv
<1> QED
  BY <1>1, Inductive, PTL

\* A caller that is cancelled does not cancel the run it joined: a run is
\* cancelled only once the process stops.
THEOREM CallersCancelNothing == Spec => []OnlyTheStopCancels
<1>1. IInv => OnlyTheStopCancels
  BY DEF IInv
<1> QED
  BY <1>1, Inductive, PTL

\* When the database closes, every run that was started before the stop began is
\* over, or the stop fails and names it: what goes on unnamed was started later.
THEOREM WhatRunsIsNamed == Spec => []ClosedNamesWhatRuns
<1>1. IInv => ClosedNamesWhatRuns
  BY DEF IInv
<1> QED
  BY <1>1, Inductive, PTL
=============================================================================
