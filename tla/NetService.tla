----------------------------- MODULE NetService ----------------------------
(***************************************************************************)
(* net_service.{h,cpp} and main.cpp: the life of the server.  Main starts  *)
(* one thread per event loop, waits on a semaphore, stops the loops, joins *)
(* their threads and frees what Init made; ~NetService frees once more.    *)
(* Loop 0 also runs the listener, which deals connections out to the       *)
(* loops, and the handler of SIGINT.  FreeAllDiplomat is one step here;    *)
(* DiplomatMaster has its inside.                                          *)
(***************************************************************************)
EXTENDS Integers, FiniteSets

CONSTANTS
  N,         \* concurrent_num
  Rounds,    \* how often Main waits: 10 in the code
  MaxConn,   \* bound: connections accepted
  MaxPost    \* bound: posts of the semaphore that nobody has taken yet

ASSUME NAssumption == N \in Nat \ {0}
ASSUME BoundAssumption == Rounds \in Nat \ {0} /\ MaxConn \in Nat /\ MaxPost \in Nat \ {0}

VARIABLES
  mainPc,     \* where the main thread is
  k,          \* its loop counter in Start and Stop
  round,      \* its loop counter in Main
  sem,        \* value of _signal
  sigint,     \* a SIGINT that loop 0 has not handled yet
  loop,       \* EventThread i: "none", "spawned", "looping", "exited"
  break,      \* event_break of base i
  listening,  \* the listener is enabled
  made,       \* what Init allocated
  frees,      \* how often each of these has been freed
  pointers,   \* members of NetService that are not NULL
  eBaseIndex, \* _e_base_index
  assigned    \* connections given to base i

mainVars == <<mainPc, k, round>>
loopVars == <<loop, break>>
quitVars == <<sem, sigint>>
resVars  == <<made, frees, pointers>>
connVars == <<eBaseIndex, assigned>>
vars == <<mainVars, loopVars, quitVars, listening, resVars, connVars>>

Index == 0..(N - 1)

\* What Init allocates: a base per loop, an event on each base but the first that
\* keeps its loop busy, the event for SIGINT, and the listener.
Bases == {<<"base", i>> : i \in Index}
Holds == {<<"hold", i>> : i \in 1..(N - 1)}
Signal == <<"signal", 0>>
Listener == <<"listener", 0>>
Resource == Bases \cup Holds \cup {Signal, Listener}

TypeOK ==
  /\ mainPc \in {"init", "start", "wait", "disable", "freeAll", "break", "join",
                 "stopEmbassy", "uninit", "destroy", "exited"}
  /\ k \in 0..N
  /\ round \in 0..Rounds
  /\ sem \in 0..MaxPost
  /\ sigint \in BOOLEAN
  /\ loop \in [Index -> {"none", "spawned", "looping", "exited"}]
  /\ break \in [Index -> BOOLEAN]
  /\ listening \in BOOLEAN
  /\ made \subseteq Resource
  /\ frees \in [Resource -> 0..2]
  /\ pointers \subseteq {"bases", "hold", "threads", "listener"}
  /\ eBaseIndex \in Index
  /\ assigned \in [Index -> 0..MaxConn]

Init ==
  /\ mainPc = "init" /\ k = 0 /\ round = 0
  /\ sem = 0 /\ sigint = FALSE
  /\ loop = [i \in Index |-> "none"]
  /\ break = [i \in Index |-> FALSE]
  /\ listening = FALSE
  /\ made = {} /\ frees = [r \in Resource |-> 0] /\ pointers = {}
  /\ eBaseIndex = 0
  /\ assigned = [i \in Index |-> 0]

-----------------------------------------------------------------------------
(* NetService::Init; main ignores what it returns *)

\* bug: the loop over the hold events ends one too early.
HoldsMade1Less == Holds \ {<<"hold", N - 1>>}

HoldsMade == Holds

InitLoops ==
  /\ mainPc = "init"
  /\ mainPc' = "start"
  /\ made' = Bases \cup HoldsMade \cup {Signal} \cup (IF listening' THEN {Listener} ELSE {})
  /\ pointers' = {"bases", "threads"} \cup (IF N > 1 THEN {"hold"} ELSE {})
                   \cup (IF listening' THEN {"listener"} ELSE {})
  /\ UNCHANGED <<k, round, quitVars, loopVars, frees, assigned>>

InitListens ==
  /\ listening' = TRUE
  /\ InitLoops
  /\ eBaseIndex' = (eBaseIndex + 1) % N

\* The port cannot be bound: Init returns early.
InitFails ==
  /\ listening' = FALSE
  /\ InitLoops
  /\ UNCHANGED eBaseIndex

-----------------------------------------------------------------------------
(* The threads of the loops *)

\* event_base_loop forgets a break that came before it.
EnterLoop(i) ==
  /\ loop[i] = "spawned"
  /\ loop' = [loop EXCEPT ![i] = "looping"]
  /\ break' = [break EXCEPT ![i] = FALSE]

\* An event other than those of connections keeps loop i from running dry.
HasEvents(i) == \E r \in made : r[1] \in {"hold", "signal"} /\ r[2] = i /\ frees[r] = 0

\* The loop ends when it is broken, or when no event is left in it.
LeaveLoop(i) ==
  /\ loop[i] = "looping"
  /\ break[i] \/ ~HasEvents(i)
  /\ loop' = [loop EXCEPT ![i] = "exited"]
  /\ UNCHANGED break

LoopStep(i) ==
  /\ EnterLoop(i) \/ LeaveLoop(i)
  /\ UNCHANGED <<mainVars, quitVars, listening, resVars, connVars>>

\* bug: the index is not wrapped ...
NextIndexNoModulo == eBaseIndex + 1

\* bug: ... or wraps to 1, as if the listener's loop took no connections.
NextIndexFromOne == IF eBaseIndex + 1 < N THEN eBaseIndex + 1 ELSE 1

NextIndex == (eBaseIndex + 1) % N

\* The listener's callback: round robin over the bases.
Accept ==
  /\ loop[0] = "looping"
  /\ listening
  /\ assigned[eBaseIndex] < MaxConn   \* bound
  /\ assigned' = [assigned EXCEPT ![eBaseIndex] = @ + 1]
  /\ eBaseIndex' = NextIndex
  /\ UNCHANGED <<mainVars, loopVars, quitVars, listening, resVars>>

\* Ctrl-C, while the handler that Init installed is in place.
Sigint ==
  /\ mainPc \notin {"init", "destroy", "exited"}
  /\ ~sigint
  /\ sigint' = TRUE
  /\ UNCHANGED <<mainVars, loopVars, sem, listening, resVars, connVars>>

\* signal_cb_fn, on loop 0, calls Quit ...
SignalCb ==
  /\ sigint
  /\ loop[0] = "looping"
  /\ sem < MaxPost                    \* bound
  /\ sigint' = FALSE
  /\ sem' = sem + 1
  /\ UNCHANGED <<mainVars, loopVars, listening, resVars, connVars>>

\* ... and so may any thread of the application.
Quit ==
  /\ mainPc # "exited"
  /\ sem < MaxPost                    \* bound
  /\ sem' = sem + 1
  /\ UNCHANGED <<mainVars, loopVars, sigint, listening, resVars, connVars>>

-----------------------------------------------------------------------------
(* NetService::Main: Start, wait, Stop, UnInit; then ~NetService *)

\* "for ( int i = 0; i < _concurrent_num; i ++ )": one round for k, then on to next.
ForEachLoop(step, next) ==
  /\ mainPc = step
  /\ IF k + 1 < N THEN k' = k + 1 /\ UNCHANGED mainPc ELSE k' = 0 /\ mainPc' = next

Goto(step, next) == mainPc = step /\ mainPc' = next /\ UNCHANGED k

StartThread ==
  /\ ForEachLoop("start", "wait")
  /\ loop' = [loop EXCEPT ![k] = "spawned"]
  /\ UNCHANGED <<round, sem, break, listening>>

\* sem_timedwait gets the semaphore ...
Woken ==
  /\ Goto("wait", "disable")
  /\ sem > 0
  /\ sem' = sem - 1
  /\ UNCHANGED <<round, loopVars, listening>>

\* ... or is interrupted by the signal ...
Interrupted ==
  /\ Goto("wait", "disable")
  /\ sigint
  /\ UNCHANGED <<round, sem, loopVars, listening>>

\* ... or times out: Main dumps the connections and waits again, so many times.
TimedOut ==
  /\ Goto("wait", IF round + 1 < Rounds THEN "wait" ELSE "disable")
  /\ sem = 0
  /\ round' = round + 1
  /\ UNCHANGED <<sem, loopVars, listening>>

DisableListener ==
  /\ Goto("disable", "freeAll")
  /\ listening' = FALSE
  /\ UNCHANGED <<round, sem, loopVars>>

FreeAllDiplomat == Goto("freeAll", "break") /\ UNCHANGED <<round, sem, loopVars, listening>>

\* bug: the last loop is forgotten.
BreaksAllButLast == k + 1 < N

Breaks == TRUE

LoopBreak ==
  /\ ForEachLoop("break", "join")
  /\ break' = [break EXCEPT ![k] = Breaks]
  /\ UNCHANGED <<round, sem, loop, listening>>

\* bug: join does not wait for the last thread.
JoinedButLast == k + 1 < N => loop[k] = "exited"

Joined == loop[k] = "exited"

Join ==
  /\ ForEachLoop("join", "stopEmbassy")
  /\ Joined
  /\ UNCHANGED <<round, sem, loopVars, listening>>

StopEmbassy == Goto("stopEmbassy", "uninit") /\ UNCHANGED <<round, sem, loopVars, listening>>

\* What the pointers that are not NULL lead UnInit to free; the signal event goes
\* together with the hold events, if there are any.
FreedByUnInit ==
  (IF "listener" \in pointers THEN {Listener} ELSE {})
    \cup (IF "hold" \in pointers THEN Holds \cup {Signal} ELSE {})
    \cup (IF "bases" \in pointers THEN Bases ELSE {})

\* bug: the pointers keep their values for the destructor to find.
PointersKept == pointers

\* "= NULL"
PointersLeft == {}

\* At the end of Main, and in the destructor.
UnInit ==
  /\ mainPc \in {"uninit", "destroy"}
  /\ frees' = [r \in Resource |-> frees[r] + (IF r \in FreedByUnInit THEN 1 ELSE 0)]
  /\ pointers' = PointersLeft
  /\ eBaseIndex' = 0
  /\ mainPc' = IF mainPc = "uninit" THEN "destroy" ELSE "exited"
  /\ UNCHANGED <<k, round, loopVars, quitVars, listening, made, assigned>>

Terminated == mainPc = "exited" /\ UNCHANGED vars
-----------------------------------------------------------------------------
StartToStop ==
  /\ \/ StartThread \/ Woken \/ Interrupted
     \/ DisableListener \/ FreeAllDiplomat \/ LoopBreak \/ Join \/ StopEmbassy
  /\ UNCHANGED <<sigint, resVars, connVars>>

MainStep == InitListens \/ InitFails \/ StartToStop \/ UnInit

Next ==
  \/ MainStep
  \/ TimedOut /\ UNCHANGED <<sigint, resVars, connVars>>
  \/ \E i \in Index : LoopStep(i)
  \/ Accept \/ Sigint \/ SignalCb \/ Quit
  \/ Terminated

Spec == Init /\ [][Next]_vars

(***************************************************************************)
(* Threads keep running, and a loop that has been told to break does.      *)
(* sem_timedwait returns when it is posted or interrupted; that it ever    *)
(* times out is not assumed.  Nobody is obliged to connect, to press       *)
(* Ctrl-C or to call Quit.                                                 *)
(***************************************************************************)
FairSpec ==
  /\ Spec
  /\ WF_vars(MainStep)
  /\ WF_vars(SignalCb)
  /\ \A i \in Index : WF_vars(LoopStep(i))

-----------------------------------------------------------------------------
(* Safety *)

\* No loop runs dry: the hold events and the signal event keep every loop in
\* event_base_dispatch until Stop breaks it, connections or not, and also when
\* Init has failed to bind the port.
HeldOpen == \A i \in Index : loop[i] = "exited" => break[i]

\* A base is never freed, and the Embassy never stopped, under a loop that runs
\* or is still to start: not by Main, nor by the destructor after it.
LoopsDoneBeforeTeardown ==
  /\ \A i \in Index : frees[<<"base", i>>] > 0 => loop[i] = "exited"
  /\ mainPc \in {"uninit", "destroy", "exited"} => \A i \in Index : loop[i] = "exited"

\* UnInit runs twice, at the end of Main and in the destructor: together they free all
\* that Init made, whatever Init came to, and nothing twice.
FreedOnce ==
  /\ \A r \in Resource : frees[r] <= 1
  /\ mainPc = "exited" => \A r \in made : frees[r] = 1

\* The listener spreads connections evenly: the loads differ by one at most.
Balanced == \A i, j \in Index : assigned[i] <= assigned[j] + 1

-----------------------------------------------------------------------------
(* What net_service.h says of Main *)

\* Quit ends Main.
QuitEndsMain == sem > 0 ~> mainPc = "exited"

-----------------------------------------------------------------------------
(* Liveness *)

\* When Quit is called or SIGINT arrives while Main waits and every loop dispatches, Main
\* comes to its end: Stop breaks every loop, joins every thread, and UnInit runs.
RunningServerStops ==
  /\ mainPc = "wait"
  /\ \A i \in Index : loop[i] = "looping"
  /\ sem > 0 \/ sigint
  ~> mainPc = "exited"
=============================================================================
