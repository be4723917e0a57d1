------------------------- MODULE NetService_proofs -------------------------
(***************************************************************************)
(* Proofs of NetService's safety properties for any number of loops, of    *)
(* rounds, of connections and of posts.                                    *)
(***************************************************************************)
EXTENDS NetService, TLAPS

(***************************************************************************)
(* The inductive invariant.  Most of it says what is true while Main is in *)
(* a stage of its life: which threads it has started, broken and joined,   *)
(* and what Init made and UnInit has freed.                                *)
(***************************************************************************)

AfterJoin == {"stopEmbassy", "uninit", "destroy", "exited"}
Torn == {"destroy", "exited"}

\* k counts in a "for" over the loops, and only there.
Counting ==
  /\ k \in Index
  /\ mainPc \notin {"start", "break", "join"} => k = 0
  /\ mainPc \in {"init", "start", "wait"} => round < Rounds

\* Threads are started in order, one for each loop, and joined in order.
Threads ==
  /\ mainPc = "init" => \A i \in Index : loop[i] = "none"
  /\ mainPc = "start" => \A i \in Index : loop[i] = "none" <=> i >= k
  /\ mainPc \notin {"init", "start"} => \A i \in Index : loop[i] # "none"
  /\ mainPc = "join" => \A i \in Index : i < k => loop[i] = "exited"
  /\ mainPc \in AfterJoin => \A i \in Index : loop[i] = "exited"

\* Init made everything but, if it failed, the listener.
Making ==
  IF mainPc = "init"
  THEN made = {} /\ ~listening
  ELSE Bases \cup Holds \cup {Signal} \subseteq made

\* The members lead to what Init made until UnInit frees it and resets them; a lone
\* signal event has no member to lead to it.
Freeing ==
  /\ mainPc \notin Torn => \A r \in Resource : frees[r] = 0
  /\ mainPc = "init" => pointers = {}
  /\ mainPc \notin Torn \cup {"init"} =>
       /\ "bases" \in pointers
       /\ "hold" \in pointers <=> N > 1
       /\ "listener" \in pointers <=> Listener \in made
  /\ mainPc \in Torn =>
       /\ pointers = {}
       /\ \A r \in Resource : frees[r] <= 1
       /\ \A r \in made : frees[r] = 1 \/ (r = Signal /\ N = 1)

\* The listener is enabled only before Stop.
Listening == listening => mainPc \in {"start", "wait", "disable"}

\* Where base i comes in a turn of the listener: Init's own increment makes 1 the first.
Turn(i) == IF i = 0 THEN N - 1 ELSE i - 1

Ahead(i) == IF Turn(i) < Turn(eBaseIndex) THEN 1 ELSE 0

\* While the listener is on, the bases that have had their turn are one ahead.
EvenLoad ==
  /\ mainPc = "init" => eBaseIndex = 0 /\ \A i \in Index : assigned[i] = 0
  /\ listening => \A i, j \in Index : assigned[i] - Ahead(i) = assigned[j] - Ahead(j)

IInv ==
  /\ TypeOK
  /\ Counting
  /\ Threads
  /\ Making
  /\ Freeing
  /\ HeldOpen
  /\ Listening
  /\ EvenLoad
  /\ Balanced

USE NAssumption, BoundAssumption
USE DEF AfterJoin, Torn, Index, mainVars, loopVars, quitVars, resVars, connVars

-----------------------------------------------------------------------------
(* Lemmas about the pieces that several actions share *)

\* The things that Init makes are told apart by their names.
LEMMA Resources ==
  /\ \A i \in Index : <<"base", i>> \in Resource
  /\ \A i \in Index \ {0} : <<"hold", i>> \in Resource
  /\ Signal \in Resource /\ Listener \in Resource
  /\ Signal \notin Bases \cup Holds \cup {Listener}
  /\ Listener \notin Bases \cup Holds \cup {Signal}
  /\ Bases \cap Holds = {}
  /\ N = 1 => Holds = {}
BY DEF Resource, Bases, Holds, Signal, Listener

\* A part of the invariant holds on while nothing that it speaks of changes.
LEMMA Frame ==
  ASSUME IInv
  PROVE  /\ UNCHANGED <<mainPc, k, round>> => Counting'
         /\ UNCHANGED <<mainPc, k, loop>> => Threads'
         /\ UNCHANGED <<mainPc, made, listening>> => Making'
         /\ UNCHANGED <<mainPc, made, frees, pointers>> => Freeing'
         /\ UNCHANGED <<loop, break>> => HeldOpen'
         /\ UNCHANGED <<mainPc, listening>> => Listening'
         /\ UNCHANGED <<mainPc, listening, eBaseIndex, assigned>> => EvenLoad'
         /\ UNCHANGED assigned => Balanced'
<1>1. UNCHANGED <<mainPc, k, round>> => Counting'
  BY DEF IInv, Counting
<1>2. UNCHANGED <<mainPc, k, loop>> => Threads'
  BY DEF IInv, Threads
<1>3. UNCHANGED <<mainPc, made, listening>> => Making'
  BY DEF IInv, Making
<1>4. UNCHANGED <<mainPc, made, frees, pointers>> => Freeing'
  BY DEF IInv, Freeing
<1>5. UNCHANGED <<loop, break>> => HeldOpen'
  BY DEF IInv, HeldOpen
<1>6. UNCHANGED <<mainPc, listening>> => Listening'
  BY DEF IInv, Listening
<1>7. UNCHANGED <<mainPc, listening, eBaseIndex, assigned>> => EvenLoad'
  BY DEF IInv, EvenLoad, Ahead
<1>8. UNCHANGED assigned => Balanced'
  BY DEF IInv, Balanced
<1> QED
  BY <1>1, <1>2, <1>3, <1>4, <1>5, <1>6, <1>7, <1>8

\* While the threads run, an event that is not a connection's is in every loop.
LEMMA LoopsHaveEvents ==
  ASSUME IInv, mainPc \notin Torn \cup {"init"}, NEW i \in Index
  PROVE  HasEvents(i)
<1>1. CASE i = 0
  <2>1. Signal \in made /\ frees[Signal] = 0
    BY Resources DEF IInv, Making, Freeing
  <2> QED
    BY <1>1, <2>1 DEF HasEvents, Signal
<1>2. CASE i # 0
  <2>1. <<"hold", i>> \in made /\ frees[<<"hold", i>>] = 0
    BY <1>2, Resources DEF IInv, Making, Freeing, Holds
  <2> QED
    BY <2>1 DEF HasEvents
<1> QED
  BY <1>1, <1>2

\* The listener's turn goes round.
LEMMA NextIndexWraps ==
  ASSUME eBaseIndex \in Index
  PROVE  NextIndex = IF eBaseIndex + 1 < N THEN eBaseIndex + 1 ELSE 0
BY DEF NextIndex

-----------------------------------------------------------------------------
(* Init *)

\* Everything Init makes can be found by a member, except a lone signal event.
LEMMA InitLoopsInv ==
  ASSUME IInv, InitListens \/ InitFails
  PROVE  IInv'
<1> USE DEF InitListens, InitFails, InitLoops, HoldsMade
<1>1. TypeOK'
  <2>1. eBaseIndex' \in Index
    BY DEF IInv, TypeOK
  <2>2. made' \subseteq Resource
    BY DEF IInv, TypeOK, Resource
  <2>3. pointers' \subseteq {"bases", "hold", "threads", "listener"}
    OBVIOUS
  <2> QED
    BY <2>1, <2>2, <2>3 DEF IInv, TypeOK
<1>2. Counting' /\ Threads'
  BY DEF IInv, Counting, Threads, TypeOK
<1>3. Making'
  BY DEF Making
<1>4. Freeing'
  BY Resources DEF IInv, Freeing
<1>5. Listening'
  BY DEF Listening
<1>6. EvenLoad'
  <2>1. \A i \in Index : assigned'[i] = 0
    BY DEF IInv, EvenLoad
  <2>2. listening' => \A i \in Index : Ahead(i)' = 0
    BY DEF IInv, EvenLoad, Ahead, Turn
  <2> QED
    BY <2>1, <2>2 DEF EvenLoad
<1> QED
  BY <1>1, <1>2, <1>3, <1>4, <1>5, <1>6, Frame DEF IInv

-----------------------------------------------------------------------------
(* The loops and their callbacks *)

\* A loop that begins has not ended.
LEMMA EnterLoopInv ==
  ASSUME IInv, NEW i \in Index, EnterLoop(i),
         UNCHANGED <<mainVars, quitVars, listening, resVars, connVars>>
  PROVE  IInv'
<1>1. TypeOK'
  BY DEF EnterLoop, IInv, TypeOK
<1>2. Threads'
  BY DEF EnterLoop, IInv, TypeOK, Threads
<1>3. HeldOpen'
  BY DEF EnterLoop, IInv, TypeOK, HeldOpen
<1> QED
  BY <1>1, <1>2, <1>3, Frame DEF IInv

\* A loop that ends has been broken, for it has events.
LEMMA LeaveLoopInv ==
  ASSUME IInv, NEW i \in Index, LeaveLoop(i),
         UNCHANGED <<mainVars, quitVars, listening, resVars, connVars>>
  PROVE  IInv'
<1>1. TypeOK'
  BY DEF LeaveLoop, IInv, TypeOK
<1>2. mainPc \notin Torn \cup {"init"}
  BY DEF LeaveLoop, IInv, Threads
<1>3. Threads'
  BY DEF LeaveLoop, IInv, TypeOK, Threads
<1>4. HeldOpen'
  BY <1>2, LoopsHaveEvents DEF LeaveLoop, IInv, TypeOK, HeldOpen
<1> QED
  BY <1>1, <1>3, <1>4, Frame DEF IInv

\* A connection goes to the base whose turn it is.
LEMMA AcceptInv ==
  ASSUME IInv, Accept
  PROVE  IInv'
<1>1. eBaseIndex' = IF eBaseIndex + 1 < N THEN eBaseIndex + 1 ELSE 0
  BY NextIndexWraps DEF Accept, IInv, TypeOK
<1>2. TypeOK'
  BY <1>1 DEF Accept, IInv, TypeOK
<1>3. mainPc # "init"
  BY DEF Accept, IInv, Listening
<1>4. \A i \in Index : Ahead(i) \in {0, 1} /\ Ahead(i)' \in {0, 1}
  BY DEF Ahead
<1>5. \A i, j \in Index :
        assigned'[i] - Ahead(i)' = assigned'[j] - Ahead(j)'
  <2> SUFFICES ASSUME NEW i \in Index, NEW j \in Index
               PROVE  assigned'[i] - Ahead(i)' = assigned'[j] - Ahead(j)'
    OBVIOUS
  <2>1. assigned[i] - Ahead(i) = assigned[j] - Ahead(j)
    BY DEF Accept, IInv, EvenLoad
  <2>2. CASE Turn(eBaseIndex) = N - 1
    <3>1. \A h \in Index : assigned'[h] - Ahead(h)' = assigned[h] - Ahead(h) + 1
      BY <1>1, <2>2 DEF Accept, IInv, TypeOK, Ahead, Turn
    <3> QED
      BY <2>1, <3>1 DEF IInv, TypeOK, Ahead
  <2>3. CASE Turn(eBaseIndex) # N - 1
    <3>1. Turn(eBaseIndex') = Turn(eBaseIndex) + 1
      BY <1>1, <2>3 DEF IInv, TypeOK, Turn
    <3>2. \A h \in Index : Turn(h) \in Nat /\ (h # eBaseIndex => Turn(h) # Turn(eBaseIndex))
      BY DEF IInv, TypeOK, Turn
    <3>3. eBaseIndex \in Index /\ Turn(eBaseIndex) \in Nat
      BY DEF IInv, TypeOK, Turn
    <3>4. \A h \in Index : Ahead(h)' = IF h = eBaseIndex THEN 1 ELSE Ahead(h)
      BY <3>1, <3>2, <3>3 DEF Ahead, Turn
    <3>5. Ahead(eBaseIndex) = 0
      BY <3>3 DEF Ahead
    <3>6. \A h \in Index : assigned'[h] - Ahead(h)' = assigned[h] - Ahead(h)
      BY <1>4, <3>4, <3>5 DEF Accept, IInv, TypeOK
    <3> QED
      BY <2>1, <3>6 DEF IInv, TypeOK, Ahead
  <2> QED
    BY <2>2, <2>3
<1>6. EvenLoad'
  BY <1>3, <1>5 DEF Accept, EvenLoad
<1>7. Balanced'
  <2>1. \A i \in Index : assigned'[i] \in Nat
    BY <1>2 DEF TypeOK
  <2> QED
    BY <1>4, <1>5, <2>1 DEF Balanced
<1> QED
  BY <1>2, <1>6, <1>7, Frame DEF Accept, IInv

\* Signals and posts touch nothing else.
LEMMA QuitInv ==
  ASSUME IInv, Sigint \/ SignalCb \/ Quit
  PROVE  IInv'
<1>1. sem' \in 0..MaxPost
  BY DEF Sigint, SignalCb, Quit, IInv, TypeOK
<1>2. sigint' \in BOOLEAN
  BY DEF Sigint, SignalCb, Quit, IInv, TypeOK
<1>3. TypeOK'
  BY <1>1, <1>2 DEF Sigint, SignalCb, Quit, IInv, TypeOK
<1> QED
  BY <1>3, Frame DEF Sigint, SignalCb, Quit, IInv

-----------------------------------------------------------------------------
(* Main *)

Others == UNCHANGED <<sigint, resVars, connVars>>

\* What Main does between Init and UnInit leaves the resources alone.
LEMMA StartToStopKeeps ==
  ASSUME IInv, Others, listening' = listening \/ listening' = FALSE,
         mainPc' \in {"start", "wait", "disable", "freeAll", "break", "join", "stopEmbassy", "uninit"},
         mainPc \in {"start", "wait", "disable", "freeAll", "break", "join", "stopEmbassy"}
  PROVE  Making' /\ Freeing' /\ EvenLoad' /\ Balanced'
<1>1. Making'
  BY DEF Others, IInv, Making
<1>2. Freeing'
  BY DEF Others, IInv, Freeing
<1>3. EvenLoad'
  BY DEF Others, IInv, EvenLoad, Ahead
<1>4. Balanced'
  BY Frame DEF Others
<1> QED
  BY <1>1, <1>2, <1>3, <1>4

\* The next thread is started.
LEMMA StartThreadInv ==
  ASSUME IInv, StartThread, Others
  PROVE  IInv'
<1> USE DEF StartThread, ForEachLoop, Others
<1>1. TypeOK'
  <2>1. k \in 0..(N - 1)
    BY DEF IInv, Counting
  <2>2. k' \in 0..N
    BY <2>1
  <2>3. mainPc' \in {"start", "wait"}
    OBVIOUS
  <2>4. loop' \in [Index -> {"none", "spawned", "looping", "exited"}]
    BY DEF IInv, TypeOK
  <2> QED
    BY <2>2, <2>3, <2>4 DEF IInv, TypeOK
<1>2. Counting'
  BY DEF IInv, TypeOK, Counting
<1>3. Threads'
  BY DEF IInv, TypeOK, Counting, Threads
<1>4. HeldOpen'
  BY DEF IInv, TypeOK, HeldOpen
<1>5. Listening'
  BY DEF IInv, Listening
<1>6. Making' /\ Freeing' /\ EvenLoad' /\ Balanced'
  BY StartToStopKeeps
<1> QED
  BY <1>1, <1>2, <1>3, <1>4, <1>5, <1>6 DEF IInv

\* Main wakes, or waits once more.
LEMMA WaitInv ==
  ASSUME IInv, Woken \/ Interrupted \/ TimedOut, Others
  PROVE  IInv'
<1> USE DEF Woken, Interrupted, TimedOut, Goto, Others
<1>1. TypeOK'
  <2>1. sem' \in 0..MaxPost /\ round' \in 0..Rounds
    BY DEF IInv, TypeOK, Counting
  <2> QED
    BY <2>1 DEF IInv, TypeOK
<1>2. Counting'
  BY DEF IInv, TypeOK, Counting
<1>3. Threads'
  BY DEF IInv, Threads
<1>4. HeldOpen'
  BY Frame
<1>5. Listening'
  BY DEF IInv, Listening
<1>6. Making' /\ Freeing' /\ EvenLoad' /\ Balanced'
  BY StartToStopKeeps
<1> QED
  BY <1>1, <1>2, <1>3, <1>4, <1>5, <1>6 DEF IInv

\* The steps of Stop that change no thread.
LEMMA StopInv ==
  ASSUME IInv, DisableListener \/ FreeAllDiplomat \/ StopEmbassy, Others
  PROVE  IInv'
<1> USE DEF DisableListener, FreeAllDiplomat, StopEmbassy, Goto, Others
<1>1. TypeOK'
  BY DEF IInv, TypeOK
<1>2. Counting'
  BY DEF IInv, TypeOK, Counting
<1>3. Threads'
  BY DEF IInv, Threads, Counting
<1>4. HeldOpen'
  BY Frame
<1>5. Listening'
  BY DEF IInv, Listening
<1>6. Making' /\ Freeing' /\ EvenLoad' /\ Balanced'
  BY StartToStopKeeps DEF IInv, TypeOK
<1> QED
  BY <1>1, <1>2, <1>3, <1>4, <1>5, <1>6 DEF IInv

\* The next loop is told to break.
LEMMA LoopBreakInv ==
  ASSUME IInv, LoopBreak, Others
  PROVE  IInv'
<1> USE DEF LoopBreak, ForEachLoop, Others, Breaks
<1>1. TypeOK'
  BY DEF IInv, TypeOK, Counting
<1>2. Counting'
  BY DEF IInv, TypeOK, Counting
<1>3. Threads'
  BY DEF IInv, TypeOK, Counting, Threads
<1>4. HeldOpen'
  BY DEF IInv, TypeOK, HeldOpen
<1>5. Listening'
  BY DEF IInv, Listening
<1>6. Making' /\ Freeing' /\ EvenLoad' /\ Balanced'
  BY StartToStopKeeps
<1> QED
  BY <1>1, <1>2, <1>3, <1>4, <1>5, <1>6 DEF IInv

\* The next thread is joined; after the last one all loops are done.
LEMMA JoinInv ==
  ASSUME IInv, Join, Others
  PROVE  IInv'
<1> USE DEF Join, ForEachLoop, Joined, Others
<1>1. TypeOK'
  BY DEF IInv, TypeOK, Counting
<1>2. Counting'
  BY DEF IInv, TypeOK, Counting
<1>3. Threads'
  BY DEF IInv, TypeOK, Counting, Threads
<1>4. HeldOpen'
  BY Frame
<1>5. Listening'
  BY DEF IInv, Listening
<1>6. Making' /\ Freeing' /\ EvenLoad' /\ Balanced'
  BY StartToStopKeeps
<1> QED
  BY <1>1, <1>2, <1>3, <1>4, <1>5, <1>6 DEF IInv

\* The first UnInit frees what the members lead to and resets them, the second finds
\* nothing.
LEMMA UnInitInv ==
  ASSUME IInv, UnInit
  PROVE  IInv'
<1> USE DEF UnInit, PointersLeft
<1>1. \A r \in Resource :
        frees'[r] = frees[r] + (IF r \in FreedByUnInit THEN 1 ELSE 0)
  OBVIOUS
<1>2. ASSUME mainPc = "uninit"
      PROVE  Freeing' /\ frees' \in [Resource -> 0..2]
  <2>1. \A r \in Resource : frees'[r] = IF r \in FreedByUnInit THEN 1 ELSE 0
    BY <1>1, <1>2 DEF IInv, Freeing
  <2>2. \A r \in made : r \in FreedByUnInit \/ (r = Signal /\ N = 1)
    <3> SUFFICES ASSUME NEW r \in made
                 PROVE  r \in FreedByUnInit \/ (r = Signal /\ N = 1)
      OBVIOUS
    <3>1. r \in Bases \cup Holds \cup {Signal, Listener}
      BY DEF IInv, TypeOK, Resource
    <3> QED
      BY <1>2, <3>1, Resources DEF IInv, Freeing, FreedByUnInit
  <2>3. made \subseteq Resource
    BY DEF IInv, TypeOK
  <2>4. \A r \in Resource : frees'[r] \in {0, 1}
    BY <2>1
  <2>5. \A r \in made : frees'[r] = 1 \/ (r = Signal /\ N = 1)
    BY <2>1, <2>2, <2>3
  <2>6. Freeing'
    BY <1>2, <2>4, <2>5 DEF Freeing
  <2>7. frees' \in [Resource -> 0..2]
    BY <2>4
  <2> QED
    BY <2>6, <2>7
<1>3. ASSUME mainPc = "destroy"
      PROVE  Freeing' /\ frees' \in [Resource -> 0..2]
  <2>1. FreedByUnInit = {}
    BY <1>3 DEF IInv, Freeing, FreedByUnInit
  <2>2. frees' = [r \in Resource |-> frees[r]]
    <3>1. frees \in [Resource -> 0..2]
      BY DEF IInv, TypeOK
    <3> QED
      BY <2>1, <3>1
  <2>3. frees' = frees
    BY <2>2 DEF IInv, TypeOK
  <2>4. Freeing'
    BY <1>3, <2>3 DEF IInv, Freeing
  <2> QED
    BY <2>3, <2>4 DEF IInv, TypeOK
<1>4. Freeing' /\ frees' \in [Resource -> 0..2]
  BY <1>2, <1>3
<1>5. TypeOK'
  BY <1>4 DEF IInv, TypeOK
<1>6. ~listening
  BY DEF IInv, Listening
<1>7. Counting' /\ Threads'
  BY DEF IInv, TypeOK, Counting, Threads
<1>8. Making' /\ Listening'
  BY <1>6 DEF IInv, Making, Listening
<1>9. EvenLoad'
  BY <1>6 DEF EvenLoad
<1> QED
  BY <1>4, <1>5, <1>7, <1>8, <1>9, Frame DEF IInv

-----------------------------------------------------------------------------
(* Theorems *)

\* Nothing has been made, nothing started.
LEMMA InitIInv == Init => IInv
<1> SUFFICES ASSUME Init
             PROVE  IInv
  OBVIOUS
<1>1. TypeOK
  <2>1. k \in 0..N /\ round \in 0..Rounds /\ sem \in 0..MaxPost /\ eBaseIndex \in Index
    BY DEF Init
  <2>2. assigned \in [Index -> 0..MaxConn] /\ frees \in [Resource -> 0..2]
    BY DEF Init
  <2>3. loop \in [Index -> {"none", "spawned", "looping", "exited"}] /\ break \in [Index -> BOOLEAN]
    BY DEF Init
  <2> QED
    BY <2>1, <2>2, <2>3 DEF Init, TypeOK
<1>2. Counting /\ Threads /\ Making /\ HeldOpen /\ Listening
  BY DEF Init, Counting, Threads, Making, HeldOpen, Listening
<1>3. Freeing
  BY DEF Init, Freeing
<1>4. EvenLoad /\ Balanced
  BY DEF Init, EvenLoad, Balanced
<1> QED
  BY <1>1, <1>2, <1>3, <1>4 DEF IInv

\* The invariant holds in every step.
LEMMA StepIInv == IInv /\ [Next]_vars => IInv'
<1> SUFFICES ASSUME IInv, [Next]_vars
             PROVE  IInv'
  OBVIOUS
<1>1. CASE InitListens \/ InitFails
  BY <1>1, InitLoopsInv
<1>2. CASE StartToStop \/ (TimedOut /\ Others)
  BY <1>2, StartThreadInv, WaitInv, StopInv, LoopBreakInv, JoinInv DEF StartToStop, Others
<1>3. CASE UnInit
  BY <1>3, UnInitInv
<1>4. CASE \E i \in Index : LoopStep(i)
  BY <1>4, EnterLoopInv, LeaveLoopInv DEF LoopStep
<1>5. CASE Accept
  BY <1>5, AcceptInv
<1>6. CASE Sigint \/ SignalCb \/ Quit
  BY <1>6, QuitInv
<1>7. CASE UNCHANGED vars
  <2>1. TypeOK'
    BY <1>7 DEF IInv, TypeOK, vars
  <2> QED
    BY <1>7, <2>1, Frame DEF vars, IInv
<1> QED
  BY <1>1, <1>2, <1>3, <1>4, <1>5, <1>6, <1>7 DEF Next, MainStep, Terminated, Others

\* ... and therefore always.
LEMMA InvariantHolds == Spec => []IInv
BY InitIInv, StepIInv, PTL DEF Spec

\* Every variable keeps its type: the index of the next base, the loop counters and the
\* semaphore stay in range.
THEOREM TypeCorrect == Spec => []TypeOK
<1>1. IInv => TypeOK
  BY DEF IInv
<1> QED
  BY <1>1, InvariantHolds, PTL

\* No loop runs dry, however many there are and whether or not the port is bound.
THEOREM LoopsHeldOpen == Spec => []HeldOpen
<1>1. IInv => HeldOpen
  BY DEF IInv
<1> QED
  BY <1>1, InvariantHolds, PTL

\* No base is freed, and the Embassy is not stopped, under a loop that runs or is still
\* to start.
THEOREM TeardownAfterLoops == Spec => []LoopsDoneBeforeTeardown
<1>1. IInv => LoopsDoneBeforeTeardown
  BY Resources DEF IInv, Threads, Freeing, LoopsDoneBeforeTeardown, TypeOK
<1> QED
  BY <1>1, InvariantHolds, PTL

\* With two loops or more, what Init made is freed once, by UnInit and the destructor
\* together.
THEOREM EverythingFreedOnce ==
  ASSUME N > 1
  PROVE  Spec => []FreedOnce
<1>1. IInv => FreedOnce
  BY DEF IInv, Freeing, FreedOnce
<1> QED
  BY <1>1, InvariantHolds, PTL

\* Whatever the number of loops, nothing is freed twice.
THEOREM NothingFreedTwice == Spec => [](\A r \in Resource : frees[r] <= 1)
<1>1. IInv => \A r \in Resource : frees[r] <= 1
  BY DEF IInv, Freeing
<1> QED
  BY <1>1, InvariantHolds, PTL

\* The loads of any two loops differ by one at most.
THEOREM LoadsBalanced == Spec => []Balanced
<1>1. IInv => Balanced
  BY DEF IInv
<1> QED
  BY <1>1, InvariantHolds, PTL
=============================================================================
