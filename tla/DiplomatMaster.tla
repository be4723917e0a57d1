--------------------------- MODULE DiplomatMaster --------------------------
(***************************************************************************)
(* diplomat_master.cpp: the connections of the server, shared by the       *)
(* threads that run the event loops and the main thread that stops them.   *)
(*                                                                         *)
(* A connection is named by the address of its bufferevent, which may be   *)
(* used again once the bufferevent is freed.  Each loop thread is in its   *)
(* loop ("idle"), in BuildDiplomat (the listener's loop only), or in a     *)
(* deferred callback.  One action is one stretch of code between two       *)
(* points where another thread can see or change what it works on.         *)
(* SmartPtr counts are kept as the set of the pointers that hold the       *)
(* object: the object is deleted when the last of them goes.               *)
(***************************************************************************)
EXTENDS Names, FiniteSets

CONSTANTS
  Bev,        \* addresses of bufferevents
  Loop,       \* event loops, each run by one EventThread
  Listener,   \* the loop that the connection listener belongs to
  Main,       \* the thread in NetService::Main
  Dic,        \* holder of a reference: the entry in _protocol_dic
  None

ASSUME ThreadAssumption ==
  /\ Listener \in Loop /\ Main \notin Loop /\ Dic \notin Loop
  /\ None \notin Loop \cup Bev \cup {Main}

VARIABLES
  \* libevent's view of a connection
  bev,           \* "free", "live", or "dying": freed while a callback is queued
  base,          \* the loop it belongs to
  reading,       \* bufferevents with EV_READ enabled
  writing,       \* bufferevents with a reply still to be written
  queued,        \* bufferevents with a deferred callback in their loop's queue
  readPending,   \* ... which shall call ReadCB
  eventPending,  \* ... which shall call EventCB with EOF or ERROR
  unread,        \* received data that RecvSomething has not been called for
  \* the objects of a connection
  protocolDic,   \* keys of _protocol_dic
  proRefs,       \* who holds the Protocol
  dipRefs,       \* who holds the Diplomat
  memo,          \* DefaultProtocol::_memo: NULL, or the state of its buffer
  withdrawn,     \* history: WithdrawDiplomat has been called
  diplomatId,    \* Diplomat::_id
  idsHeld,       \* names in use in _id_master
  \* threads
  mutex,         \* _mutex while it is held from one action to the next
  pc, cur,       \* where each loop thread is, and for which connection
  mainPc, mainCur, todo,   \* Stop and FreeAllDiplomat
  listening,     \* the listener is enabled
  broken         \* loops that have been told to break

evVars   == <<bev, base, reading, writing, queued, readPending, eventPending, unread>>
objVars  == <<protocolDic, proRefs, dipRefs, memo, withdrawn>>
idVars   == <<diplomatId, idsHeld>>
loopVars == <<pc, cur>>
mainVars == <<mutex, mainPc, mainCur, todo, listening, broken>>
vars     == <<evVars, objVars, idVars, loopVars, mainVars>>

BuildSteps == {"garrison", "register", "dropPro", "dropDip"}
ReadSteps  == {"readLookup", "recv", "recvDrop"}
EventSteps == {"eventLookup", "withdraw", "releaseId", "freeDrop"}
CallbackSteps == {"run"} \cup ReadSteps \cup EventSteps
FreeAllSteps  == {"freeEach", "freeAllRelease", "clear"}

TypeOK ==
  /\ bev \in [Bev -> {"free", "live", "dying"}] /\ base \in [Bev -> Loop \cup {None}]
  /\ reading \subseteq Bev /\ writing \subseteq Bev
  /\ queued \subseteq Bev /\ readPending \subseteq Bev
  /\ eventPending \subseteq Bev /\ unread \subseteq Bev /\ protocolDic \subseteq Bev
  /\ proRefs \in [Bev -> SUBSET (Loop \cup {Dic})]
  /\ dipRefs \in [Bev -> SUBSET {"local", "protocol"}]
  /\ memo \in [Bev -> {"NULL", "empty", "partial"}] /\ withdrawn \subseteq Bev
  /\ diplomatId \in [Bev -> 0..MaxIndex] /\ idsHeld \subseteq Num
  /\ mutex \in {None, Main}
  /\ pc \in [Loop -> {"idle", "exited"} \cup BuildSteps \cup CallbackSteps]
  /\ cur \in [Loop -> Bev \cup {None}]
  /\ mainPc \in {"serving", "disable", "freeAll", "break", "join", "joined"}
                  \cup FreeAllSteps
  /\ mainCur \in Bev \cup {None} /\ todo \subseteq Bev /\ listening \in BOOLEAN
  /\ broken \subseteq Loop

Init ==
  /\ bev = [b \in Bev |-> "free"] /\ base = [b \in Bev |-> None]
  /\ reading = {} /\ writing = {} /\ queued = {}
  /\ readPending = {} /\ eventPending = {} /\ unread = {} /\ protocolDic = {}
  /\ proRefs = [b \in Bev |-> {}] /\ dipRefs = [b \in Bev |-> {}]
  /\ memo = [b \in Bev |-> "NULL"] /\ withdrawn = {} /\ diplomatId = [b \in Bev |-> 0]
  /\ idsHeld = {} /\ mutex = None /\ pc = [l \in Loop |-> "idle"]
  /\ cur = [l \in Loop |-> None] /\ mainPc = "serving" /\ mainCur = None /\ todo = {}
  /\ listening = TRUE /\ broken = {}

Goto(l, step) == pc' = [pc EXCEPT ![l] = step]

-----------------------------------------------------------------------------
(* bufferevents (libevent) and the objects that own them *)

\* A deferred callback is queued or running, and holds the bufferevent.
Deferred(b) == b \in queued \/ \E l \in Loop : cur[l] = b /\ pc[l] \in CallbackSteps

\* bug: callbacks run inside the read event, under no deferral.
BevOptionsInline == {"CLOSE_ON_FREE"}

\* The options of bufferevent_socket_new in BuildDiplomat.
BevOptions == {"CLOSE_ON_FREE", "DEFER_CALLBACKS"}

\* bufferevent_free: no callback starts any more, and the memory goes with the
\* last deferred callback.
BuffereventFree(b) ==
  /\ bev' = [bev EXCEPT ![b] = IF Deferred(b) THEN "dying" ELSE "free"]
  /\ base' = IF Deferred(b) THEN base ELSE [base EXCEPT ![b] = None]
  /\ reading' = reading \ {b}
  /\ writing' = writing \ {b}
  /\ readPending' = readPending \ {b}
  /\ eventPending' = eventPending \ {b}
  /\ unread' = unread \ {b}
  /\ UNCHANGED queued

\* A DiplomatPtr goes; ~Diplomat frees the bufferevent.
DropDip(b, h) ==
  /\ dipRefs' = [dipRefs EXCEPT ![b] = @ \ {h}]
  /\ IF dipRefs[b] \subseteq {h} THEN BuffereventFree(b) ELSE UNCHANGED evVars

\* A ProtocolPtr goes; ~DefaultProtocol drops its memo and its Diplomat.
DropPro(b, h) ==
  /\ proRefs' = [proRefs EXCEPT ![b] = @ \ {h}]
  /\ \/ /\ ~(proRefs[b] \subseteq {h})
        /\ UNCHANGED <<memo, dipRefs, evVars>>
     \/ /\ proRefs[b] \subseteq {h}
        /\ memo' = [memo EXCEPT ![b] = "NULL"]
        /\ DropDip(b, "protocol")

-----------------------------------------------------------------------------
(* BuildDiplomat, called by the listener *)

\* bug: the name that is recorded as used is the one before the name issued.
IssueIdOffByOne(n) ==
  /\ FirstOutside(n, 1, idsHeld)
  /\ idsHeld' = idsHeld \cup {n - 1}

\* GetIdentity, as NamePool promises it: the smallest number not in use.
IssueId(n) ==
  /\ FirstOutside(n, 1, idsHeld)
  /\ idsHeld' = idsHeld \cup {n}

\* A connection is accepted; its bufferevent is enabled on loop l before the
\* protocol garrisons and before _protocol_dic knows it.
Accept(b, l) ==
  /\ pc[Listener] = "idle" /\ listening /\ bev[b] = "free"
  /\ bev' = [bev EXCEPT ![b] = "live"]
  /\ base' = [base EXCEPT ![b] = l]
  /\ reading' = reading \cup {b}
  /\ \E n \in Num :        \* bound
       /\ IssueId(n)
       /\ diplomatId' = [diplomatId EXCEPT ![b] = n]
  /\ dipRefs' = [dipRefs EXCEPT ![b] = {"local", "protocol"}]
  /\ proRefs' = [proRefs EXCEPT ![b] = {Listener}]
  /\ withdrawn' = withdrawn \ {b}
  /\ Goto(Listener, "garrison")
  /\ cur' = [cur EXCEPT ![Listener] = b]
  /\ UNCHANGED <<writing, queued, readPending, eventPending, unread,
                 protocolDic, memo, mainVars>>

\* bug: the base class's GarrisonDiplomat runs, which makes no memo.
NoMemo == "NULL"

NewMemo == "empty"

Garrison(l) ==
  /\ pc[l] = "garrison"
  /\ memo' = [memo EXCEPT ![cur[l]] = NewMemo]
  /\ Goto(l, "register")
  /\ UNCHANGED <<evVars, protocolDic, proRefs, dipRefs, withdrawn, idVars, cur, mainVars>>

\* The critical section.  An entry with this key would be replaced; that there
\* is none is NoStaleEntry.
Register(l) ==
  /\ pc[l] = "register" /\ mutex = None
  /\ protocolDic' = protocolDic \cup {cur[l]}
  /\ proRefs' = [proRefs EXCEPT ![cur[l]] = @ \cup {Dic}]
  /\ Goto(l, "dropPro")
  /\ UNCHANGED <<evVars, dipRefs, memo, withdrawn, idVars, cur, mainVars>>

\* pro goes out of scope; diplomat is used once more, for the printf.
BuildDropPro(l) ==
  /\ pc[l] = "dropPro" /\ DropPro(cur[l], l)
  /\ Goto(l, "dropDip")
  /\ UNCHANGED <<protocolDic, withdrawn, idVars, cur, mainVars>>

BuildDropDip(l) ==
  /\ pc[l] = "dropDip" /\ DropDip(cur[l], "local")
  /\ Goto(l, "idle")
  /\ cur' = [cur EXCEPT ![l] = None]
  /\ UNCHANGED <<protocolDic, proRefs, memo, withdrawn, idVars, mainVars>>

-----------------------------------------------------------------------------
(* Network events, seen by the loop of the bufferevent (libevent) *)

\* The loop reads the socket or notices its end only between callbacks.
Polls(b) == base[b] # None /\ pc[base[b]] = "idle"

\* Enough data for the low watermark has come in.
Receive(b) ==
  /\ Polls(b)
  /\ b \in reading
  /\ unread' = unread \cup {b}
  /\ readPending' = readPending \cup {b}
  /\ queued' = queued \cup {b}
  /\ UNCHANGED <<bev, base, reading, writing, eventPending, objVars, idVars, loopVars, mainVars>>

\* EOF or an error on one direction disables that direction.
Fail(b) ==
  /\ Polls(b)
  /\ \/ b \in reading /\ reading' = reading \ {b} /\ UNCHANGED writing
     \/ b \in writing /\ writing' = writing \ {b} /\ UNCHANGED reading
  /\ eventPending' = eventPending \cup {b}
  /\ queued' = queued \cup {b}
  /\ UNCHANGED <<bev, base, readPending, unread, objVars, idVars, loopVars, mainVars>>

\* The last of a reply has been written.
Flush(b) ==
  /\ Polls(b)
  /\ b \in writing
  /\ writing' = writing \ {b}
  /\ UNCHANGED <<bev, base, reading, queued, readPending, eventPending, unread,
                 objVars, idVars, loopVars, mainVars>>

\* The loop takes a deferred callback from its queue ...
RunDeferred(b) ==
  /\ Polls(b)
  /\ b \in queued
  /\ queued' = queued \ {b}
  /\ pc' = [pc EXCEPT ![base[b]] = "run"]
  /\ cur' = [cur EXCEPT ![base[b]] = b]
  /\ UNCHANGED <<bev, base, reading, writing, readPending, eventPending, unread,
                 objVars, idVars, mainVars>>

\* ... which calls ReadCB if that is pending, then EventCB if that is, ...
StartRead(l) ==
  /\ pc[l] = "run" /\ cur[l] \in readPending
  /\ readPending' = readPending \ {cur[l]}
  /\ Goto(l, "readLookup")
  /\ UNCHANGED <<bev, base, reading, writing, queued, eventPending, unread,
                 objVars, idVars, cur, mainVars>>

StartEvent(l) ==
  /\ pc[l] = "run" /\ cur[l] \notin readPending /\ cur[l] \in eventPending
  /\ eventPending' = eventPending \ {cur[l]}
  /\ Goto(l, "eventLookup")
  /\ UNCHANGED <<bev, base, reading, writing, queued, readPending, unread,
                 objVars, idVars, cur, mainVars>>

\* ... and then lets go of the bufferevent.
EndRun(l) ==
  /\ pc[l] = "run" /\ cur[l] \notin readPending \cup eventPending
  /\ \/ bev[cur[l]] = "live" /\ UNCHANGED <<bev, base>>
     \/ /\ bev[cur[l]] = "dying"
        /\ bev' = [bev EXCEPT ![cur[l]] = "free"]
        /\ base' = [base EXCEPT ![cur[l]] = None]
  /\ Goto(l, "idle")
  /\ cur' = [cur EXCEPT ![l] = None]
  /\ UNCHANGED <<reading, writing, queued, readPending, eventPending, unread,
                 objVars, idVars, mainVars>>

-----------------------------------------------------------------------------
(* ReadCB *)

\* bug: ReadCB works with a plain pointer and takes no reference.
ReadHolderNone(l) == {}

\* The ProtocolPtr in ReadCB.
ReadHolder(l) == {l}

ReadLookup(l) ==
  /\ pc[l] = "readLookup" /\ mutex = None /\ cur[l] \in protocolDic
  /\ proRefs' = [proRefs EXCEPT ![cur[l]] = @ \cup ReadHolder(l)]
  /\ Goto(l, "recv")
  /\ UNCHANGED <<evVars, protocolDic, dipRefs, memo, withdrawn, idVars, cur, mainVars>>

\* "bev had been free, abandon recv data"
AbandonRead(l) ==
  /\ pc[l] = "readLookup" /\ mutex = None /\ cur[l] \notin protocolDic
  /\ Goto(l, "run")
  /\ UNCHANGED <<evVars, objVars, idVars, cur, mainVars>>

\* bug: RecvSomething returns before it reads.
ReadByRecvNone(l) == {}

ReadByRecv(l) == {cur[l]}

\* RecvSomething takes the data into _memo, dispatches the commands that are
\* complete, which may write a reply, and keeps what is left.
Recv(l) ==
  /\ pc[l] = "recv"
  /\ unread' = unread \ ReadByRecv(l)
  /\ writing' \in {writing, writing \cup {cur[l]}}
  /\ \E m \in {"empty", "partial"} : memo' = [memo EXCEPT ![cur[l]] = m]
  /\ Goto(l, "recvDrop")
  /\ UNCHANGED <<bev, base, reading, queued, readPending, eventPending,
                 protocolDic, proRefs, dipRefs, withdrawn, idVars, cur, mainVars>>

RecvDrop(l) ==
  /\ pc[l] = "recvDrop" /\ DropPro(cur[l], l)
  /\ Goto(l, "run")
  /\ UNCHANGED <<protocolDic, withdrawn, idVars, cur, mainVars>>

-----------------------------------------------------------------------------
(* EventCB with EOF or ERROR: FreeDiplomat *)

\* bug: the pointer is moved out of the entry, but the key stays.
ErasedNone(l) == {}

Erased(l) == {cur[l]}

EventLookup(l) ==
  /\ pc[l] = "eventLookup" /\ mutex = None /\ cur[l] \in protocolDic
  /\ protocolDic' = protocolDic \ Erased(l)
  /\ proRefs' = [proRefs EXCEPT ![cur[l]] = (@ \ {Dic}) \cup {l}]
  /\ Goto(l, "withdraw")
  /\ UNCHANGED <<evVars, dipRefs, memo, withdrawn, idVars, cur, mainVars>>

EventMiss(l) ==
  /\ pc[l] = "eventLookup" /\ mutex = None /\ cur[l] \notin protocolDic
  /\ Goto(l, "run")
  /\ UNCHANGED <<evVars, objVars, idVars, cur, mainVars>>

\* WithdrawDiplomat empties the receive buffer.
WithdrawDiplomat(b) ==
  /\ memo' = [memo EXCEPT ![b] = "empty"]
  /\ withdrawn' = withdrawn \cup {b}

FreeWithdraw(l) ==
  /\ pc[l] = "withdraw" /\ WithdrawDiplomat(cur[l])
  /\ Goto(l, "releaseId")
  /\ UNCHANGED <<evVars, protocolDic, proRefs, dipRefs, idVars, cur, mainVars>>

FreeReleaseId(l) ==
  /\ pc[l] = "releaseId"
  /\ idsHeld' = idsHeld \ {diplomatId[cur[l]]}
  /\ Goto(l, "freeDrop")
  /\ UNCHANGED <<evVars, objVars, diplomatId, cur, mainVars>>

FreeDrop(l) ==
  /\ pc[l] = "freeDrop" /\ DropPro(cur[l], l)
  /\ Goto(l, "run")
  /\ UNCHANGED <<protocolDic, withdrawn, idVars, cur, mainVars>>

-----------------------------------------------------------------------------
(* NetService::Stop, FreeAllDiplomat *)

Stop ==
  /\ mainPc = "serving"
  /\ mainPc' = "disable"
  /\ UNCHANGED <<evVars, objVars, idVars, loopVars, mutex, mainCur, todo, listening, broken>>

\* bug: Stop goes on while the listener's callback still runs.
ListenerReadyAlways == TRUE

ListenerReady == pc[Listener] \notin BuildSteps

\* evconnlistener_disable calls event_del, which waits for a callback of the listener's
\* event that runs on another thread.
DisableListener ==
  /\ mainPc = "disable"
  /\ ListenerReady
  /\ listening' = FALSE
  /\ mainPc' = "freeAll"
  /\ UNCHANGED <<evVars, objVars, idVars, loopVars, mutex, mainCur, todo, broken>>

\* bug: FreeAllDiplomat does not lock _mutex ...
FreeAllHolderNone == None

FreeAllHolder == Main

\* bug: ... or clears the entries without a word to the protocols.
FreeAllTodoNone == {}

FreeAllTodo == protocolDic

FreeAllLock ==
  /\ mainPc = "freeAll" /\ mutex = None
  /\ mutex' = FreeAllHolder
  /\ todo' = FreeAllTodo
  /\ mainPc' = "freeEach"
  /\ UNCHANGED <<evVars, objVars, idVars, loopVars, mainCur, listening, broken>>

FreeAllWithdraw(b) ==
  /\ mainPc = "freeEach" /\ b \in todo
  /\ WithdrawDiplomat(b)
  /\ mainCur' = b
  /\ mainPc' = "freeAllRelease"
  /\ UNCHANGED <<evVars, protocolDic, proRefs, dipRefs, idVars, loopVars,
                 mutex, todo, listening, broken>>

FreeAllReleaseId ==
  /\ mainPc = "freeAllRelease"
  /\ idsHeld' = idsHeld \ {diplomatId[mainCur]}
  /\ todo' = todo \ {mainCur}
  /\ mainCur' = None
  /\ mainPc' = "freeEach"
  /\ UNCHANGED <<evVars, objVars, diplomatId, loopVars, mutex, listening, broken>>

\* With callbacks that run inside the read event, bufferevent_free would wait
\* in event_del for a callback of this bufferevent to return.
EventDelWaits(b) ==
  "DEFER_CALLBACKS" \notin BevOptions
    /\ \E l \in Loop : cur[l] = b /\ pc[l] \in CallbackSteps

\* _protocol_dic.clear(), one entry at a time, still under _mutex.
FreeAllClear(b) ==
  /\ mainPc \in {"freeEach", "clear"} /\ todo = {} /\ b \in protocolDic
  /\ ~EventDelWaits(b)
  /\ protocolDic' = protocolDic \ {b}
  /\ DropPro(b, Dic)
  /\ mainPc' = "clear"
  /\ UNCHANGED <<withdrawn, idVars, loopVars, mutex, mainCur, todo, listening, broken>>

FreeAllUnlock ==
  /\ mainPc \in {"freeEach", "clear"} /\ todo = {} /\ protocolDic = {}
  /\ mutex' = None
  /\ mainPc' = "break"
  /\ UNCHANGED <<evVars, objVars, idVars, loopVars, mainCur, todo, listening, broken>>

LoopBreak(l) ==
  /\ mainPc = "break" /\ l \notin broken
  /\ broken' = broken \cup {l}
  /\ mainPc' = IF broken' = Loop THEN "join" ELSE "break"
  /\ UNCHANGED <<evVars, objVars, idVars, loopVars, mutex, mainCur, todo, listening>>

\* A loop looks at the break flag only between callbacks.
LoopExit(l) ==
  /\ pc[l] = "idle" /\ l \in broken
  /\ Goto(l, "exited")
  /\ UNCHANGED <<evVars, objVars, idVars, cur, mainVars>>

Join ==
  /\ mainPc = "join"
  /\ \A l \in Loop : pc[l] = "exited"
  /\ mainPc' = "joined"
  /\ UNCHANGED <<evVars, objVars, idVars, loopVars, mutex, mainCur, todo, listening, broken>>

Terminated == mainPc = "joined" /\ UNCHANGED vars
-----------------------------------------------------------------------------
Build(l) == Garrison(l) \/ Register(l) \/ BuildDropPro(l) \/ BuildDropDip(l)

ReadCB(l) == ReadLookup(l) \/ AbandonRead(l) \/ Recv(l) \/ RecvDrop(l)

EventCB(l) ==
  EventLookup(l) \/ EventMiss(l) \/ FreeWithdraw(l) \/ FreeReleaseId(l) \/ FreeDrop(l)

\* What a loop thread does on its own, once it has begun.
LoopStep(l) ==
  Build(l) \/ StartRead(l) \/ StartEvent(l) \/ EndRun(l) \/ ReadCB(l) \/ EventCB(l)

FreeAllDiplomat ==
  \/ FreeAllLock \/ FreeAllReleaseId \/ FreeAllUnlock
  \/ \E b \in Bev : FreeAllWithdraw(b) \/ FreeAllClear(b)

MainStep == FreeAllDiplomat \/ Join \/ \E l \in Loop : LoopBreak(l)

Network(b) == Receive(b) \/ Fail(b) \/ Flush(b) \/ \E l \in Loop : Accept(b, l)

Next ==
  \/ \E b \in Bev : Network(b) \/ RunDeferred(b)
  \/ \E l \in Loop : LoopStep(l) \/ LoopExit(l)
  \/ Stop \/ DisableListener \/ MainStep
  \/ Terminated

Spec == Init /\ [][Next]_vars

(***************************************************************************)
(* Threads keep running: a loop thread that has begun a call finishes it,  *)
(* and so does Stop.  Deferred callbacks run from a FIFO queue and a loop  *)
(* looks at its break flag after every callback, so each of them gets its  *)
(* turn although the loop is taken by other callbacks in between (strong   *)
(* fairness); the same holds for the wait for the listener's callback,     *)
(* which is woken each time one returns.  The network owes nothing, and    *)
(* nobody is obliged to stop the server.                                   *)
(***************************************************************************)
Fairness ==
  /\ \A l \in Loop : WF_vars(LoopStep(l)) /\ SF_vars(LoopExit(l))
  /\ \A b \in Bev : SF_vars(RunDeferred(b))
  /\ SF_vars(DisableListener)
  /\ WF_vars(MainStep)

FairSpec == Spec /\ Fairness

-----------------------------------------------------------------------------
(* Safety *)

ProtocolSteps ==
  {"garrison", "register", "dropPro", "recv", "recvDrop", "withdraw", "releaseId", "freeDrop"}

\* A thread that works on a connection, whichever other thread frees it
\* meanwhile, finds its Protocol, Diplomat and bufferevent alive, and so does
\* FreeAllDiplomat for every entry of _protocol_dic.
NoUseAfterFree ==
  /\ \A l \in Loop :
       /\ pc[l] \in ProtocolSteps =>
            proRefs[cur[l]] # {} /\ dipRefs[cur[l]] # {} /\ bev[cur[l]] = "live"
       /\ pc[l] = "dropDip" => dipRefs[cur[l]] # {} /\ bev[cur[l]] = "live"
  /\ \A b \in protocolDic : proRefs[b] # {} /\ dipRefs[b] # {} /\ bev[b] = "live"

\* RecvSomething and WithdrawDiplomat find a memo, however early after the
\* bufferevent was enabled or late during Stop they are called: the assertion
\* at default_protocol.cpp:68, and the dereference at :322.
MemoReady ==
  /\ \A l \in Loop : pc[l] \in {"recv", "withdraw"} => memo[cur[l]] # "NULL"
  /\ \A b \in todo : memo[b] # "NULL"

\* The address of a new bufferevent is never a key left over from an earlier
\* connection, so BuildDiplomat never replaces a Protocol ("bev has got a
\* diplomat").
NoStaleEntry == pc[Listener] \in {"garrison", "register"} => cur[Listener] \notin protocolDic

\* Connections whose name must still be given back: registered ones that
\* FreeAllDiplomat has not passed yet, and those that a thread is about to
\* register or has taken out in order to free them.
OwnsId(b) ==
  \/ b \in protocolDic /\ (mainPc \in FreeAllSteps => b \in todo)
  \/ \E l \in Loop : cur[l] = b /\ pc[l] \in {"garrison", "register", "withdraw", "releaseId"}

\* No name is lost, none is given back twice, and no two connections that
\* still own their name have the same one, although the old Diplomat may
\* outlive the return of its name.
IdsAccounted ==
  /\ idsHeld = {diplomatId[b] : b \in {c \in Bev : OwnsId(c)}}
  /\ \A b, c \in Bev : OwnsId(b) /\ OwnsId(c) /\ diplomatId[b] = diplomatId[c] => b = c

\* When Stop returns, the loops' threads are done and every connection has been
\* let go: nothing was registered behind FreeAllDiplomat's back, and no thread
\* kept a reference.  A bufferevent may still wait for a deferred callback that
\* the broken loop will not run.
StopReleasesAll ==
  mainPc = "joined" =>
    /\ protocolDic = {} /\ idsHeld = {}
    /\ \A b \in Bev : proRefs[b] = {} /\ dipRefs[b] = {} /\ bev[b] # "live"

-----------------------------------------------------------------------------
(* Action properties *)

\* A Protocol is told to withdraw at most once, although EventCB and
\* FreeAllDiplomat may both want to free its connection ...
WithdrawOnce ==
  [][ \A b \in withdrawn :
        /\ ~ \E l \in Loop : cur[l] = b /\ FreeWithdraw(l)
        /\ ~ FreeAllWithdraw(b) ]_vars

\* ... and never deleted without having been told.
WithdrawnBeforeDeleted ==
  [][ \A b \in Bev : proRefs[b] # {} /\ proRefs'[b] = {} => b \in withdrawn ]_vars

-----------------------------------------------------------------------------
(* Refinement *)

Conn(b) ==
  IF bev[b] = "free" THEN "none"
  ELSE IF ~OwnsId(b) THEN "released"
  ELSE IF b \in withdrawn THEN "withdrawn"
  ELSE IF \E l \in Loop : cur[l] = b /\ pc[l] \in {"garrison", "register"} THEN "new"
  ELSE "registered"

Phase == IF listening THEN "up" ELSE IF mainPc = "joined" THEN "down" ELSE "stopping"

C == INSTANCE Connections WITH
  conn <- [b \in Bev |-> Conn(b)],
  name <- [b \in Bev |-> IF bev[b] # "free" /\ OwnsId(b) THEN diplomatId[b] ELSE 0],
  phase <- Phase

\* The threads together do what Connections says: each connection, whoever
\* frees it, is registered, withdrawn and released in this order and once,
\* before its address is used again, and Stop leaves none.
ConnectionsSpec == C!Spec

-----------------------------------------------------------------------------
(* Liveness *)

\* Data of a registered connection reaches RecvSomething, unless the server
\* stops or the connection is freed.
PendingReadIsServed ==
  \A b \in Bev : b \in readPending /\ b \in protocolDic ~> b \notin unread \/ mainPc # "serving"

\* A registered connection that has failed is freed.
EofIsFreed ==
  \A b \in Bev : b \in eventPending /\ b \in protocolDic ~> b \notin protocolDic

\* Stop never waits for ever: neither for the listener, nor for _mutex, nor for
\* a loop.
StopCompletes == mainPc = "disable" ~> mainPc = "joined"
=============================================================================
