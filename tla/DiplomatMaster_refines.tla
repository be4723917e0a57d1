----------------------- MODULE DiplomatMaster_refines ----------------------
(***************************************************************************)
(* DiplomatMaster implements Connections: every step of its threads is a   *)
(* step of one connection, or of Stop, or nothing that Connections sees.   *)
(***************************************************************************)
EXTENDS DiplomatMaster_proofs

\* The number in the name that a connection still owns.
Name(b) == IF bev[b] # "free" /\ OwnsId(b) THEN diplomatId[b] ELSE 0

\* A connection that BuildDiplomat has not registered yet.
Coming(b) == \E l \in Loop : cur[l] = b /\ pc[l] \in {"garrison", "register"}

\* The steps of a thread that has a name to register or to give back.
OwningSteps == {"garrison", "register", "withdraw", "releaseId"}

\* Connections sees no change in a connection.
Same(b) == Conn(b)' = Conn(b) /\ Name(b)' = Name(b)

USE DEF BuildSteps, ReadSteps, EventSteps, CallbackSteps, FreeAllSteps,
        ProtocolSteps, evVars, objVars, idVars, loopVars, mainVars,
        NewMemo, ReadHolder, ReadByRecv, Erased, ListenerReady, FreeAllHolder, FreeAllTodo

-----------------------------------------------------------------------------
(* Lemmas about the refinement mapping *)

\* What Connections sees of a step is how it changes Conn, Name and Phase.
LEMMA Stutter ==
  ASSUME \A b \in Bev : Same(b), UNCHANGED Phase
  PROVE  UNCHANGED C!vars
BY DEF Same, Name, C!vars

\* A step that moves one connection on.
LEMMA Turns ==
  ASSUME NEW b \in Bev, NEW from, NEW to, Conn(b) = from, Conn(b)' = to,
         \A d \in Bev \ {b} : Same(d)
  PROVE  C!Turn(b, from, to)
BY DEF C!Turn, Same

\* Names and phase are part of the abstract state, too.
LEMMA NamesKept ==
  ASSUME \A b \in Bev : Name(b)' = Name(b)
  PROVE  UNCHANGED [b \in Bev |-> IF bev[b] # "free" /\ OwnsId(b) THEN diplomatId[b] ELSE 0]
BY DEF Name

\* A name is owned by a connection that is alive, through a reference that is held.
LEMMA OwnedIsLive ==
  ASSUME Inv, NEW b \in Bev, OwnsId(b)
  PROVE  proRefs[b] # {} /\ bev[b] = "live" /\ diplomatId[b] \in Num
<1>1. proRefs[b] # {}
  BY DEF Inv, Holders, OwnsId
<1>2. bev[b] = "live"
  BY <1>1 DEF Inv, Holders
<1>3. diplomatId[b] \in Num
  BY DEF Inv, TypeOK, IdsAccounted
<1> QED
  BY <1>1, <1>2, <1>3

\* A connection is built by the listener alone, and not registered meanwhile.
LEMMA ComingAlone ==
  ASSUME Inv, NEW b \in Bev, Coming(b)
  PROVE  /\ cur[Listener] = b /\ pc[Listener] \in {"garrison", "register"}
         /\ proRefs[b] = {Listener} /\ b \notin protocolDic /\ b \notin withdrawn
         /\ \A l \in Loop : cur[l] = b /\ pc[l] \in ProtocolSteps => l = Listener
<1>1. cur[Listener] = b /\ pc[Listener] \in {"garrison", "register"}
  BY DEF Inv, Places, Coming
<1>2. proRefs[b] = {Listener}
  BY <1>1, ThreadAssumption DEF Inv, Unregistered
<1>3. b \notin protocolDic
  BY <1>2, ThreadAssumption DEF Inv, Holders
<1>4. b \notin withdrawn
  BY <1>1, <1>2, <1>3, ThreadAssumption DEF Inv, Withdrawals
<1>5. \A l \in Loop : cur[l] = b /\ pc[l] \in ProtocolSteps => l = Listener
  BY <1>2 DEF Inv, Holders
<1> QED
  BY <1>1, <1>2, <1>3, <1>4, <1>5

\* A registered connection that FreeAllDiplomat has not come to.
LEMMA RegisteredConn ==
  ASSUME Inv, NEW b \in Bev, b \in protocolDic, mainPc \in FreeAllSteps => b \in todo,
         ~(mainPc = "freeAllRelease" /\ b = mainCur)
  PROVE  Conn(b) = "registered" /\ Name(b) = diplomatId[b] /\ OwnsId(b)
<1>1. OwnsId(b)
  BY DEF OwnsId
<1>2. ~Coming(b)
  BY ComingAlone
<1>3. b \notin withdrawn
  BY DEF Inv, Withdrawals
<1> QED
  BY <1>1, <1>2, <1>3, OwnedIsLive DEF Conn, Name, Coming

\* A thread keeps what Connections sees of a connection if it neither begins nor ends to
\* own its name, and does not free or reuse its address.
LEMMA Unseen ==
  ASSUME TypeOK, NEW b \in Bev, NEW l \in Loop, NEW step, Goto(l, step),
         \A m \in Loop \ {l} : cur'[m] = cur[m],
         \/ pc[l] \notin OwningSteps /\ step \notin OwningSteps
         \/ pc[l] = "garrison" /\ step = "register" /\ cur'[l] = cur[l],
         UNCHANGED protocolDic, UNCHANGED mainPc, UNCHANGED todo,
         bev'[b] = "free" <=> bev[b] = "free",
         UNCHANGED withdrawn, UNCHANGED diplomatId
  PROVE  Same(b)
<1>1. \A m \in Loop \ {l} : pc'[m] = pc[m]
  BY DEF TypeOK, Goto
<1>2. pc'[l] = step
  BY DEF TypeOK, Goto
<1>3. OwnsId(b)' <=> OwnsId(b)
  BY <1>1, <1>2 DEF OwnsId, OwningSteps
<1>4. Coming(b)' <=> Coming(b)
  BY <1>1, <1>2 DEF Coming, OwningSteps
<1> QED
  BY <1>3, <1>4 DEF Same, Conn, Name, Coming

\* A Protocol that goes while something else keeps the bufferevent does not free it.
LEMMA DropProKeeps ==
  ASSUME TypeOK, NEW b \in Bev, NEW h, DropPro(b, h), bev[b] = "live",
         Deferred(b) \/ ~(dipRefs[b] \subseteq {"protocol"})
  PROVE  \A d \in Bev : bev'[d] = "free" <=> bev[d] = "free"
BY DEF TypeOK, DropPro, DropDip, BuffereventFree

\* Whatever goes, only its own bufferevent is freed.
LEMMA DropProOthers ==
  ASSUME TypeOK, NEW b \in Bev, NEW h, DropPro(b, h)
  PROVE  \A d \in Bev \ {b} : bev'[d] = bev[d]
BY DEF TypeOK, DropPro, DropDip, BuffereventFree

-----------------------------------------------------------------------------
(* BuildDiplomat *)

\* A connection is accepted: it gets the smallest name that no other one owns.
LEMMA AcceptConnects ==
  ASSUME Inv, Inv', NEW b \in Bev, NEW l \in Loop, Accept(b, l)
  PROVE  C!Connect(b)
<1> USE ThreadAssumption
<1>1. PICK n \in Num : IssueId(n) /\ diplomatId' = [diplomatId EXCEPT ![b] = n]
  BY DEF Accept
<1>2. /\ pc' = [pc EXCEPT ![Listener] = "garrison"] /\ cur' = [cur EXCEPT ![Listener] = b]
      /\ bev' = [bev EXCEPT ![b] = "live"] /\ withdrawn' = withdrawn \ {b}
      /\ bev[b] = "free" /\ pc[Listener] = "idle" /\ listening
      /\ UNCHANGED protocolDic /\ UNCHANGED mainPc /\ UNCHANGED todo /\ UNCHANGED listening
  BY DEF Accept, Goto
<1>3. Conn(b) = "none"
  BY <1>2 DEF Conn
<1>4. OwnsId(b)' /\ Coming(b)' /\ b \notin withdrawn' /\ bev'[b] = "live"
  BY <1>2 DEF Inv, TypeOK, OwnsId, Coming
<1>5. Conn(b)' = "new" /\ Name(b)' = n
  BY <1>1, <1>4 DEF Inv, TypeOK, Conn, Name, Coming
<1>6. ASSUME NEW d \in Bev \ {b}
      PROVE  Same(d)
  <2>1. cur[Listener] = None
    BY <1>2 DEF Inv, Places
  <2>2. OwnsId(d)' <=> OwnsId(d)
    BY <1>2, <2>1 DEF Inv, TypeOK, OwnsId
  <2>3. Coming(d)' <=> Coming(d)
    BY <1>2, <2>1 DEF Inv, TypeOK, Coming
  <2>4. bev'[d] = bev[d] /\ (d \in withdrawn' <=> d \in withdrawn) /\ diplomatId'[d] = diplomatId[d]
    BY <1>1, <1>2 DEF Inv, TypeOK
  <2> QED
    BY <2>2, <2>3, <2>4 DEF Same, Conn, Name, Coming
<1>7. {Name(c) : c \in Bev} \ {0} = idsHeld
  <2>1. \A c \in Bev : IF OwnsId(c) THEN Name(c) = diplomatId[c] /\ diplomatId[c] # 0 ELSE Name(c) = 0
    BY OwnedIsLive DEF Name, Num
  <2> QED
    BY <2>1 DEF Inv, IdsAccounted
<1>8. C!FirstOutside(n, 1, {Name(c) : c \in Bev} \ {0})
  BY <1>1, <1>7 DEF IssueId, FirstOutside, C!FirstOutside
<1>9. C!Turn(b, "none", "new")
  BY <1>3, <1>5, <1>6, Turns
<1>10. [c \in Bev |-> Name(c)]' = [[c \in Bev |-> Name(c)] EXCEPT ![b] = n]
  BY <1>5, <1>6 DEF Same
<1>11. Phase = "up" /\ UNCHANGED Phase
  BY <1>2 DEF Phase
<1>12. n \in C!Num
  BY DEF Num, C!Num
<1> QED
  BY <1>8, <1>9, <1>10, <1>11, <1>12 DEF C!Connect, Name

\* GarrisonDiplomat is not seen.
LEMMA GarrisonUnseen ==
  ASSUME Inv, NEW l \in Loop, Garrison(l)
  PROVE  UNCHANGED C!vars
<1>1. \A b \in Bev : Same(b)
  BY Unseen DEF Inv, Garrison
<1> QED
  BY <1>1, Stutter DEF Garrison, Phase

\* The entry in _protocol_dic is what makes a connection registered.
LEMMA RegisterRegisters ==
  ASSUME Inv, Inv', NEW l \in Loop, NEW b \in Bev, b = cur[l], Register(l)
  PROVE  C!Register(b)
<1> USE ThreadAssumption
<1>1. /\ pc[l] = "register" /\ l = Listener /\ Coming(b)
      /\ mainPc \notin FreeAllSteps /\ todo = {}
  BY DEF Register, Inv, TypeOK, Places, Locking, Coming
<1>2. /\ pc' = [pc EXCEPT ![l] = "dropPro"] /\ protocolDic' = protocolDic \cup {b}
      /\ UNCHANGED cur /\ UNCHANGED mainPc /\ UNCHANGED todo /\ UNCHANGED bev
      /\ UNCHANGED withdrawn /\ UNCHANGED diplomatId /\ UNCHANGED listening
  BY DEF Register, Goto
<1>3. OwnsId(b)
  BY <1>1 DEF OwnsId
<1>4. b \notin withdrawn /\ bev[b] = "live"
  BY <1>1, <1>3, ComingAlone, OwnedIsLive
<1>5. Conn(b) = "new"
  BY <1>1, <1>3, <1>4 DEF Conn, Coming
<1>6. OwnsId(b)' /\ ~Coming(b)'
  <2>1. OwnsId(b)'
    BY <1>1, <1>2 DEF OwnsId
  <2>2. \A m \in Loop : pc'[m] \in {"garrison", "register"} => m = Listener
    BY DEF Inv, Places
  <2> QED
    BY <1>1, <1>2, <2>1, <2>2 DEF Coming, Inv, TypeOK
<1>7. Conn(b)' = "registered" /\ Name(b)' = Name(b)
  BY <1>2, <1>3, <1>4, <1>6 DEF Conn, Name, Coming
<1>8. ASSUME NEW d \in Bev \ {b}
      PROVE  Same(d)
  <2>1. OwnsId(d)' <=> OwnsId(d)
    BY <1>1, <1>2 DEF Inv, TypeOK, OwnsId
  <2>2. Coming(d)' <=> Coming(d)
    BY <1>1, <1>2 DEF Inv, TypeOK, Coming
  <2> QED
    BY <1>2, <2>1, <2>2 DEF Same, Conn, Name, Coming
<1>9. C!Turn(b, "new", "registered")
  BY <1>1, <1>5, <1>7, <1>8, Turns
<1>10. \A d \in Bev : Name(d)' = Name(d)
  BY <1>7, <1>8 DEF Same
<1> QED
  BY <1>2, <1>9, <1>10, NamesKept DEF C!Register, Phase

\* The builder's own references are not seen while the other one holds the bufferevent ...
LEMMA BuildDropProUnseen ==
  ASSUME Inv, NEW l \in Loop, BuildDropPro(l)
  PROVE  UNCHANGED C!vars
<1>1. PICK b \in Bev : b = cur[l]
  BY DEF BuildDropPro, Inv, TypeOK, Places
<1>2. "local" \in dipRefs[b] /\ bev[b] = "live"
  BY <1>1 DEF BuildDropPro, Inv, TypeOK, Holders
<1>3. \A d \in Bev : bev'[d] = "free" <=> bev[d] = "free"
  BY <1>1, <1>2, DropProKeeps DEF BuildDropPro, Inv
<1>4. \A d \in Bev : Same(d)
  BY <1>3, Unseen DEF Inv, BuildDropPro, OwningSteps
<1>5. UNCHANGED Phase
  BY DEF BuildDropPro, Phase
<1> QED
  BY <1>4, <1>5, Stutter

\* A connection that no name is owned for goes with its bufferevent.
LEMMA FreesOrStutters ==
  ASSUME NEW b \in Bev, ~OwnsId(b), ~OwnsId(b)', bev[b] # "free",
         \A d \in Bev \ {b} : Same(d), UNCHANGED Phase
  PROVE  C!Free(b) \/ UNCHANGED C!vars
<1>1. Conn(b) = "released" /\ Name(b) = 0 /\ Name(b)' = 0
  BY DEF Conn, Name
<1>2. CASE bev'[b] = "free"
  <2>1. Conn(b)' = "none"
    BY <1>2 DEF Conn
  <2>2. C!Turn(b, "released", "none")
    BY <1>1, <2>1, Turns
  <2>3. \A d \in Bev : Name(d)' = Name(d)
    BY <1>1 DEF Same
  <2> QED
    BY <2>2, <2>3, NamesKept DEF C!Free
<1>3. CASE bev'[b] # "free"
  <2>1. Conn(b)' = "released"
    BY <1>3 DEF Conn
  <2> QED
    BY <1>1, <2>1, Stutter DEF Same
<1> QED
  BY <1>2, <1>3

\* ... and free a connection that has been freed before it was built to its end.
LEMMA BuildDropDipFrees ==
  ASSUME Inv, Inv', NEW l \in Loop, NEW b \in Bev, b = cur[l], BuildDropDip(l)
  PROVE  C!Free(b) \/ UNCHANGED C!vars
<1>1. /\ Goto(l, "idle") /\ pc[l] = "dropDip" /\ cur' = [cur EXCEPT ![l] = None]
      /\ dipRefs' = [dipRefs EXCEPT ![b] = @ \ {"local"}]
      /\ IF dipRefs[b] \subseteq {"local"} THEN BuffereventFree(b) ELSE UNCHANGED evVars
      /\ UNCHANGED protocolDic /\ UNCHANGED mainPc /\ UNCHANGED todo
      /\ UNCHANGED withdrawn /\ UNCHANGED diplomatId /\ UNCHANGED listening
      /\ UNCHANGED proRefs
  BY DEF BuildDropDip, DropDip
<1>2. \A d \in Bev \ {b} : bev'[d] = bev[d]
  BY <1>1 DEF Inv, TypeOK, BuffereventFree
<1>3. \A m \in Loop \ {l} : cur'[m] = cur[m]
  BY <1>1 DEF Inv, TypeOK
<1>4. \A d \in Bev \ {b} : Same(d)
  BY <1>1, <1>2, <1>3, Unseen DEF Inv, OwningSteps
<1>5. UNCHANGED Phase
  BY <1>1 DEF Phase
<1>6. bev[b] = "live"
  BY <1>1 DEF Inv, TypeOK, Holders
<1>7. CASE dipRefs[b] \subseteq {"local"}
  <2>1. proRefs[b] = {} /\ proRefs'[b] = {}
    BY <1>1, <1>7 DEF Inv, Holders
  <2>2. ~OwnsId(b)
    BY <2>1, OwnedIsLive
  <2>3. ~OwnsId(b)'
    <3>1. b \notin protocolDic'
      BY <2>1 DEF Inv, Holders
    <3>2. \A m \in Loop : ~(cur'[m] = b /\ pc'[m] \in OwningSteps)
      BY <2>1 DEF Inv, Holders, OwningSteps
    <3> QED
      BY <3>1, <3>2 DEF OwnsId, OwningSteps
  <2> QED
    BY <1>4, <1>5, <1>6, <2>2, <2>3, FreesOrStutters
<1>8. CASE ~(dipRefs[b] \subseteq {"local"})
  <2>1. Same(b)
    BY <1>1, <1>3, <1>8, Unseen DEF Inv, OwningSteps
  <2> QED
    BY <1>4, <1>5, <2>1, Stutter
<1> QED
  BY <1>7, <1>8

-----------------------------------------------------------------------------
(* Network events and deferred callbacks *)

\* What libevent notices of a connection is not seen.
LEMMA NetworkUnseen ==
  ASSUME Inv, NEW b \in Bev, Receive(b) \/ Fail(b) \/ Flush(b)
  PROVE  UNCHANGED C!vars
<1>1. /\ UNCHANGED bev /\ UNCHANGED pc /\ UNCHANGED cur /\ UNCHANGED protocolDic
      /\ UNCHANGED mainPc /\ UNCHANGED todo /\ UNCHANGED withdrawn
      /\ UNCHANGED diplomatId /\ UNCHANGED listening
  BY DEF Receive, Fail, Flush
<1>2. \A d \in Bev : Same(d)
  BY <1>1 DEF Same, Conn, Name, OwnsId
<1> QED
  BY <1>1, <1>2, Stutter DEF Phase

LEMMA RunDeferredUnseen ==
  ASSUME Inv, NEW b \in Bev, RunDeferred(b)
  PROVE  UNCHANGED C!vars
<1>1. PICK l \in Loop : l = base[b]
  BY DEF RunDeferred, Polls, Inv, TypeOK
<1>2. Goto(l, "run") /\ pc[l] = "idle" /\ \A m \in Loop \ {l} : cur'[m] = cur[m]
  BY <1>1 DEF RunDeferred, Polls, Inv, TypeOK, Goto
<1>3. \A d \in Bev : Same(d)
  BY <1>2, Unseen DEF RunDeferred, Inv, OwningSteps
<1> QED
  BY <1>3, Stutter DEF RunDeferred, Phase

\* Where a callback is, and whether its references are gone, is not seen.
LEMMA CallbackUnseen ==
  ASSUME Inv, NEW l \in Loop,
         \/ StartRead(l) \/ StartEvent(l) \/ ReadLookup(l) \/ AbandonRead(l)
         \/ Recv(l) \/ EventMiss(l)
  PROVE  UNCHANGED C!vars
<1>1. PICK step : Goto(l, step) /\ step \notin OwningSteps
  BY DEF StartRead, StartEvent, ReadLookup, AbandonRead, Recv, EventMiss, OwningSteps
<1>2. /\ pc[l] \notin OwningSteps /\ UNCHANGED cur /\ UNCHANGED bev /\ UNCHANGED protocolDic
      /\ UNCHANGED mainPc /\ UNCHANGED todo /\ UNCHANGED withdrawn
      /\ UNCHANGED diplomatId /\ UNCHANGED listening
  BY DEF StartRead, StartEvent, ReadLookup, AbandonRead, Recv, EventMiss, OwningSteps
<1>3. \A d \in Bev : Same(d)
  BY <1>1, <1>2, Unseen DEF Inv
<1> QED
  BY <1>2, <1>3, Stutter DEF Phase

\* A callback's last reference to a Protocol leaves the bufferevent to the deferral.
LEMMA CallbackDropUnseen ==
  ASSUME Inv, NEW l \in Loop, RecvDrop(l) \/ FreeDrop(l)
  PROVE  UNCHANGED C!vars
<1>1. /\ pc[l] \in {"recvDrop", "freeDrop"} /\ Goto(l, "run") /\ DropPro(cur[l], l)
      /\ UNCHANGED cur /\ UNCHANGED protocolDic /\ UNCHANGED mainPc /\ UNCHANGED todo
      /\ UNCHANGED withdrawn /\ UNCHANGED diplomatId /\ UNCHANGED listening
  BY DEF RecvDrop, FreeDrop
<1>2. PICK b \in Bev : b = cur[l]
  BY <1>1 DEF Inv, TypeOK, Places
<1>3. bev[b] = "live" /\ Deferred(b)
  BY <1>1, <1>2 DEF Inv, Holders, Deferred
<1>4. \A d \in Bev : bev'[d] = "free" <=> bev[d] = "free"
  BY <1>1, <1>2, <1>3, DropProKeeps DEF Inv
<1>5. \A d \in Bev : Same(d)
  BY <1>1, <1>4, Unseen DEF Inv, OwningSteps
<1> QED
  BY <1>1, <1>5, Stutter DEF Phase

\* A deferred callback that outlives its connection frees the address.
LEMMA EndRunFrees ==
  ASSUME Inv, Inv', NEW l \in Loop, NEW b \in Bev, b = cur[l], EndRun(l)
  PROVE  C!Free(b) \/ UNCHANGED C!vars
<1>1. /\ Goto(l, "idle") /\ pc[l] = "run" /\ cur' = [cur EXCEPT ![l] = None]
      /\ UNCHANGED protocolDic /\ UNCHANGED mainPc /\ UNCHANGED todo
      /\ UNCHANGED withdrawn /\ UNCHANGED diplomatId /\ UNCHANGED listening
  BY DEF EndRun
<1>2. \/ bev[b] = "live" /\ UNCHANGED bev
      \/ bev[b] = "dying" /\ bev' = [bev EXCEPT ![b] = "free"]
  BY DEF EndRun
<1>3. \A d \in Bev \ {b} : bev'[d] = bev[d]
  BY <1>2 DEF Inv, TypeOK
<1>4. \A m \in Loop \ {l} : cur'[m] = cur[m]
  BY <1>1 DEF Inv, TypeOK
<1>5. \A d \in Bev \ {b} : Same(d)
  BY <1>1, <1>3, <1>4, Unseen DEF Inv, OwningSteps
<1>6. UNCHANGED Phase
  BY <1>1 DEF Phase
<1>7. CASE bev[b] = "live" /\ UNCHANGED bev
  <2>1. Same(b)
    BY <1>1, <1>4, <1>7, Unseen DEF Inv, OwningSteps
  <2> QED
    BY <1>5, <1>6, <2>1, Stutter
<1>8. CASE bev[b] = "dying" /\ bev' = [bev EXCEPT ![b] = "free"]
  <2>1. ~OwnsId(b)
    BY <1>8, OwnedIsLive
  <2>2. \A m \in Loop : ~(cur[m] = b /\ pc[m] \in OwningSteps) /\ b \notin protocolDic
    BY <1>8 DEF Inv, Holders, OwningSteps
  <2>3. ~OwnsId(b)'
    BY <1>1, <1>4, <2>2 DEF Inv, TypeOK, OwnsId, OwningSteps, Goto
  <2> QED
    BY <1>5, <1>6, <1>8, <2>1, <2>3, FreesOrStutters
<1> QED
  BY <1>2, <1>7, <1>8

-----------------------------------------------------------------------------
(* EventCB and FreeDiplomat *)

\* A loop that a name is still given back by works alone on its connection.
LEMMA FreeingAlone ==
  ASSUME Inv, NEW l \in Loop, NEW b \in Bev, b = cur[l], pc[l] \in {"withdraw", "releaseId"}
  PROVE  /\ proRefs[b] # {} /\ bev[b] = "live" /\ b \notin protocolDic /\ OwnsId(b)
         /\ ~Coming(b)
         /\ \A m \in Loop : cur[m] = b /\ pc[m] \in OwningSteps => m = l
         /\ b \in withdrawn <=> pc[l] = "releaseId"
<1>1. OwnsId(b) /\ b \notin protocolDic
  BY DEF OwnsId, Inv, Unregistered
<1>2. proRefs[b] # {} /\ bev[b] = "live" /\ l \in proRefs[b]
  BY <1>1, OwnedIsLive DEF Inv, Holders
<1>3. ~Coming(b)
  BY <1>2, ComingAlone, ThreadAssumption
<1>4. \A m \in Loop : cur[m] = b /\ pc[m] \in OwningSteps => m = l
  BY <1>3 DEF Inv, Places, Coming, OwningSteps
<1>5. b \in withdrawn <=> pc[l] = "releaseId"
  BY <1>1, <1>2, <1>4 DEF Inv, Withdrawals, OwningSteps
<1> QED
  BY <1>1, <1>2, <1>3, <1>4, <1>5

\* Who takes a registered connection out of _protocol_dic owns its name in its place.
LEMMA EventLookupUnseen ==
  ASSUME Inv, Inv', NEW l \in Loop, NEW b \in Bev, b = cur[l], EventLookup(l)
  PROVE  UNCHANGED C!vars
<1>1. /\ pc' = [pc EXCEPT ![l] = "withdraw"] /\ pc[l] = "eventLookup" /\ b \in protocolDic
      /\ protocolDic' = protocolDic \ {b} /\ mutex = None
      /\ UNCHANGED cur /\ UNCHANGED mainPc /\ UNCHANGED todo /\ UNCHANGED bev
      /\ UNCHANGED withdrawn /\ UNCHANGED diplomatId /\ UNCHANGED listening
  BY DEF EventLookup, Goto
<1>2. mainPc \notin FreeAllSteps
  BY <1>1, ThreadAssumption DEF Inv, Locking
<1>3. Conn(b) = "registered" /\ Name(b) = diplomatId[b] /\ OwnsId(b)
  BY <1>1, <1>2, RegisteredConn
<1>4. OwnsId(b)'
  BY <1>1 DEF Inv, TypeOK, OwnsId
<1>5. \A d \in Bev : Coming(d)' <=> Coming(d)
  BY <1>1 DEF Inv, TypeOK, Coming
<1>6. Same(b)
  BY <1>1, <1>3, <1>4, <1>5 DEF Same, Conn, Name, Coming
<1>7. ASSUME NEW d \in Bev \ {b}
      PROVE  Same(d)
  <2>1. OwnsId(d)' <=> OwnsId(d)
    BY <1>1 DEF Inv, TypeOK, OwnsId
  <2> QED
    BY <1>1, <1>5, <2>1 DEF Same, Conn, Name, Coming
<1> QED
  BY <1>1, <1>6, <1>7, Stutter DEF Phase

\* FreeDiplomat tells the Protocol.
LEMMA FreeWithdrawWithdraws ==
  ASSUME Inv, NEW l \in Loop, NEW b \in Bev, b = cur[l], FreeWithdraw(l)
  PROVE  C!Withdraw(b)
<1>1. /\ pc' = [pc EXCEPT ![l] = "releaseId"] /\ pc[l] = "withdraw"
      /\ withdrawn' = withdrawn \cup {b}
      /\ UNCHANGED cur /\ UNCHANGED mainPc /\ UNCHANGED todo /\ UNCHANGED bev
      /\ UNCHANGED protocolDic /\ UNCHANGED diplomatId /\ UNCHANGED listening
  BY DEF FreeWithdraw, Goto, WithdrawDiplomat
<1>2. \A d \in Bev : (OwnsId(d)' <=> OwnsId(d)) /\ (Coming(d)' <=> Coming(d))
  BY <1>1 DEF Inv, TypeOK, OwnsId, Coming
<1>3. bev[b] = "live" /\ OwnsId(b) /\ ~Coming(b) /\ b \notin withdrawn
  BY <1>1, FreeingAlone
<1>4. Conn(b) = "registered" /\ Conn(b)' = "withdrawn"
  BY <1>1, <1>2, <1>3 DEF Conn, Coming
<1>5. \A d \in Bev : Name(d)' = Name(d)
  BY <1>1, <1>2 DEF Name
<1>6. \A d \in Bev \ {b} : Same(d)
  BY <1>1, <1>2 DEF Same, Conn, Name, Coming
<1>7. C!Turn(b, "registered", "withdrawn")
  BY <1>4, <1>6, Turns
<1> QED
  BY <1>1, <1>5, <1>7, NamesKept DEF C!Withdraw, Phase

\* Who gives a name back owns it no longer, and the others own theirs.
LEMMA GivesBack ==
  ASSUME NEW b \in Bev, Conn(b) = "withdrawn", bev[b] # "free", UNCHANGED bev, ~OwnsId(b)',
         \A d \in Bev \ {b} : Same(d), UNCHANGED Phase
  PROVE  C!Release(b)
<1>1. Conn(b)' = "released" /\ Name(b)' = 0
  BY DEF Conn, Name
<1>2. C!Turn(b, "withdrawn", "released")
  BY <1>1, Turns
<1>3. [c \in Bev |-> Name(c)]' = [[c \in Bev |-> Name(c)] EXCEPT ![b] = 0]
  BY <1>1 DEF Same
<1> QED
  BY <1>2, <1>3 DEF C!Release, Name

\* FreeDiplomat gives the name back.
LEMMA FreeReleaseIdReleases ==
  ASSUME Inv, NEW l \in Loop, NEW b \in Bev, b = cur[l], FreeReleaseId(l)
  PROVE  C!Release(b)
<1>1. /\ pc' = [pc EXCEPT ![l] = "freeDrop"] /\ pc[l] = "releaseId"
      /\ UNCHANGED cur /\ UNCHANGED mainPc /\ UNCHANGED todo /\ UNCHANGED bev
      /\ UNCHANGED protocolDic /\ UNCHANGED diplomatId /\ UNCHANGED listening
      /\ UNCHANGED withdrawn
  BY DEF FreeReleaseId, Goto
<1>2. /\ bev[b] = "live" /\ OwnsId(b) /\ ~Coming(b) /\ b \in withdrawn /\ b \notin protocolDic
      /\ \A m \in Loop : cur[m] = b /\ pc[m] \in OwningSteps => m = l
  BY <1>1, FreeingAlone
<1>3. Conn(b) = "withdrawn"
  BY <1>2 DEF Conn
<1>4. ~OwnsId(b)'
  BY <1>1, <1>2 DEF Inv, TypeOK, OwnsId, OwningSteps
<1>5. \A d \in Bev \ {b} : (OwnsId(d)' <=> OwnsId(d)) /\ (Coming(d)' <=> Coming(d))
  BY <1>1 DEF Inv, TypeOK, OwnsId, Coming
<1>6. \A d \in Bev \ {b} : Same(d)
  BY <1>1, <1>5 DEF Same, Conn, Name, Coming
<1>7. UNCHANGED Phase
  BY <1>1 DEF Phase
<1> QED
  BY <1>1, <1>2, <1>3, <1>4, <1>6, <1>7, GivesBack

-----------------------------------------------------------------------------
(* NetService::Stop, FreeAllDiplomat *)

\* A registered connection is in no builder's hands, and in nobody's that has taken it out.
LEMMA RegisteredOwner ==
  ASSUME Inv, NEW b \in protocolDic
  PROVE  b \in Bev /\ bev[b] = "live" /\ \A l \in Loop : ~(cur[l] = b /\ pc[l] \in OwningSteps)
<1>1. b \in Bev /\ proRefs[b] # {} /\ bev[b] = "live"
  BY DEF Inv, TypeOK, Holders
<1>2. ~Coming(b)
  BY <1>1, ComingAlone
<1> QED
  BY <1>1, <1>2 DEF Inv, Unregistered, Coming, OwningSteps

\* A step of the main thread that registered connections do not notice is not seen.
LEMMA MainUnseen ==
  ASSUME UNCHANGED pc, UNCHANGED cur, UNCHANGED bev, UNCHANGED withdrawn, UNCHANGED diplomatId,
         UNCHANGED protocolDic,
         \A b \in protocolDic :
           (mainPc \in FreeAllSteps => b \in todo)' <=> (mainPc \in FreeAllSteps => b \in todo)
  PROVE  \A b \in Bev : Same(b)
<1>1. \A b \in Bev : OwnsId(b)' <=> OwnsId(b)
  BY DEF OwnsId
<1> QED
  BY <1>1 DEF Same, Conn, Name

LEMMA StopUnseen ==
  ASSUME Inv, Stop \/ FreeAllLock \/ FreeAllUnlock \/ \E l \in Loop : LoopBreak(l)
  PROVE  UNCHANGED C!vars
<1> USE DEF Stop, FreeAllLock, FreeAllUnlock, LoopBreak
<1>1. \A b \in Bev : Same(b)
  BY MainUnseen
<1>2. UNCHANGED Phase
  BY DEF Phase
<1> QED
  BY <1>1, <1>2, Stutter

\* The listener has returned: no connection is under way.
LEMMA DisableListenerStops ==
  ASSUME Inv, DisableListener
  PROVE  C!Stop \/ UNCHANGED C!vars
<1> USE DEF DisableListener
<1>1. \A b \in Bev : Same(b)
  BY MainUnseen
<1>2. CASE listening = TRUE
  <2>1. Phase = "up" /\ Phase' = "stopping"
    BY <1>2 DEF Phase
  <2>2. \A b \in Bev : Conn(b) # "new"
    <3>1. \A b \in Bev : ~Coming(b)
      BY ComingAlone
    <3> QED
      BY <3>1 DEF Conn, Coming
  <2>3. \A b \in Bev : Conn(b)' = Conn(b) /\ Name(b)' = Name(b)
    BY <1>1 DEF Same
  <2> QED
    BY <2>1, <2>2, <2>3, NamesKept DEF C!Stop
<1>3. CASE listening = FALSE
  <2>1. UNCHANGED Phase
    BY <1>3 DEF Phase
  <2> QED
    BY <1>1, <2>1, Stutter
<1> QED
  BY <1>2, <1>3 DEF Inv, TypeOK

\* FreeAllDiplomat tells a Protocol that nobody has told before ...
LEMMA FreeAllWithdrawWithdraws ==
  ASSUME Inv, NEW b \in Bev, FreeAllWithdraw(b)
  PROVE  C!Withdraw(b)
<1>1. /\ mainPc = "freeEach" /\ mainPc' = "freeAllRelease" /\ b \in todo /\ b \in protocolDic
      /\ withdrawn' = withdrawn \cup {b} /\ UNCHANGED pc
      /\ UNCHANGED cur /\ UNCHANGED todo /\ UNCHANGED bev
      /\ UNCHANGED protocolDic /\ UNCHANGED diplomatId /\ UNCHANGED listening
  BY DEF FreeAllWithdraw, WithdrawDiplomat, Inv, Locking
<1>2. \A d \in Bev : (OwnsId(d)' <=> OwnsId(d)) /\ (Coming(d)' <=> Coming(d))
  BY <1>1 DEF OwnsId, Coming
<1>3. Conn(b) = "registered" /\ OwnsId(b)
  BY <1>1, RegisteredConn
<1>4. Conn(b)' = "withdrawn"
  BY <1>1, <1>2, <1>3, OwnedIsLive DEF Conn
<1>5. \A d \in Bev : Name(d)' = Name(d)
  BY <1>1, <1>2 DEF Name
<1>6. \A d \in Bev \ {b} : Same(d)
  BY <1>1, <1>2 DEF Same, Conn, Name, Coming
<1>7. C!Turn(b, "registered", "withdrawn")
  BY <1>3, <1>4, <1>6, Turns
<1> QED
  BY <1>1, <1>5, <1>7, NamesKept DEF C!Withdraw, Phase

\* ... and gives its name back ...
LEMMA FreeAllReleaseIdReleases ==
  ASSUME Inv, NEW b \in Bev, b = mainCur, FreeAllReleaseId
  PROVE  C!Release(b)
<1>1. /\ mainPc = "freeAllRelease" /\ mainPc' = "freeEach" /\ b \in todo /\ b \in protocolDic
      /\ todo' = todo \ {b} /\ UNCHANGED pc
      /\ UNCHANGED cur /\ UNCHANGED bev /\ UNCHANGED withdrawn
      /\ UNCHANGED protocolDic /\ UNCHANGED diplomatId /\ UNCHANGED listening
  BY DEF FreeAllReleaseId, Inv, Locking
<1>2. b \in withdrawn /\ bev[b] = "live" /\ OwnsId(b)
  BY <1>1, RegisteredOwner DEF Inv, Withdrawals, OwnsId
<1>3. Conn(b) = "withdrawn"
  BY <1>2 DEF Conn
<1>4. ~OwnsId(b)'
  BY <1>1, RegisteredOwner DEF OwnsId, OwningSteps
<1>5. \A d \in Bev \ {b} : (OwnsId(d)' <=> OwnsId(d)) /\ (Coming(d)' <=> Coming(d))
  BY <1>1 DEF OwnsId, Coming
<1>6. \A d \in Bev \ {b} : Same(d)
  BY <1>1, <1>5 DEF Same, Conn, Name, Coming
<1>7. UNCHANGED Phase
  BY <1>1 DEF Phase
<1> QED
  BY <1>1, <1>2, <1>3, <1>4, <1>6, <1>7, GivesBack

\* ... and lets it go; its address is free unless a callback is still to run.
LEMMA FreeAllClearFrees ==
  ASSUME Inv, NEW b \in Bev, FreeAllClear(b)
  PROVE  C!Free(b) \/ UNCHANGED C!vars
<1>1. /\ mainPc \in {"freeEach", "clear"} /\ mainPc' = "clear" /\ todo = {} /\ b \in protocolDic
      /\ protocolDic' = protocolDic \ {b} /\ UNCHANGED pc
      /\ UNCHANGED cur /\ UNCHANGED todo /\ UNCHANGED withdrawn
      /\ UNCHANGED diplomatId /\ UNCHANGED listening /\ DropPro(b, Dic)
  BY DEF FreeAllClear
<1>2. \A d \in Bev \ {b} : bev'[d] = bev[d]
  BY <1>1, DropProOthers DEF Inv
<1>3. bev[b] = "live" /\ ~OwnsId(b) /\ ~OwnsId(b)'
  BY <1>1, RegisteredOwner DEF OwnsId, OwningSteps
<1>4. \A d \in Bev \ {b} : (OwnsId(d)' <=> OwnsId(d)) /\ (Coming(d)' <=> Coming(d))
  BY <1>1 DEF OwnsId, Coming
<1>5. \A d \in Bev \ {b} : Same(d)
  BY <1>1, <1>2, <1>4 DEF Same, Conn, Name, Coming
<1>6. UNCHANGED Phase
  BY <1>1 DEF Phase
<1> QED
  BY <1>3, <1>5, <1>6, FreesOrStutters

LEMMA LoopExitUnseen ==
  ASSUME Inv, NEW l \in Loop, LoopExit(l)
  PROVE  UNCHANGED C!vars
<1>1. \A b \in Bev : Same(b)
  BY Unseen DEF Inv, LoopExit, OwningSteps
<1> QED
  BY <1>1, Stutter DEF LoopExit, Phase

\* When all loops have exited nobody owns a name.
LEMMA JoinStops ==
  ASSUME Inv, Join
  PROVE  C!Stopped
<1> USE DEF Join
<1>1. listening = FALSE /\ protocolDic = {}
  BY DEF Inv, TypeOK, Stopping
<1>2. Phase = "stopping" /\ Phase' = "down"
  BY <1>1 DEF Phase
<1>3. \A b \in Bev : Conn(b) \in {"none", "released"}
  BY <1>1 DEF Conn, OwnsId
<1>4. \A b \in Bev : Same(b)
  BY <1>1, MainUnseen
<1>5. \A b \in Bev : Conn(b)' = Conn(b) /\ Name(b)' = Name(b)
  BY <1>4 DEF Same
<1> QED
  BY <1>2, <1>3, <1>5, NamesKept DEF C!Stopped

-----------------------------------------------------------------------------
(* Every behaviour is one of Connections *)

LEMMA InitConnections == Init => C!Init
BY DEF Init, C!Init, Conn, Phase

\* What one thread does in one step.
LEMMA LoopConnections ==
  ASSUME Inv, Inv', NEW l \in Loop, LoopStep(l)
  PROVE  [C!Next]_(C!vars)
<1>1. CASE Build(l)
  <2>1. PICK b \in Bev : b = cur[l]
    BY <1>1 DEF Build, Garrison, Register, BuildDropPro, BuildDropDip, Inv, TypeOK, Places
  <2> QED
    BY <1>1, <2>1, GarrisonUnseen, RegisterRegisters, BuildDropProUnseen, BuildDropDipFrees
       DEF Build, C!Next
<1>2. CASE StartRead(l) \/ StartEvent(l)
  BY <1>2, CallbackUnseen
<1>3. CASE EndRun(l)
  <2>1. PICK b \in Bev : b = cur[l]
    BY <1>3 DEF EndRun, Inv, TypeOK, Places
  <2> QED
    BY <1>3, <2>1, EndRunFrees DEF C!Next
<1>4. CASE ReadCB(l)
  BY <1>4, CallbackUnseen, CallbackDropUnseen DEF ReadCB
<1>5. CASE EventCB(l)
  <2>1. PICK b \in Bev : b = cur[l]
    BY <1>5 DEF EventCB, EventLookup, EventMiss, FreeWithdraw, FreeReleaseId, FreeDrop,
                Inv, TypeOK, Places
  <2> QED
    BY <1>5, <2>1, EventLookupUnseen, CallbackUnseen, FreeWithdrawWithdraws,
       FreeReleaseIdReleases, CallbackDropUnseen DEF EventCB, C!Next
<1> QED
  BY <1>1, <1>2, <1>3, <1>4, <1>5 DEF LoopStep

LEMMA MainConnections ==
  ASSUME Inv, Stop \/ DisableListener \/ MainStep
  PROVE  [C!Next]_(C!vars)
<1>1. CASE Stop
  BY <1>1, StopUnseen
<1>2. CASE DisableListener
  BY <1>2, DisableListenerStops DEF C!Next
<1>3. CASE FreeAllDiplomat
  <2>1. CASE FreeAllLock \/ FreeAllUnlock
    BY <2>1, StopUnseen
  <2>2. CASE FreeAllReleaseId
    <3>1. PICK b \in Bev : b = mainCur
      BY <2>2 DEF FreeAllReleaseId, Inv, TypeOK, Locking
    <3> QED
      BY <2>2, <3>1, FreeAllReleaseIdReleases DEF C!Next
  <2>3. CASE \E b \in Bev : FreeAllWithdraw(b) \/ FreeAllClear(b)
    BY <2>3, FreeAllWithdrawWithdraws, FreeAllClearFrees DEF C!Next
  <2> QED
    BY <1>3, <2>1, <2>2, <2>3 DEF FreeAllDiplomat
<1>4. CASE Join
  BY <1>4, JoinStops DEF C!Next
<1>5. CASE \E l \in Loop : LoopBreak(l)
  BY <1>5, StopUnseen
<1> QED
  BY <1>1, <1>2, <1>3, <1>4, <1>5 DEF MainStep

LEMMA NextConnections == Inv /\ Inv' /\ [Next]_vars => [C!Next]_(C!vars)
<1> SUFFICES ASSUME Inv, Inv', [Next]_vars
             PROVE  [C!Next]_(C!vars)
  OBVIOUS
<1>1. CASE UNCHANGED vars
  <2>1. \A b \in Bev : Same(b)
    BY <1>1 DEF vars, Same, Conn, Name, OwnsId
  <2> QED
    BY <1>1, <2>1, Stutter DEF vars, Phase
<1>2. CASE \E b \in Bev : Network(b) \/ RunDeferred(b)
  BY <1>2, NetworkUnseen, AcceptConnects, RunDeferredUnseen DEF Network, C!Next
<1>3. CASE \E l \in Loop : LoopStep(l) \/ LoopExit(l)
  BY <1>3, LoopConnections, LoopExitUnseen
<1>4. CASE Stop \/ DisableListener \/ MainStep
  BY <1>4, MainConnections
<1>5. CASE Terminated
  BY <1>1, <1>5 DEF Terminated
<1> QED
  BY <1>1, <1>2, <1>3, <1>4, <1>5 DEF Next

\* However the loops and the main thread interleave, and whoever frees a connection,
\* diplomat_master.cpp does what Connections promises.
THEOREM ImplementsConnections == Spec => ConnectionsSpec
BY InitConnections, NextConnections, InvHolds, PTL DEF Spec, ConnectionsSpec, C!Spec
=============================================================================
