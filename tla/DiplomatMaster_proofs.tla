----------------------- MODULE DiplomatMaster_proofs -----------------------
(***************************************************************************)
(* Proofs of DiplomatMaster's safety properties for any set of connections *)
(* and loops.                                                              *)
(***************************************************************************)
EXTENDS DiplomatMaster, TLAPS

(***************************************************************************)
(* The inductive invariant.  Its core is Holders: who holds a Protocol and *)
(* a Diplomat follows from where the threads are and from what is          *)
(* registered.  The other parts say what a thread can count on between two *)
(* of its critical sections.                                               *)
(***************************************************************************)

\* A loop thread is in a call exactly when it works on a connection; only the
\* listener builds, and callbacks run on the connection's own loop.
Places ==
  /\ \A l \in Loop : pc[l] \in {"idle", "exited"} <=> cur[l] = None
  /\ \A l \in Loop : pc[l] \in BuildSteps => l = Listener
  /\ \A l \in Loop : pc[l] \in CallbackSteps => base[cur[l]] = l

\* A bufferevent that may still call back has not been freed, and one that
\* calls back is not queued as well.
Bufferevents ==
  /\ \A b \in Bev : Deferred(b) => bev[b] # "free"
  /\ \A l \in Loop : pc[l] \in CallbackSteps => cur[l] \notin queued
  /\ \A b \in reading \cup writing : bev[b] = "live"

\* FreeAllDiplomat holds _mutex and passes over the entries of _protocol_dic.
Locking ==
  /\ mutex = Main <=> mainPc \in FreeAllSteps
  /\ todo \subseteq protocolDic
  /\ mainPc \notin {"freeEach", "freeAllRelease"} => todo = {}
  /\ mainPc = "freeAllRelease" => mainCur \in todo

\* The stages of Stop: once the listener is disabled nothing is built, after
\* FreeAllDiplomat nothing is registered.
Stopping ==
  /\ mainPc \notin {"serving", "disable"} => ~listening /\ pc[Listener] \notin BuildSteps
  /\ mainPc \in {"break", "join", "joined"} => protocolDic = {}
  /\ mainPc = "joined" => \A l \in Loop : pc[l] = "exited"

\* The references that exist are those of the threads' local pointers, of the
\* entries in _protocol_dic, and of a Protocol to its Diplomat.
Holders ==
  /\ \A b \in Bev : \A l \in Loop :
       l \in proRefs[b] <=> cur[l] = b /\ pc[l] \in ProtocolSteps
  /\ \A b \in Bev : Dic \in proRefs[b] <=> b \in protocolDic
  /\ \A b \in Bev : "protocol" \in dipRefs[b] <=> proRefs[b] # {}
  /\ \A b \in Bev : "local" \in dipRefs[b] <=> \E l \in Loop : cur[l] = b /\ pc[l] \in BuildSteps
  /\ \A b \in Bev : bev[b] = "live" <=> dipRefs[b] # {}

\* A Protocol that is not yet registered is the builder's alone; one that
\* FreeDiplomat has taken out is not registered again.
Unregistered ==
  /\ \A l \in Loop : pc[l] \in {"garrison", "register"} => proRefs[cur[l]] = {l}
  /\ \A l \in Loop : pc[l] \in {"withdraw", "releaseId", "freeDrop"} => cur[l] \notin protocolDic

Garrisoned ==
  \A b \in Bev : proRefs[b] # {} =>
    memo[b] # "NULL" \/ \E l \in Loop : cur[l] = b /\ pc[l] = "garrison"

\* A registered Protocol is withdrawn exactly when FreeAllDiplomat has passed
\* it, an unregistered one unless a thread is still to register or withdraw it.
Withdrawals ==
  /\ \A b \in protocolDic :
       b \in withdrawn <=>
         \/ mainPc \in FreeAllSteps /\ b \notin todo
         \/ mainPc = "freeAllRelease" /\ b = mainCur
  /\ \A b \in Bev : proRefs[b] # {} /\ b \notin protocolDic =>
       (b \notin withdrawn <=>
          \E l \in Loop : cur[l] = b /\ pc[l] \in {"garrison", "register", "withdraw"})

Inv ==
  /\ TypeOK
  /\ Places
  /\ Bufferevents
  /\ Locking
  /\ Stopping
  /\ Holders
  /\ Unregistered
  /\ Garrisoned
  /\ Withdrawals
  /\ IdsAccounted

USE DEF BuildSteps, ReadSteps, EventSteps, CallbackSteps, FreeAllSteps,
        ProtocolSteps, evVars, objVars, idVars, loopVars, mainVars,
        NewMemo, ReadHolder, ReadByRecv, Erased, ListenerReady, FreeAllHolder, FreeAllTodo

-----------------------------------------------------------------------------
(* Lemmas about the pieces that several actions share *)

\* A part of the invariant holds on while nothing that it speaks of changes.
LEMMA Frame ==
  ASSUME Inv
  PROVE  /\ UNCHANGED <<pc, cur, base>> => Places'
         /\ UNCHANGED <<bev, reading, writing, queued, pc, cur>> => Bufferevents'
         /\ UNCHANGED <<mutex, mainPc, mainCur, todo, protocolDic>> => Locking'
         /\ UNCHANGED <<mainPc, listening, pc, protocolDic>> => Stopping'
         /\ UNCHANGED <<bev, proRefs, dipRefs, protocolDic, pc, cur>> => Holders'
         /\ UNCHANGED <<proRefs, protocolDic, pc, cur>> => Unregistered'
         /\ UNCHANGED <<proRefs, memo, pc, cur>> => Garrisoned'
         /\ UNCHANGED <<protocolDic, proRefs, withdrawn, mainPc, mainCur, todo, pc, cur>>
              => Withdrawals'
         /\ UNCHANGED <<protocolDic, idVars, mainPc, todo, pc, cur>> => IdsAccounted'
<1>1. UNCHANGED <<pc, cur, base>> => Places'
  BY DEF Inv, Places
<1>2. UNCHANGED <<bev, reading, writing, queued, pc, cur>> => Bufferevents'
  BY DEF Inv, Bufferevents, Deferred
<1>3. UNCHANGED <<mutex, mainPc, mainCur, todo, protocolDic>> => Locking'
  BY DEF Inv, Locking
<1>4. UNCHANGED <<mainPc, listening, pc, protocolDic>> => Stopping'
  BY DEF Inv, Stopping
<1>5. UNCHANGED <<bev, proRefs, dipRefs, protocolDic, pc, cur>> => Holders'
  BY DEF Inv, Holders
<1>6. UNCHANGED <<proRefs, protocolDic, pc, cur>> => Unregistered'
  BY DEF Inv, Unregistered
<1>7. UNCHANGED <<proRefs, memo, pc, cur>> => Garrisoned'
  BY DEF Inv, Garrisoned
<1>8. UNCHANGED <<protocolDic, proRefs, withdrawn, mainPc, mainCur, todo, pc, cur>>
        => Withdrawals'
  BY DEF Inv, Withdrawals
<1>9. UNCHANGED <<protocolDic, idVars, mainPc, todo, pc, cur>> => IdsAccounted'
  BY DEF Inv, IdsAccounted, OwnsId
<1>. QED
  BY <1>1, <1>2, <1>3, <1>4, <1>5, <1>6, <1>7, <1>8, <1>9

\* What remains when a DiplomatPtr or a ProtocolPtr goes has its type.
LEMMA DropDipTypes ==
  ASSUME TypeOK, NEW b \in Bev, NEW h, DropDip(b, h)
  PROVE  /\ bev' \in [Bev -> {"free", "live", "dying"}]
         /\ base' \in [Bev -> Loop \cup {None}]
         /\ reading' \subseteq Bev /\ writing' \subseteq Bev
         /\ queued' \subseteq Bev /\ readPending' \subseteq Bev
         /\ eventPending' \subseteq Bev /\ unread' \subseteq Bev
         /\ dipRefs' \in [Bev -> SUBSET {"local", "protocol"}]
BY DEF TypeOK, DropDip, BuffereventFree

\* The same when a ProtocolPtr goes, and with the last one its DiplomatPtr.
LEMMA DropProTypes ==
  ASSUME TypeOK, NEW b \in Bev, NEW h, DropPro(b, h)
  PROVE  /\ bev' \in [Bev -> {"free", "live", "dying"}]
         /\ base' \in [Bev -> Loop \cup {None}]
         /\ reading' \subseteq Bev /\ writing' \subseteq Bev
         /\ queued' \subseteq Bev /\ readPending' \subseteq Bev
         /\ eventPending' \subseteq Bev /\ unread' \subseteq Bev
         /\ proRefs' \in [Bev -> SUBSET (Loop \cup {Dic})]
         /\ dipRefs' \in [Bev -> SUBSET {"local", "protocol"}]
         /\ memo' \in [Bev -> {"NULL", "empty", "partial"}]
BY DropDipTypes DEF TypeOK, DropPro

\* Garrisoning makes the memo that the Protocol lacked.
LEMMA GarrisonInv ==
  ASSUME Inv, NEW l \in Loop, Garrison(l)
  PROVE  Inv'
<1>1. TypeOK'
  BY DEF Garrison, Goto, Inv, TypeOK, Places
<1>2. Places'
  BY ThreadAssumption DEF Garrison, Goto, Inv, TypeOK, Places
<1>3. Bufferevents'
  BY DEF Garrison, Goto, Deferred, Inv, TypeOK, Bufferevents
<1>4. Stopping'
  BY DEF Garrison, Goto, Inv, TypeOK, Stopping
<1>5. Holders'
  BY ThreadAssumption DEF Garrison, Goto, Inv, TypeOK, Holders
<1>6. Unregistered'
  BY DEF Garrison, Goto, Inv, TypeOK, Unregistered
<1>7. Garrisoned'
  BY DEF Garrison, Goto, Inv, TypeOK, Garrisoned
<1>8. Withdrawals'
  BY DEF Garrison, Goto, Inv, TypeOK, Withdrawals
<1>9. IdsAccounted'
  BY DEF Garrison, Goto, OwnsId, Inv, TypeOK, IdsAccounted
<1>10. Locking'
  BY Frame DEF Garrison
<1>. QED
  BY <1>1, <1>2, <1>3, <1>4, <1>5, <1>6, <1>7, <1>8, <1>9, <1>10 DEF Inv

\* Registering hands the dictionary a reference of its own; the name passes from
\* the builder to the entry.
LEMMA RegisterInv ==
  ASSUME Inv, NEW l \in Loop, Register(l)
  PROVE  Inv'
<1>1. TypeOK'
  BY DEF Register, Goto, Inv, TypeOK, Places
<1>2. Places'
  BY ThreadAssumption DEF Register, Goto, Inv, TypeOK, Places
<1>3. Bufferevents'
  BY DEF Register, Goto, Deferred, Inv, TypeOK, Bufferevents
<1>4. Locking'
  BY ThreadAssumption DEF Register, Goto, Inv, TypeOK, Locking
<1>5. Stopping'
  BY DEF Register, Goto, Inv, TypeOK, Stopping, Places
<1>6. Holders'
  BY ThreadAssumption DEF Register, Goto, Inv, TypeOK, Holders
<1>7. Unregistered'
  BY DEF Register, Goto, Inv, TypeOK, Unregistered, Places, Holders
<1>8. Garrisoned'
  BY DEF Register, Goto, Inv, TypeOK, Garrisoned, Holders
<1>9. Withdrawals'
  BY ThreadAssumption DEF Register, Goto, Inv, TypeOK, Withdrawals, Locking,
       Holders
<1>10. IdsAccounted'
  BY ThreadAssumption
     DEF Register, Goto, Inv, TypeOK, Places, Locking, IdsAccounted, OwnsId
<1>. QED
  BY <1>1, <1>2, <1>3, <1>4, <1>5, <1>6, <1>7, <1>8, <1>9, <1>10 DEF Inv

\* The builder's ProtocolPtr goes.  If the connection has been freed meanwhile
\* this deletes the Protocol, but not the Diplomat, which the builder still holds.
LEMMA BuildDropProInv ==
  ASSUME Inv, NEW l \in Loop, BuildDropPro(l)
  PROVE  Inv'
<1>1. TypeOK'
  <2>1. cur[l] \in Bev
    BY DEF BuildDropPro, Inv, TypeOK, Places
  <2>. QED
    BY <2>1, DropProTypes DEF BuildDropPro, Goto, Inv, TypeOK
<1>2. Places'
  BY ThreadAssumption DEF BuildDropPro, Goto,
       DropPro, DropDip, BuffereventFree, Deferred, Inv, TypeOK, Places
<1>3. Bufferevents'
  BY DEF BuildDropPro, Goto, DropPro, DropDip, BuffereventFree, Deferred, Inv,
         TypeOK, Bufferevents
<1>4. Stopping'
  BY DEF BuildDropPro, Goto, DropPro, DropDip, BuffereventFree, Inv, TypeOK,
         Stopping
<1>5. Holders'
  BY ThreadAssumption DEF BuildDropPro, Goto,
       DropPro, DropDip, BuffereventFree, Inv, TypeOK, Holders
<1>6. Unregistered'
  BY DEF BuildDropPro, Goto, DropPro, DropDip, BuffereventFree, Inv, TypeOK,
         Unregistered
<1>7. Garrisoned'
  BY DEF BuildDropPro, Goto, DropPro, DropDip, BuffereventFree, Inv, TypeOK,
         Garrisoned
<1>8. Withdrawals'
  BY DEF BuildDropPro, Goto, DropPro, DropDip, BuffereventFree, Inv, TypeOK,
         Withdrawals
<1>9. IdsAccounted'
  BY DEF BuildDropPro, Goto, DropPro, DropDip, BuffereventFree, OwnsId, Inv,
         TypeOK, IdsAccounted
<1>10. Locking'
  BY Frame DEF BuildDropPro
<1>. QED
  BY <1>1, <1>2, <1>3, <1>4, <1>5, <1>6, <1>7, <1>8, <1>9, <1>10 DEF Inv

\* The builder's DiplomatPtr goes, and with it the bufferevent of a connection that
\* has been freed meanwhile.
LEMMA BuildDropDipInv ==
  ASSUME Inv, NEW l \in Loop, BuildDropDip(l)
  PROVE  Inv'
<1>1. TypeOK'
  <2>1. cur[l] \in Bev
    BY DEF BuildDropDip, Inv, TypeOK, Places
  <2>. QED
    BY <2>1, DropDipTypes DEF BuildDropDip, Goto, Inv, TypeOK
<1>2. Places'
  BY ThreadAssumption DEF BuildDropDip, Goto, DropDip, BuffereventFree,
       Deferred, Inv, TypeOK, Places
<1>3. Bufferevents'
  BY DEF BuildDropDip, Goto, DropDip, BuffereventFree, Deferred, Inv, TypeOK,
         Bufferevents
<1>4. Stopping'
  BY DEF BuildDropDip, Goto, DropDip, BuffereventFree, Inv, TypeOK, Stopping
<1>5. Holders'
  BY ThreadAssumption DEF BuildDropDip, Goto, DropDip, BuffereventFree, Inv,
       TypeOK, Holders, Places
<1>6. Unregistered'
  BY DEF BuildDropDip, Goto, DropDip, BuffereventFree, Inv, TypeOK,
         Unregistered
<1>7. Garrisoned'
  BY DEF BuildDropDip, Goto, DropDip, BuffereventFree, Inv, TypeOK, Garrisoned
<1>8. Withdrawals'
  BY DEF BuildDropDip, Goto, DropDip, BuffereventFree, Inv, TypeOK,
         Withdrawals
<1>9. IdsAccounted'
  BY DEF BuildDropDip, Goto, DropDip, BuffereventFree, OwnsId, Inv, TypeOK,
         IdsAccounted
<1>10. Locking'
  BY Frame DEF BuildDropDip
<1>. QED
  BY <1>1, <1>2, <1>3, <1>4, <1>5, <1>6, <1>7, <1>8, <1>9, <1>10 DEF Inv

\* A bufferevent that is free is nobody's: the new connection takes over nothing.
LEMMA AcceptInv ==
  ASSUME Inv, NEW b \in Bev, NEW l \in Loop, Accept(b, l)
  PROVE  Inv'
<1>1. TypeOK'
  BY ThreadAssumption DEF Accept, IssueId, Goto, Inv, TypeOK, Num
<1>2. Places'
  BY ThreadAssumption DEF Accept, Goto, IssueId, Deferred, Inv, TypeOK,
       Places, Holders, Bufferevents
<1>3. Bufferevents'
  BY DEF Accept, Goto, IssueId, Deferred, Inv, TypeOK, Bufferevents
<1>4. Stopping'
  BY DEF Accept, Goto, IssueId, Inv, TypeOK, Stopping
<1>5. Holders'
  BY ThreadAssumption DEF Accept, Goto, IssueId, Inv, TypeOK, Holders
<1>6. Unregistered'
  BY DEF Accept, Goto, IssueId, Inv, TypeOK, Unregistered, Places
<1>7. Garrisoned'
  BY ThreadAssumption DEF Accept, Goto, IssueId, Inv, TypeOK, Garrisoned
<1>8. Withdrawals'
  BY SMTT(60), ThreadAssumption DEF Accept, Goto, IssueId, Inv, TypeOK, Withdrawals,
       Holders
<1>9. IdsAccounted'
  <2>1. ~OwnsId(b)
    BY DEF Accept, Inv, TypeOK, Holders, OwnsId
  <2>2. OwnsId(b)'
    BY ThreadAssumption DEF Accept, Goto, Inv, TypeOK, OwnsId
  <2>3. ASSUME NEW c \in Bev, c # b
        PROVE  diplomatId'[c] = diplomatId[c] /\ (OwnsId(c)' <=> OwnsId(c))
    BY <2>3, ThreadAssumption DEF Accept, Goto, Inv, TypeOK, Places, OwnsId
  <2>4. diplomatId'[b] \notin idsHeld /\ idsHeld' = idsHeld \cup {diplomatId'[b]}
    BY DEF Accept, IssueId, FirstOutside, Inv, TypeOK
  <2>. QED
    BY <2>1, <2>2, <2>3, <2>4 DEF Inv, IdsAccounted
<1>10. Locking'
  BY Frame DEF Accept
<1>. QED
  BY <1>1, <1>2, <1>3, <1>4, <1>5, <1>6, <1>7, <1>8, <1>9, <1>10 DEF Inv

\* Data can only come in for a live bufferevent whose loop is not in a call.
LEMMA ReceiveInv ==
  ASSUME Inv, NEW b \in Bev, Receive(b)
  PROVE  Inv'
<1>1. TypeOK'
  BY DEF Receive, Inv, TypeOK
<1>2. Bufferevents'
  BY DEF Receive, Polls, Deferred, Inv, TypeOK, Bufferevents, Places
<1>3. Places' /\ Locking' /\ Stopping' /\ Holders' /\ Unregistered' /\ Garrisoned' /\ Withdrawals' /\ IdsAccounted'
  BY Frame DEF Receive
<1>. QED
  BY <1>1, <1>2, <1>3 DEF Inv

\* The same holds for EOF and errors.
LEMMA FailInv ==
  ASSUME Inv, NEW b \in Bev, Fail(b)
  PROVE  Inv'
<1>1. TypeOK'
  BY DEF Fail, Inv, TypeOK
<1>2. Bufferevents'
  BY DEF Fail, Polls, Deferred, Inv, TypeOK, Bufferevents, Places
<1>3. Places' /\ Locking' /\ Stopping' /\ Holders' /\ Unregistered' /\ Garrisoned' /\ Withdrawals' /\ IdsAccounted'
  BY Frame DEF Fail
<1>. QED
  BY <1>1, <1>2, <1>3 DEF Inv

\* Writing out a reply disturbs nothing.
LEMMA FlushInv ==
  ASSUME Inv, NEW b \in Bev, Flush(b)
  PROVE  Inv'
<1>1. TypeOK'
  BY DEF Flush, Inv, TypeOK
<1>2. Bufferevents'
  BY DEF Flush, Polls, Deferred, Inv, TypeOK, Bufferevents
<1>3. Places' /\ Locking' /\ Stopping' /\ Holders' /\ Unregistered' /\ Garrisoned' /\ Withdrawals' /\ IdsAccounted'
  BY Frame DEF Flush
<1>. QED
  BY <1>1, <1>2, <1>3 DEF Inv

\* A deferred callback runs on the bufferevent's own loop.
LEMMA RunDeferredInv ==
  ASSUME Inv, NEW b \in Bev, RunDeferred(b)
  PROVE  Inv'
<1>1. TypeOK'
  BY DEF RunDeferred, Polls, Inv, TypeOK
<1>2. Places'
  BY ThreadAssumption DEF RunDeferred, Goto, Polls, Inv, TypeOK, Places
<1>3. Bufferevents'
  BY DEF RunDeferred, Goto, Polls, Deferred, Inv, TypeOK, Bufferevents
<1>4. Stopping'
  BY DEF RunDeferred, Goto, Polls, Inv, TypeOK, Stopping
<1>5. Holders'
  BY ThreadAssumption DEF RunDeferred, Goto, Polls, Inv, TypeOK, Holders
<1>6. Unregistered'
  BY DEF RunDeferred, Goto, Polls, Inv, TypeOK, Unregistered
<1>7. Garrisoned'
  BY DEF RunDeferred, Goto, Polls, Inv, TypeOK, Garrisoned
<1>8. Withdrawals'
  BY DEF RunDeferred, Goto, Polls, Inv, TypeOK, Withdrawals
<1>9. IdsAccounted'
  BY DEF RunDeferred, Goto, Polls, OwnsId, Inv, TypeOK, IdsAccounted
<1>10. Locking'
  BY Frame DEF RunDeferred
<1>. QED
  BY <1>1, <1>2, <1>3, <1>4, <1>5, <1>6, <1>7, <1>8, <1>9, <1>10 DEF Inv

\* Calling ReadCB moves one thread.
LEMMA StartReadInv ==
  ASSUME Inv, NEW l \in Loop, StartRead(l)
  PROVE  Inv'
<1>1. TypeOK'
  BY DEF StartRead, Goto, Inv, TypeOK
<1>2. Places'
  BY ThreadAssumption DEF StartRead, Goto, Inv, TypeOK, Places
<1>3. Bufferevents'
  BY DEF StartRead, Goto, Deferred, Inv, TypeOK, Bufferevents
<1>4. Stopping'
  BY DEF StartRead, Goto, Inv, TypeOK, Stopping
<1>5. Holders'
  BY ThreadAssumption DEF StartRead, Goto, Inv, TypeOK, Holders
<1>6. Unregistered'
  BY DEF StartRead, Goto, Inv, TypeOK, Unregistered
<1>7. Garrisoned'
  BY DEF StartRead, Goto, Inv, TypeOK, Garrisoned
<1>8. Withdrawals'
  BY DEF StartRead, Goto, Inv, TypeOK, Withdrawals
<1>9. IdsAccounted'
  BY DEF StartRead, Goto, OwnsId, Inv, TypeOK, IdsAccounted
<1>10. Locking'
  BY Frame DEF StartRead
<1>. QED
  BY <1>1, <1>2, <1>3, <1>4, <1>5, <1>6, <1>7, <1>8, <1>9, <1>10 DEF Inv

\* Calling EventCB moves one thread.
LEMMA StartEventInv ==
  ASSUME Inv, NEW l \in Loop, StartEvent(l)
  PROVE  Inv'
<1>1. TypeOK'
  BY DEF StartEvent, Goto, Inv, TypeOK
<1>2. Places'
  BY ThreadAssumption DEF StartEvent, Goto, Inv, TypeOK, Places
<1>3. Bufferevents'
  BY DEF StartEvent, Goto, Deferred, Inv, TypeOK, Bufferevents
<1>4. Stopping'
  BY DEF StartEvent, Goto, Inv, TypeOK, Stopping
<1>5. Holders'
  BY ThreadAssumption DEF StartEvent, Goto, Inv, TypeOK, Holders
<1>6. Unregistered'
  BY DEF StartEvent, Goto, Inv, TypeOK, Unregistered
<1>7. Garrisoned'
  BY DEF StartEvent, Goto, Inv, TypeOK, Garrisoned
<1>8. Withdrawals'
  BY DEF StartEvent, Goto, Inv, TypeOK, Withdrawals
<1>9. IdsAccounted'
  BY DEF StartEvent, Goto, OwnsId, Inv, TypeOK, IdsAccounted
<1>10. Locking'
  BY Frame DEF StartEvent
<1>. QED
  BY <1>1, <1>2, <1>3, <1>4, <1>5, <1>6, <1>7, <1>8, <1>9, <1>10 DEF Inv

\* The last deferred callback frees a dying bufferevent, which has no Diplomat and
\* no other callback any more.
LEMMA EndRunInv ==
  ASSUME Inv, NEW l \in Loop, EndRun(l)
  PROVE  Inv'
<1>1. TypeOK'
  BY DEF EndRun, Goto, Inv, TypeOK
<1>2. Places'
  BY ThreadAssumption DEF EndRun, Goto, Inv, TypeOK, Places
<1>3. Bufferevents'
  <2>1. PICK c \in Bev : c = cur[l]
    BY DEF EndRun, Inv, TypeOK, Places
  <2>2. ASSUME NEW b \in Bev, b # c
        PROVE  bev'[b] = bev[b] /\ (Deferred(b)' <=> Deferred(b))
    BY <2>1, <2>2 DEF EndRun, Goto, Inv, TypeOK, Places, Deferred
  <2>3. ~Deferred(c)'
    BY <2>1 DEF EndRun, Goto, Inv, TypeOK, Places, Bufferevents, Deferred
  <2>. QED
    BY <2>1, <2>2, <2>3, ThreadAssumption
       DEF EndRun, Goto, Inv, TypeOK, Places, Holders, Bufferevents
<1>4. Stopping'
  BY DEF EndRun, Goto, Inv, TypeOK, Stopping
<1>5. Holders'
  BY ThreadAssumption DEF EndRun, Goto, Inv, TypeOK, Holders
<1>6. Unregistered'
  BY DEF EndRun, Goto, Inv, TypeOK, Unregistered
<1>7. Garrisoned'
  BY DEF EndRun, Goto, Inv, TypeOK, Garrisoned
<1>8. Withdrawals'
  BY DEF EndRun, Goto, Inv, TypeOK, Withdrawals
<1>9. IdsAccounted'
  BY DEF EndRun, Goto, OwnsId, Inv, TypeOK, IdsAccounted
<1>10. Locking'
  BY Frame DEF EndRun
<1>. QED
  BY <1>1, <1>2, <1>3, <1>4, <1>5, <1>6, <1>7, <1>8, <1>9, <1>10 DEF Inv

\* ReadCB takes its reference under _mutex, while the entry still has one.
LEMMA ReadLookupInv ==
  ASSUME Inv, NEW l \in Loop, ReadLookup(l)
  PROVE  Inv'
<1>1. TypeOK'
  BY DEF ReadLookup, Goto, Inv, TypeOK
<1>2. Places'
  BY ThreadAssumption DEF ReadLookup, Goto, Inv, TypeOK, Places
<1>3. Bufferevents'
  BY DEF ReadLookup, Goto, Deferred, Inv, TypeOK, Bufferevents
<1>4. Stopping'
  BY DEF ReadLookup, Goto, Inv, TypeOK, Stopping
<1>5. Holders'
  BY ThreadAssumption DEF ReadLookup, Goto, Inv, TypeOK, Holders
<1>6. Unregistered'
  BY ThreadAssumption DEF ReadLookup, Goto, Inv, TypeOK, Unregistered, Holders
<1>7. Garrisoned'
  BY DEF ReadLookup, Goto, Inv, TypeOK, Garrisoned, Holders
<1>8. Withdrawals'
  BY DEF ReadLookup, Goto, Inv, TypeOK, Withdrawals
<1>9. IdsAccounted'
  BY DEF ReadLookup, Goto, OwnsId, Inv, TypeOK, IdsAccounted
<1>10. Locking'
  BY Frame DEF ReadLookup
<1>. QED
  BY <1>1, <1>2, <1>3, <1>4, <1>5, <1>6, <1>7, <1>8, <1>9, <1>10 DEF Inv

\* ReadCB without a Protocol moves one thread.
LEMMA AbandonReadInv ==
  ASSUME Inv, NEW l \in Loop, AbandonRead(l)
  PROVE  Inv'
<1>1. TypeOK'
  BY DEF AbandonRead, Goto, Inv, TypeOK
<1>2. Places'
  BY ThreadAssumption DEF AbandonRead, Goto, Inv, TypeOK, Places
<1>3. Bufferevents'
  BY DEF AbandonRead, Goto, Deferred, Inv, TypeOK, Bufferevents
<1>4. Stopping'
  BY DEF AbandonRead, Goto, Inv, TypeOK, Stopping
<1>5. Holders'
  BY ThreadAssumption DEF AbandonRead, Goto, Inv, TypeOK, Holders
<1>6. Unregistered'
  BY DEF AbandonRead, Goto, Inv, TypeOK, Unregistered
<1>7. Garrisoned'
  BY DEF AbandonRead, Goto, Inv, TypeOK, Garrisoned
<1>8. Withdrawals'
  BY DEF AbandonRead, Goto, Inv, TypeOK, Withdrawals
<1>9. IdsAccounted'
  BY DEF AbandonRead, Goto, OwnsId, Inv, TypeOK, IdsAccounted
<1>10. Locking'
  BY Frame DEF AbandonRead
<1>. QED
  BY <1>1, <1>2, <1>3, <1>4, <1>5, <1>6, <1>7, <1>8, <1>9, <1>10 DEF Inv

\* RecvSomething works on a Protocol that its thread holds.
LEMMA RecvInv ==
  ASSUME Inv, NEW l \in Loop, Recv(l)
  PROVE  Inv'
<1>1. TypeOK'
  BY DEF Recv, Goto, Inv, TypeOK, Places
<1>2. Places'
  BY ThreadAssumption DEF Recv, Goto, Inv, TypeOK, Places
<1>3. Bufferevents'
  BY DEF Recv, Goto, Deferred, Inv, TypeOK, Bufferevents, Places, Holders
<1>4. Stopping'
  BY DEF Recv, Goto, Inv, TypeOK, Stopping
<1>5. Holders'
  BY ThreadAssumption DEF Recv, Goto, Inv, TypeOK, Holders
<1>6. Unregistered'
  BY DEF Recv, Goto, Inv, TypeOK, Unregistered
<1>7. Garrisoned'
  BY DEF Recv, Goto, Inv, TypeOK, Garrisoned
<1>8. Withdrawals'
  BY DEF Recv, Goto, Inv, TypeOK, Withdrawals
<1>9. IdsAccounted'
  BY DEF Recv, Goto, OwnsId, Inv, TypeOK, IdsAccounted
<1>10. Locking'
  BY Frame DEF Recv
<1>. QED
  BY <1>1, <1>2, <1>3, <1>4, <1>5, <1>6, <1>7, <1>8, <1>9, <1>10 DEF Inv

\* ReadCB's reference goes; it is the last one if FreeAllDiplomat came between.
LEMMA RecvDropInv ==
  ASSUME Inv, NEW l \in Loop, RecvDrop(l)
  PROVE  Inv'
<1>1. TypeOK'
  <2>1. cur[l] \in Bev
    BY DEF RecvDrop, Inv, TypeOK, Places
  <2>. QED
    BY <2>1, DropProTypes DEF RecvDrop, Goto, Inv, TypeOK
<1>2. Places'
  BY ThreadAssumption DEF RecvDrop, Goto, DropPro, DropDip, BuffereventFree,
       Deferred, Inv, TypeOK, Places
<1>3. Bufferevents'
  BY DEF RecvDrop, Goto, DropPro, DropDip, BuffereventFree, Deferred, Inv,
         TypeOK, Bufferevents
<1>4. Stopping'
  BY DEF RecvDrop, Goto, DropPro, DropDip, BuffereventFree, Inv, TypeOK,
         Stopping
<1>5. Holders'
  BY ThreadAssumption DEF RecvDrop, Goto, DropPro, DropDip, BuffereventFree,
       Inv, TypeOK, Holders
<1>6. Unregistered'
  BY DEF RecvDrop, Goto, DropPro, DropDip, BuffereventFree, Inv, TypeOK,
         Unregistered
<1>7. Garrisoned'
  BY DEF RecvDrop, Goto, DropPro, DropDip, BuffereventFree, Inv, TypeOK,
         Garrisoned
<1>8. Withdrawals'
  BY DEF RecvDrop, Goto, DropPro, DropDip, BuffereventFree, Inv, TypeOK,
         Withdrawals
<1>9. IdsAccounted'
  BY DEF RecvDrop, Goto, DropPro, DropDip, BuffereventFree, OwnsId, Inv,
         TypeOK, IdsAccounted
<1>10. Locking'
  BY Frame DEF RecvDrop
<1>. QED
  BY <1>1, <1>2, <1>3, <1>4, <1>5, <1>6, <1>7, <1>8, <1>9, <1>10 DEF Inv

\* FreeDiplomat takes over the entry's reference and its duty to give back the name.
LEMMA EventLookupInv ==
  ASSUME Inv, NEW l \in Loop, EventLookup(l)
  PROVE  Inv'
<1>1. TypeOK'
  BY DEF EventLookup, Goto, Inv, TypeOK
<1>2. Places'
  BY ThreadAssumption DEF EventLookup, Goto, Inv, TypeOK, Places
<1>3. Bufferevents'
  BY DEF EventLookup, Goto, Deferred, Inv, TypeOK, Bufferevents
<1>4. Locking'
  BY ThreadAssumption DEF EventLookup, Goto, Inv, TypeOK, Locking
<1>5. Stopping'
  BY DEF EventLookup, Goto, Inv, TypeOK, Stopping
<1>6. Holders'
  BY ThreadAssumption DEF EventLookup, Goto, Inv, TypeOK, Holders
<1>7. Unregistered'
  BY ThreadAssumption DEF EventLookup, Goto, Inv, TypeOK, Unregistered,
       Holders
<1>8. Garrisoned'
  BY DEF EventLookup, Goto, Inv, TypeOK, Garrisoned, Holders
<1>9. Withdrawals'
  BY ThreadAssumption DEF EventLookup, Goto, Inv, TypeOK, Withdrawals, Locking
<1>10. IdsAccounted'
  BY ThreadAssumption DEF EventLookup, Goto, OwnsId, Inv, TypeOK,
       IdsAccounted, Locking
<1>. QED
  BY <1>1, <1>2, <1>3, <1>4, <1>5, <1>6, <1>7, <1>8, <1>9, <1>10 DEF Inv

\* FreeDiplomat without a Protocol moves one thread.
LEMMA EventMissInv ==
  ASSUME Inv, NEW l \in Loop, EventMiss(l)
  PROVE  Inv'
<1>1. TypeOK'
  BY DEF EventMiss, Goto, Inv, TypeOK
<1>2. Places'
  BY ThreadAssumption DEF EventMiss, Goto, Inv, TypeOK, Places
<1>3. Bufferevents'
  BY DEF EventMiss, Goto, Deferred, Inv, TypeOK, Bufferevents
<1>4. Stopping'
  BY DEF EventMiss, Goto, Inv, TypeOK, Stopping
<1>5. Holders'
  BY ThreadAssumption DEF EventMiss, Goto, Inv, TypeOK, Holders
<1>6. Unregistered'
  BY DEF EventMiss, Goto, Inv, TypeOK, Unregistered
<1>7. Garrisoned'
  BY DEF EventMiss, Goto, Inv, TypeOK, Garrisoned
<1>8. Withdrawals'
  BY DEF EventMiss, Goto, Inv, TypeOK, Withdrawals
<1>9. IdsAccounted'
  BY DEF EventMiss, Goto, OwnsId, Inv, TypeOK, IdsAccounted
<1>10. Locking'
  BY Frame DEF EventMiss
<1>. QED
  BY <1>1, <1>2, <1>3, <1>4, <1>5, <1>6, <1>7, <1>8, <1>9, <1>10 DEF Inv

\* FreeDiplomat withdraws a Protocol that nobody else will withdraw.
LEMMA FreeWithdrawInv ==
  ASSUME Inv, NEW l \in Loop, FreeWithdraw(l)
  PROVE  Inv'
<1>1. TypeOK'
  BY DEF FreeWithdraw, Goto, WithdrawDiplomat, Inv, TypeOK, Places
<1>2. Places'
  BY ThreadAssumption DEF FreeWithdraw, Goto, WithdrawDiplomat, Inv, TypeOK,
       Places
<1>3. Bufferevents'
  BY DEF FreeWithdraw, Goto, WithdrawDiplomat, Deferred, Inv, TypeOK,
         Bufferevents
<1>4. Stopping'
  BY DEF FreeWithdraw, Goto, WithdrawDiplomat, Inv, TypeOK, Stopping
<1>5. Holders'
  BY ThreadAssumption DEF FreeWithdraw, Goto, WithdrawDiplomat, Inv, TypeOK,
       Holders
<1>6. Unregistered'
  BY DEF FreeWithdraw, Goto, WithdrawDiplomat, Inv, TypeOK, Unregistered
<1>7. Garrisoned'
  BY DEF FreeWithdraw, Goto, WithdrawDiplomat, Inv, TypeOK, Garrisoned
<1>8. Withdrawals'
  BY DEF FreeWithdraw, Goto, WithdrawDiplomat, Inv, TypeOK, Withdrawals,
         Places, Holders, Unregistered
<1>9. IdsAccounted'
  BY DEF FreeWithdraw, Goto, WithdrawDiplomat, OwnsId, Inv, TypeOK,
         IdsAccounted
<1>10. Locking'
  BY Frame DEF FreeWithdraw
<1>. QED
  BY <1>1, <1>2, <1>3, <1>4, <1>5, <1>6, <1>7, <1>8, <1>9, <1>10 DEF Inv

\* FreeDiplomat gives back a name that nobody else owns.
LEMMA FreeReleaseIdInv ==
  ASSUME Inv, NEW l \in Loop, FreeReleaseId(l)
  PROVE  Inv'
<1>1. TypeOK'
  BY DEF FreeReleaseId, Goto, Inv, TypeOK
<1>2. Places'
  BY ThreadAssumption DEF FreeReleaseId, Goto, Inv, TypeOK, Places
<1>3. Bufferevents'
  BY DEF FreeReleaseId, Goto, Deferred, Inv, TypeOK, Bufferevents
<1>4. Stopping'
  BY DEF FreeReleaseId, Goto, Inv, TypeOK, Stopping
<1>5. Holders'
  BY ThreadAssumption DEF FreeReleaseId, Goto, Inv, TypeOK, Holders
<1>6. Unregistered'
  BY DEF FreeReleaseId, Goto, Inv, TypeOK, Unregistered
<1>7. Garrisoned'
  BY DEF FreeReleaseId, Goto, Inv, TypeOK, Garrisoned
<1>8. Withdrawals'
  BY DEF FreeReleaseId, Goto, Inv, TypeOK, Withdrawals
<1>9. IdsAccounted'
  BY DEF FreeReleaseId, Goto, OwnsId, Inv, TypeOK, IdsAccounted, Places,
         Holders, Unregistered
<1>10. Locking'
  BY Frame DEF FreeReleaseId
<1>. QED
  BY <1>1, <1>2, <1>3, <1>4, <1>5, <1>6, <1>7, <1>8, <1>9, <1>10 DEF Inv

\* FreeDiplomat's reference goes.
LEMMA FreeDropInv ==
  ASSUME Inv, NEW l \in Loop, FreeDrop(l)
  PROVE  Inv'
<1>1. TypeOK'
  <2>1. cur[l] \in Bev
    BY DEF FreeDrop, Inv, TypeOK, Places
  <2>. QED
    BY <2>1, DropProTypes DEF FreeDrop, Goto, Inv, TypeOK
<1>2. Places'
  BY ThreadAssumption DEF FreeDrop, Goto, DropPro, DropDip, BuffereventFree,
       Deferred, Inv, TypeOK, Places
<1>3. Bufferevents'
  BY DEF FreeDrop, Goto, DropPro, DropDip, BuffereventFree, Deferred, Inv,
         TypeOK, Bufferevents
<1>4. Stopping'
  BY DEF FreeDrop, Goto, DropPro, DropDip, BuffereventFree, Inv, TypeOK,
         Stopping
<1>5. Holders'
  BY ThreadAssumption DEF FreeDrop, Goto, DropPro, DropDip, BuffereventFree,
       Inv, TypeOK, Holders
<1>6. Unregistered'
  BY DEF FreeDrop, Goto, DropPro, DropDip, BuffereventFree, Inv, TypeOK,
         Unregistered
<1>7. Garrisoned'
  BY DEF FreeDrop, Goto, DropPro, DropDip, BuffereventFree, Inv, TypeOK,
         Garrisoned
<1>8. Withdrawals'
  BY DEF FreeDrop, Goto, DropPro, DropDip, BuffereventFree, Inv, TypeOK,
         Withdrawals
<1>9. IdsAccounted'
  BY DEF FreeDrop, Goto, DropPro, DropDip, BuffereventFree, OwnsId, Inv,
         TypeOK, IdsAccounted
<1>10. Locking'
  BY Frame DEF FreeDrop
<1>. QED
  BY <1>1, <1>2, <1>3, <1>4, <1>5, <1>6, <1>7, <1>8, <1>9, <1>10 DEF Inv

\* Stop begins.
LEMMA StopInv ==
  ASSUME Inv, Stop
  PROVE  Inv'
<1>1. TypeOK'
  BY DEF Stop, Inv, TypeOK
<1>2. Locking'
  BY ThreadAssumption DEF Stop, Inv, TypeOK, Locking
<1>3. Stopping'
  BY DEF Stop, Inv, TypeOK, Stopping
<1>4. Withdrawals'
  BY DEF Stop, Inv, TypeOK, Withdrawals
<1>5. IdsAccounted'
  BY DEF Stop, OwnsId, Inv, TypeOK, IdsAccounted
<1>6. Places' /\ Bufferevents' /\ Holders' /\ Unregistered' /\ Garrisoned'
  BY Frame DEF Stop
<1>. QED
  BY <1>1, <1>2, <1>3, <1>4, <1>5, <1>6 DEF Inv

\* Once the listener is disabled, its loop is not in BuildDiplomat.
LEMMA DisableListenerInv ==
  ASSUME Inv, DisableListener
  PROVE  Inv'
<1>1. TypeOK'
  BY DEF DisableListener, Inv, TypeOK
<1>2. Locking'
  BY ThreadAssumption DEF DisableListener, Inv, TypeOK, Locking
<1>3. Stopping'
  BY DEF DisableListener, Inv, TypeOK, Stopping
<1>4. Withdrawals'
  BY DEF DisableListener, Inv, TypeOK, Withdrawals
<1>5. IdsAccounted'
  BY DEF DisableListener, OwnsId, Inv, TypeOK, IdsAccounted
<1>6. Places' /\ Bufferevents' /\ Holders' /\ Unregistered' /\ Garrisoned'
  BY Frame DEF DisableListener
<1>. QED
  BY <1>1, <1>2, <1>3, <1>4, <1>5, <1>6 DEF Inv

\* FreeAllDiplomat takes _mutex; all entries are still to be passed.
LEMMA FreeAllLockInv ==
  ASSUME Inv, FreeAllLock
  PROVE  Inv'
<1>1. TypeOK'
  BY ThreadAssumption DEF FreeAllLock, Inv, TypeOK
<1>2. Locking'
  BY ThreadAssumption DEF FreeAllLock, Inv, TypeOK, Locking
<1>3. Stopping'
  BY DEF FreeAllLock, Inv, TypeOK, Stopping
<1>4. Withdrawals'
  BY DEF FreeAllLock, Inv, TypeOK, Withdrawals
<1>5. IdsAccounted'
  BY DEF FreeAllLock, OwnsId, Inv, TypeOK, IdsAccounted
<1>6. Places' /\ Bufferevents' /\ Holders' /\ Unregistered' /\ Garrisoned'
  BY Frame DEF FreeAllLock
<1>. QED
  BY <1>1, <1>2, <1>3, <1>4, <1>5, <1>6 DEF Inv

\* FreeAllDiplomat withdraws an entry that it has not passed yet.
LEMMA FreeAllWithdrawInv ==
  ASSUME Inv, NEW b \in Bev, FreeAllWithdraw(b)
  PROVE  Inv'
<1>1. TypeOK'
  BY DEF FreeAllWithdraw, WithdrawDiplomat, Inv, TypeOK
<1>2. Locking'
  BY ThreadAssumption DEF FreeAllWithdraw, WithdrawDiplomat, Inv, TypeOK,
       Locking
<1>3. Stopping'
  BY DEF FreeAllWithdraw, WithdrawDiplomat, Inv, TypeOK, Stopping
<1>4. Garrisoned'
  BY DEF FreeAllWithdraw, WithdrawDiplomat, Inv, TypeOK, Garrisoned
<1>5. Withdrawals'
  BY DEF FreeAllWithdraw, WithdrawDiplomat, Inv, TypeOK, Withdrawals, Locking
<1>6. IdsAccounted'
  BY DEF FreeAllWithdraw, WithdrawDiplomat, OwnsId, Inv, TypeOK, IdsAccounted
<1>7. Places' /\ Bufferevents' /\ Holders' /\ Unregistered'
  BY Frame DEF FreeAllWithdraw
<1>. QED
  BY <1>1, <1>2, <1>3, <1>4, <1>5, <1>6, <1>7 DEF Inv

\* FreeAllDiplomat gives back the name of that entry and has passed it.
LEMMA FreeAllReleaseIdInv ==
  ASSUME Inv, FreeAllReleaseId
  PROVE  Inv'
<1>1. TypeOK'
  BY DEF FreeAllReleaseId, Inv, TypeOK
<1>2. Locking'
  BY ThreadAssumption DEF FreeAllReleaseId, Inv, TypeOK, Locking
<1>3. Stopping'
  BY DEF FreeAllReleaseId, Inv, TypeOK, Stopping
<1>4. Withdrawals'
  BY DEF FreeAllReleaseId, Inv, TypeOK, Withdrawals
<1>5. IdsAccounted'
  BY ThreadAssumption DEF FreeAllReleaseId, OwnsId, Inv, TypeOK, IdsAccounted,
       Locking, Holders, Unregistered
<1>6. Places' /\ Bufferevents' /\ Holders' /\ Unregistered' /\ Garrisoned'
  BY Frame DEF FreeAllReleaseId
<1>. QED
  BY <1>1, <1>2, <1>3, <1>4, <1>5, <1>6 DEF Inv

\* clear() drops an entry whose name has been given back; a thread in ReadCB keeps
\* the connection alive until it returns.
LEMMA FreeAllClearInv ==
  ASSUME Inv, NEW b \in Bev, FreeAllClear(b)
  PROVE  Inv'
<1>1. TypeOK'
  BY DropProTypes DEF FreeAllClear, Inv, TypeOK
<1>2. Places'
  BY ThreadAssumption DEF FreeAllClear, DropPro, DropDip, BuffereventFree,
       Deferred, Inv, TypeOK, Places
<1>3. Bufferevents'
  BY DEF FreeAllClear, DropPro, DropDip, BuffereventFree, Deferred, Inv,
         TypeOK, Bufferevents
<1>4. Locking'
  BY ThreadAssumption DEF FreeAllClear, DropPro, DropDip, BuffereventFree,
       Inv, TypeOK, Locking
<1>5. Stopping'
  BY DEF FreeAllClear, DropPro, DropDip, BuffereventFree, Inv, TypeOK,
         Stopping
<1>6. Holders'
  BY ThreadAssumption DEF FreeAllClear, DropPro, DropDip, BuffereventFree,
       Inv, TypeOK, Holders
<1>7. Unregistered'
  BY ThreadAssumption DEF FreeAllClear, DropPro, DropDip, BuffereventFree,
       Inv, TypeOK, Unregistered
<1>8. Garrisoned'
  BY DEF FreeAllClear, DropPro, DropDip, BuffereventFree, Inv, TypeOK,
         Garrisoned
<1>9. Withdrawals'
  BY DEF FreeAllClear, DropPro, DropDip, BuffereventFree, Inv, TypeOK,
         Withdrawals, Places, Holders, Unregistered
<1>10. IdsAccounted'
  BY DEF FreeAllClear, DropPro, DropDip, BuffereventFree, OwnsId, Inv, TypeOK,
         IdsAccounted
<1>. QED
  BY <1>1, <1>2, <1>3, <1>4, <1>5, <1>6, <1>7, <1>8, <1>9, <1>10 DEF Inv

\* FreeAllDiplomat leaves nothing registered behind.
LEMMA FreeAllUnlockInv ==
  ASSUME Inv, FreeAllUnlock
  PROVE  Inv'
<1>1. TypeOK'
  BY ThreadAssumption DEF FreeAllUnlock, Inv, TypeOK
<1>2. Locking'
  BY ThreadAssumption DEF FreeAllUnlock, Inv, TypeOK, Locking
<1>3. Stopping'
  BY DEF FreeAllUnlock, Inv, TypeOK, Stopping
<1>4. Withdrawals'
  BY DEF FreeAllUnlock, Inv, TypeOK, Withdrawals
<1>5. IdsAccounted'
  BY DEF FreeAllUnlock, OwnsId, Inv, TypeOK, IdsAccounted
<1>6. Places' /\ Bufferevents' /\ Holders' /\ Unregistered' /\ Garrisoned'
  BY Frame DEF FreeAllUnlock
<1>. QED
  BY <1>1, <1>2, <1>3, <1>4, <1>5, <1>6 DEF Inv

\* Breaking the loops comes after FreeAllDiplomat.
LEMMA LoopBreakInv ==
  ASSUME Inv, NEW l \in Loop, LoopBreak(l)
  PROVE  Inv'
<1>1. TypeOK'
  BY DEF LoopBreak, Inv, TypeOK
<1>2. Locking'
  BY ThreadAssumption DEF LoopBreak, Inv, TypeOK, Locking
<1>3. Stopping'
  BY DEF LoopBreak, Inv, TypeOK, Stopping
<1>4. Withdrawals'
  BY DEF LoopBreak, Inv, TypeOK, Withdrawals
<1>5. IdsAccounted'
  BY DEF LoopBreak, OwnsId, Inv, TypeOK, IdsAccounted
<1>6. Places' /\ Bufferevents' /\ Holders' /\ Unregistered' /\ Garrisoned'
  BY Frame DEF LoopBreak
<1>. QED
  BY <1>1, <1>2, <1>3, <1>4, <1>5, <1>6 DEF Inv

\* A loop exits between two calls.
LEMMA LoopExitInv ==
  ASSUME Inv, NEW l \in Loop, LoopExit(l)
  PROVE  Inv'
<1>1. TypeOK'
  BY DEF LoopExit, Goto, Inv, TypeOK
<1>2. Places'
  BY ThreadAssumption DEF LoopExit, Goto, Inv, TypeOK, Places
<1>3. Bufferevents'
  BY DEF LoopExit, Goto, Deferred, Inv, TypeOK, Bufferevents
<1>4. Stopping'
  BY DEF LoopExit, Goto, Inv, TypeOK, Stopping
<1>5. Holders'
  BY ThreadAssumption DEF LoopExit, Goto, Inv, TypeOK, Holders
<1>6. Unregistered'
  BY DEF LoopExit, Goto, Inv, TypeOK, Unregistered
<1>7. Garrisoned'
  BY DEF LoopExit, Goto, Inv, TypeOK, Garrisoned
<1>8. Withdrawals'
  BY DEF LoopExit, Goto, Inv, TypeOK, Withdrawals
<1>9. IdsAccounted'
  BY DEF LoopExit, Goto, OwnsId, Inv, TypeOK, IdsAccounted
<1>10. Locking'
  BY Frame DEF LoopExit
<1>. QED
  BY <1>1, <1>2, <1>3, <1>4, <1>5, <1>6, <1>7, <1>8, <1>9, <1>10 DEF Inv

\* Stop returns when all loops have exited.
LEMMA JoinInv ==
  ASSUME Inv, Join
  PROVE  Inv'
<1>1. TypeOK'
  BY DEF Join, Inv, TypeOK
<1>2. Locking'
  BY ThreadAssumption DEF Join, Inv, TypeOK, Locking
<1>3. Stopping'
  BY DEF Join, Inv, TypeOK, Stopping
<1>4. Withdrawals'
  BY DEF Join, Inv, TypeOK, Withdrawals
<1>5. IdsAccounted'
  BY DEF Join, OwnsId, Inv, TypeOK, IdsAccounted
<1>6. Places' /\ Bufferevents' /\ Holders' /\ Unregistered' /\ Garrisoned'
  BY Frame DEF Join
<1>. QED
  BY <1>1, <1>2, <1>3, <1>4, <1>5, <1>6 DEF Inv

-----------------------------------------------------------------------------
(* The invariant holds in every reachable state *)

\* Before the first connection there is nothing to hold.
LEMMA InitInv == Init => Inv
<1>. SUFFICES ASSUME Init PROVE Inv
  OBVIOUS
<1>1. TypeOK
  BY ThreadAssumption, MaxIndexAssumption DEF Init, TypeOK
<1>2. Places /\ Bufferevents /\ Locking /\ Stopping
  BY ThreadAssumption DEF Init, Places, Bufferevents, Deferred, Locking, Stopping
<1>3. Holders /\ Unregistered /\ Garrisoned /\ Withdrawals
  BY DEF Init, Holders, Unregistered, Garrisoned, Withdrawals
<1>4. IdsAccounted
  BY DEF Init, IdsAccounted, OwnsId
<1>. QED
  BY <1>1, <1>2, <1>3, <1>4 DEF Inv

\* Every step of a loop thread, of the network and of Stop keeps the invariant.
LEMMA NextInv == Inv /\ [Next]_vars => Inv'
<1>. SUFFICES ASSUME Inv, [Next]_vars PROVE Inv'
  OBVIOUS
<1>1. ASSUME NEW b \in Bev, Network(b) PROVE Inv'
  BY <1>1, AcceptInv, ReceiveInv, FailInv, FlushInv DEF Network
<1>2. ASSUME NEW b \in Bev, RunDeferred(b) PROVE Inv'
  BY <1>2, RunDeferredInv
<1>3. ASSUME NEW l \in Loop, LoopStep(l) PROVE Inv'
  <2>1. CASE Build(l)
    BY <2>1, GarrisonInv, RegisterInv, BuildDropProInv, BuildDropDipInv DEF Build
  <2>2. CASE StartRead(l) \/ StartEvent(l) \/ EndRun(l)
    BY <2>2, StartReadInv, StartEventInv, EndRunInv
  <2>3. CASE ReadCB(l)
    BY <2>3, ReadLookupInv, AbandonReadInv, RecvInv, RecvDropInv DEF ReadCB
  <2>4. CASE EventCB(l)
    BY <2>4, EventLookupInv, EventMissInv, FreeWithdrawInv, FreeReleaseIdInv,
       FreeDropInv DEF EventCB
  <2>. QED
    BY <1>3, <2>1, <2>2, <2>3, <2>4 DEF LoopStep
<1>4. ASSUME NEW l \in Loop, LoopExit(l) PROVE Inv'
  BY <1>4, LoopExitInv
<1>5. CASE Stop \/ DisableListener
  BY <1>5, StopInv, DisableListenerInv
<1>6. CASE MainStep
  BY <1>6, FreeAllLockInv, FreeAllReleaseIdInv, FreeAllUnlockInv, FreeAllWithdrawInv,
     FreeAllClearInv, JoinInv, LoopBreakInv DEF MainStep, FreeAllDiplomat
<1>7. CASE UNCHANGED vars
  <2>1. TypeOK'
    BY <1>7 DEF vars, Inv, TypeOK
  <2>2. /\ Places' /\ Bufferevents' /\ Locking' /\ Stopping' /\ Holders'
        /\ Unregistered' /\ Garrisoned' /\ Withdrawals' /\ IdsAccounted'
    BY <1>7, Frame DEF vars
  <2>. QED
    BY <2>1, <2>2 DEF Inv
<1>. QED
  BY <1>1, <1>2, <1>3, <1>4, <1>5, <1>6, <1>7 DEF Next, Terminated

\* So the invariant holds throughout.
LEMMA InvHolds == Spec => []Inv
BY InitInv, NextInv, PTL DEF Spec

-----------------------------------------------------------------------------
(* The properties *)

\* Every variable keeps its type.
THEOREM TypeCorrect == Spec => []TypeOK
<1>1. Inv => TypeOK
  BY DEF Inv
<1>. QED
  BY InvHolds, <1>1, PTL

\* No thread works on a Protocol, Diplomat or bufferevent that has been deleted,
\* whatever the loops and FreeAllDiplomat free meanwhile.
THEOREM NeverUsedAfterFree == Spec => []NoUseAfterFree
<1>1. Inv => NoUseAfterFree
  <2>. SUFFICES ASSUME Inv PROVE NoUseAfterFree
    OBVIOUS
  <2>1. ASSUME NEW b \in Bev, proRefs[b] # {}
        PROVE  dipRefs[b] # {} /\ bev[b] = "live"
    BY <2>1 DEF Inv, Holders
  <2>2. ASSUME NEW l \in Loop, pc[l] \in ProtocolSteps \cup {"dropDip"}
        PROVE  cur[l] \in Bev
    BY <2>2 DEF Inv, TypeOK, Places
  <2>3. ASSUME NEW l \in Loop, pc[l] \in ProtocolSteps
        PROVE  proRefs[cur[l]] # {}
    BY <2>2, <2>3 DEF Inv, Holders
  <2>4. ASSUME NEW l \in Loop, pc[l] = "dropDip"
        PROVE  dipRefs[cur[l]] # {} /\ bev[cur[l]] = "live"
    BY <2>2, <2>4 DEF Inv, Holders
  <2>5. ASSUME NEW b \in protocolDic
        PROVE  proRefs[b] # {}
    BY DEF Inv, TypeOK, Holders
  <2>. QED
    BY <2>1, <2>2, <2>3, <2>4, <2>5 DEF NoUseAfterFree, Inv, TypeOK
<1>. QED
  BY InvHolds, <1>1, PTL

\* RecvSomething and WithdrawDiplomat always find a memo.
THEOREM MemoAlwaysReady == Spec => []MemoReady
<1>1. Inv => MemoReady
  <2>. SUFFICES ASSUME Inv PROVE MemoReady
    OBVIOUS
  <2>1. ASSUME NEW l \in Loop, pc[l] \in {"recv", "withdraw"}
        PROVE  memo[cur[l]] # "NULL"
    BY <2>1 DEF Inv, TypeOK, Places, Holders, Unregistered, Garrisoned
  <2>2. ASSUME NEW b \in todo
        PROVE  memo[b] # "NULL"
    BY ThreadAssumption DEF Inv, TypeOK, Locking, Holders, Unregistered, Garrisoned
  <2>. QED
    BY <2>1, <2>2 DEF MemoReady
<1>. QED
  BY InvHolds, <1>1, PTL

\* BuildDiplomat never finds its new bufferevent registered already.
THEOREM NeverStaleEntry == Spec => []NoStaleEntry
<1>1. Inv => NoStaleEntry
  BY ThreadAssumption DEF Inv, TypeOK, Holders, Unregistered, NoStaleEntry
<1>. QED
  BY InvHolds, <1>1, PTL

\* Names are neither lost nor given back twice nor owned by two connections.
THEOREM IdsAlwaysAccounted == Spec => []IdsAccounted
<1>1. Inv => IdsAccounted
  BY DEF Inv
<1>. QED
  BY InvHolds, <1>1, PTL

\* Stop leaves no connection, no name and no reference behind.
THEOREM StopAlwaysReleasesAll == Spec => []StopReleasesAll
<1>1. Inv => StopReleasesAll
  <2>. SUFFICES ASSUME Inv, mainPc = "joined" PROVE
         /\ protocolDic = {} /\ idsHeld = {}
         /\ \A b \in Bev : proRefs[b] = {} /\ dipRefs[b] = {} /\ bev[b] # "live"
    BY DEF StopReleasesAll
  <2>1. protocolDic = {} /\ \A l \in Loop : pc[l] = "exited"
    BY DEF Inv, Stopping
  <2>2. idsHeld = {}
    BY <2>1 DEF Inv, IdsAccounted, OwnsId
  <2>3. \A b \in Bev : proRefs[b] = {}
    BY <2>1 DEF Inv, TypeOK, Holders
  <2>4. \A b \in Bev : dipRefs[b] = {} /\ bev[b] # "live"
    BY <2>1, <2>3 DEF Inv, TypeOK, Holders
  <2>. QED
    BY <2>1, <2>2, <2>3, <2>4
<1>. QED
  BY InvHolds, <1>1, PTL

\* No Protocol is told to withdraw twice.
THEOREM NeverWithdrawnTwice == Spec => WithdrawOnce
<1>1. ASSUME Inv, NEW b \in withdrawn
      PROVE  /\ ~ \E l \in Loop : cur[l] = b /\ FreeWithdraw(l)
             /\ ~ FreeAllWithdraw(b)
  <2>1. ASSUME NEW l \in Loop, cur[l] = b, FreeWithdraw(l)
        PROVE  FALSE
    <3>1. b \in Bev /\ pc[l] = "withdraw"
      BY <1>1, <2>1 DEF Inv, TypeOK, FreeWithdraw
    <3>2. proRefs[b] # {} /\ b \notin protocolDic
      BY <1>1, <2>1, <3>1 DEF Inv, Holders, Unregistered
    <3>. QED
      BY <1>1, <2>1, <3>1, <3>2 DEF Inv, Withdrawals
  <2>2. ~ FreeAllWithdraw(b)
    BY <1>1 DEF FreeAllWithdraw, Inv, TypeOK, Locking, Withdrawals
  <2>. QED
    BY <2>1, <2>2
<1>2. Inv => \A b \in withdrawn :
               /\ ~ \E l \in Loop : cur[l] = b /\ FreeWithdraw(l)
               /\ ~ FreeAllWithdraw(b)
  BY <1>1
<1>. QED
  BY InvHolds, <1>2, PTL DEF WithdrawOnce

\* No Protocol is deleted without having been told to withdraw.
THEOREM WithdrawnWhenDeleted == Spec => WithdrawnBeforeDeleted
<1>1. ASSUME Inv, [Next]_vars, NEW b \in Bev, proRefs[b] # {}, proRefs'[b] = {}
      PROVE  b \in withdrawn
  <2>1. ASSUME NEW l \in Loop, BuildDropPro(l) \/ RecvDrop(l) \/ FreeDrop(l)
        PROVE  b \in withdrawn
    <3>1. proRefs' = [proRefs EXCEPT ![cur[l]] = @ \ {l}]
      BY <2>1 DEF BuildDropPro, RecvDrop, FreeDrop, DropPro
    <3>2. cur[l] = b /\ proRefs[b] = {l}
      BY <1>1, <3>1 DEF Inv, TypeOK
    <3>3. b \notin protocolDic
      BY <1>1, <2>1, <3>2, ThreadAssumption DEF Inv, Holders
    <3>4. ~ \E m \in Loop : cur[m] = b /\ pc[m] \in {"garrison", "register", "withdraw"}
      BY <1>1, <2>1, <3>2 DEF Inv, TypeOK, Holders, BuildDropPro, RecvDrop, FreeDrop
    <3>. QED
      BY <1>1, <3>3, <3>4 DEF Inv, Withdrawals
  <2>2. ASSUME NEW c \in Bev, FreeAllClear(c)
        PROVE  b \in withdrawn
    <3>1. proRefs' = [proRefs EXCEPT ![c] = @ \ {Dic}]
      BY <2>2 DEF FreeAllClear, DropPro
    <3>2. c = b
      BY <1>1, <3>1 DEF Inv, TypeOK
    <3>. QED
      BY <1>1, <2>2, <3>2 DEF FreeAllClear, Inv, Withdrawals
  <2>3. ASSUME NEW c \in Bev, NEW l \in Loop, Accept(c, l)
        PROVE  FALSE
    BY <1>1, <2>3 DEF Accept, Inv, TypeOK
  <2>4. ASSUME NEW l \in Loop, Register(l) \/ ReadLookup(l) \/ EventLookup(l)
        PROVE  FALSE
    BY <1>1, <2>4 DEF Register, ReadLookup, EventLookup, Inv, TypeOK
  <2>5. CASE UNCHANGED proRefs
    BY <1>1, <2>5
  <2>6. ASSUME NEW c \in Bev, Network(c) \/ RunDeferred(c)
        PROVE  b \in withdrawn
    BY <2>3, <2>5, <2>6 DEF Network, Receive, Fail, Flush, RunDeferred
  <2>7. ASSUME NEW l \in Loop, LoopStep(l) \/ LoopExit(l)
        PROVE  b \in withdrawn
    BY <2>1, <2>4, <2>5, <2>7
       DEF LoopStep, Build, ReadCB, EventCB, Garrison, BuildDropDip, StartRead,
           StartEvent, EndRun, AbandonRead, Recv, EventMiss, FreeWithdraw,
           FreeReleaseId, LoopExit
  <2>8. CASE Stop \/ DisableListener \/ MainStep
    BY <2>2, <2>5, <2>8
       DEF Stop, DisableListener, MainStep, FreeAllDiplomat, FreeAllLock,
           FreeAllReleaseId, FreeAllUnlock, FreeAllWithdraw, Join, LoopBreak
  <2>. QED
    BY <1>1, <2>5, <2>6, <2>7, <2>8 DEF Next, Terminated, vars
<1>2. Inv /\ [Next]_vars =>
        \A b \in Bev : proRefs[b] # {} /\ proRefs'[b] = {} => b \in withdrawn
  BY <1>1
<1>. QED
  BY InvHolds, <1>2, PTL DEF WithdrawnBeforeDeleted, Spec
=============================================================================
