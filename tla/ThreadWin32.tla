----------------------------- MODULE ThreadWin32 ---------------------------
(***************************************************************************)
(* The two builds of util/thread.cpp.  The _WIN32 one shares the state of  *)
(* module Thread and most of its steps.  It creates the thread suspended   *)
(* and resumes it once the flags are set, answers a second start() with a  *)
(* ThreadControl, and has three calls that can fail, two of them when the  *)
(* suspended thread exists already.  assert(0) does nothing, as in a       *)
(* release build.                                                          *)
(***************************************************************************)
EXTENDS Thread

CONSTANT MaxSuspended  \* bound: how often SetThreadPriority fails

ASSUME SuspendedAssumption == MaxSuspended \in Nat

VARIABLES
  win32,     \* the build has _WIN32
  suspended  \* how many threads start has made and never resumed

varsBuild == <<vars, win32, suspended>>

InitBuild == Init /\ win32 \in BOOLEAN /\ suspended = 0

-----------------------------------------------------------------------------
(* Thread::start.                                                           *)

\* A second start returns a ThreadControl like the first.
SecondStart(u) ==
  /\ pc[u] = "test" /\ started
  /\ control' = control \cup {u}
  /\ Goto(u, "unlock")
  /\ UNCHANGED <<ref, stateVars, object, ptr>>

\* The flags are set while the thread cannot run yet.
SetFlags == started' = TRUE /\ running' = TRUE

Resume(u) ==
  /\ pc[u] = "create"
  /\ SetFlags
  /\ control' = control \cup {u}
  /\ pc' = [pc EXCEPT ![u] = "unlock", ![Hook] = "created"]
  /\ UNCHANGED <<ref, noDelete, object, ptr, joined, locked>>

\* ResumeThread fails: start throws, the flags stay set, and the thread stays suspended.
ResumeFails(u) ==
  /\ pc[u] = "create"
  /\ SetFlags
  /\ GiveBackNewThreadRef(u)
  /\ suspended' = suspended + 1
  /\ UNCHANGED <<noDelete, object, ptr, control, joined, locked>>

\* SetThreadPriority fails: start gives up as if it had made no thread, _started stays
\* FALSE, and the thread stays suspended, with nobody to resume, join or detach it.
PriorityFails(u) ==
  /\ suspended < MaxSuspended   \* bound
  /\ StartFails(u)
  /\ suspended' = suspended + 1

\* _beginthreadex fails as pthread_create does, in StartFails.
StartStepWin32(u) ==
  \/ PriorityFails(u) \/ ResumeFails(u)
  \/ /\ \/ StartLock(u) \/ (~started /\ StartTest(u)) \/ SecondStart(u)
        \/ StartAddRef(u) \/ StartFails(u) \/ Resume(u) \/ StartUnlock(u) \/ StartRelease(u)
     /\ UNCHANGED suspended

-----------------------------------------------------------------------------
(* startHook.                                                               *)

\* srand gets the thread's id from getThreadControl, which locks _stateMutex; nobody sees
\* how long before that the SmartPtr thread was filled, for the other reference is still there.
HookHoldWin32 == ~locked /\ HookHold

HookStepWin32 == HookHoldWin32 \/ HookRelease \/ HookRun \/ HookDone \/ HookDrop \/ Delete(Hook)

-----------------------------------------------------------------------------
\* WaitForSingleObject waits like pthread_join.
JoinReturnsWin32(u) == JoinReturns(u)

StartOrReturn(u) ==
  \/ win32 /\ StartStepWin32(u)
  \/ win32 /\ (JoinReturnsWin32(u) \/ Delete(u)) /\ UNCHANGED suspended
  \/ ~win32 /\ UserStep(u) /\ UNCHANGED suspended

HookGoes == (IF win32 THEN HookStepWin32 ELSE HookStep) /\ UNCHANGED suspended

NextBuild ==
  /\ \/ \E u \in User : StartOrReturn(u) \/ (Use(u) /\ UNCHANGED suspended)
     \/ \E u, v \in User : Copy(u, v) /\ UNCHANGED suspended
     \/ HookGoes
  /\ UNCHANGED win32

BuildSpec == InitBuild /\ [][NextBuild]_varsBuild

\* The fairness of Thread, for either build.
FairBuild ==
  /\ BuildSpec
  /\ \A u \in User : SF_vars(StartOrReturn(u))
  /\ SF_vars(HookGoes)

-----------------------------------------------------------------------------
\* However many users call start(), one after the other has failed or all together: of the
\* threads that are made one at most is ever resumed, and once _started is set no start
\* makes another one, in either build.
OneThread ==
  [][/\ pc'[Hook] = "created" => pc[Hook] \in {"none", "created"}
     /\ started => suspended' = suspended /\ (pc[Hook] = "none" => pc'[Hook] = "none")]_varsBuild

\* start() said that it failed, and has left a thread that never runs.
Suspended == win32 /\ started /\ pc[Hook] = "none"

\* start() and join() return: neither waits for ever for _stateMutex or for the thread.
\* The one exception is join() on a thread that ResumeThread failed to resume: _started
\* is set all the same, so that getThreadControl hands out a control of it.
CallsReturn ==
  \A u \in User : pc[u] # "idle" ~> pc[u] = "idle" \/ (Suspended /\ pc[u] = "join")
=============================================================================
