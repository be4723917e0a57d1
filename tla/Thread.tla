------------------------------- MODULE Thread ------------------------------
(***************************************************************************)
(* util/thread.{h,cpp} (the pthread build) and util/ref_counter.{h,cpp}:   *)
(* one Thread object, the users that refer to it by SmartPtrs, and the     *)
(* thread that it starts.  The object is deleted by whoever takes its      *)
(* counter to zero, be it a user, start() or the thread itself.            *)
(***************************************************************************)
EXTENDS Integers, FiniteSets

CONSTANTS
  User,  \* threads with a SmartPtr of their own that may refer to the object
  Hook   \* the thread that runs startHook

ASSUME UserAssumption == IsFiniteSet(User) /\ Hook \notin User

VARIABLES
  ref,       \* _ref
  noDelete,  \* _no_delete
  object,    \* "unborn", "live", "deleted"
  ptr,       \* users whose SmartPtr is not NULL
  control,   \* users that have a ThreadControl of the thread
  joined,    \* somebody has joined or detached the thread
  locked,    \* _stateMutex
  started,   \* _started
  running,   \* _running
  pc         \* where a user is in start(), and the thread in startHook

vars == <<ref, noDelete, object, ptr, control, joined, locked, started, running, pc>>

Actor == User \cup {Hook}
UserPc == {"idle", "lock", "test", "addref", "create", "flags", "unlock", "release", "delete", "join"}
HookPc == {"none", "created", "handover", "run", "done", "drop", "delete", "exit"}

TypeOK ==
  /\ ref \in Nat /\ noDelete \in BOOLEAN /\ object \in {"unborn", "live", "deleted"}
  /\ ptr \subseteq User /\ control \subseteq User /\ joined \in BOOLEAN
  /\ locked \in BOOLEAN /\ started \in BOOLEAN /\ running \in BOOLEAN
  /\ pc \in [Actor -> UserPc \cup HookPc]
  /\ \A u \in User : pc[u] \in UserPc
  /\ pc[Hook] \in HookPc

Init ==
  /\ ref = 0 /\ noDelete = FALSE /\ object = "unborn" /\ ptr = {} /\ control = {}
  /\ joined = FALSE /\ locked = FALSE /\ started = FALSE /\ running = FALSE
  /\ pc = [a \in Actor |-> IF a = Hook THEN "none" ELSE "idle"]

-----------------------------------------------------------------------------
(* RefCounter.  Each of these is the atomic operation on _ref; what Release *)
(* does with its result follows in Delete.                                  *)

AddRef == ref' = ref + 1

\* Release by actor a, which goes on at pc next unless it must delete the object.
ReleaseTo(a, next) ==
  /\ ref' = ref - 1
  /\ pc' = [pc EXCEPT ![a] = IF ref = 1 THEN "delete" ELSE next]

\* The rest of Release: "delete this", unless _no_delete forbids it.
Delete(a) ==
  /\ pc[a] = "delete"
  /\ pc' = [pc EXCEPT ![a] = IF a = Hook THEN "exit" ELSE "idle"]
  /\ object' = IF noDelete THEN object ELSE "deleted"
  /\ noDelete' = TRUE
  /\ UNCHANGED <<ref, ptr, control, joined, locked, started, running>>

-----------------------------------------------------------------------------
(* What users do with their SmartPtrs.                                      *)

stateVars == <<noDelete, joined, locked, started, running>>

\* ThreadPtr p = new MyThread.
New(u) ==
  /\ object = "unborn"
  /\ object' = "live"
  /\ AddRef
  /\ ptr' = ptr \cup {u}
  /\ UNCHANGED <<stateVars, control, pc>>

\* A SmartPtr is copied while the one it is copied from keeps its reference.
Copy(u, v) ==
  /\ pc[u] = "idle" /\ u \notin ptr /\ v \in ptr
  /\ AddRef
  /\ ptr' = ptr \cup {u}
  /\ UNCHANGED <<stateVars, object, control, pc>>

\* A SmartPtr is destroyed or set to NULL.
Drop(u) ==
  /\ pc[u] = "idle" /\ u \in ptr
  /\ ptr' = ptr \ {u}
  /\ ReleaseTo(u, "idle")
  /\ UNCHANGED <<stateVars, object, control>>

-----------------------------------------------------------------------------
(* Thread::start.                                                           *)

Goto(a, next) == pc' = [pc EXCEPT ![a] = next]

\* keepMe takes a reference: through a SmartPtr of the caller, or to the object just
\* made in (new MyThread)->start().
Start(u) ==
  /\ pc[u] = "idle"
  /\ u \in ptr \/ object = "unborn"
  /\ object' = "live"
  /\ AddRef
  /\ Goto(u, "lock")
  /\ UNCHANGED <<stateVars, ptr, control>>

\* bug: start does not take _stateMutex.
NotLocked == FALSE

Locked == TRUE

StartLock(u) ==
  /\ pc[u] = "lock" /\ ~locked
  /\ locked' = Locked
  /\ Goto(u, "test")
  /\ UNCHANGED <<ref, noDelete, object, ptr, control, joined, started, running>>

\* bug: _started is not looked at ...
AfterTestAlways == "addref"

\* bug: ... or throwing leaves _stateMutex locked.
AfterTestKeepsLock == IF started THEN "release" ELSE "addref"

AfterTest == IF started THEN "unlock" ELSE "addref"

\* A second start throws.
StartTest(u) ==
  /\ pc[u] = "test"
  /\ Goto(u, AfterTest)
  /\ UNCHANGED <<ref, stateVars, object, ptr, control>>

\* bug: the reference for the new thread is missing.
NewThreadRefs0 == 0

NewThreadRefs == 1

\* The reference that the new thread will own.
StartAddRef(u) ==
  /\ pc[u] = "addref"
  /\ ref' = ref + NewThreadRefs
  /\ Goto(u, "create")
  /\ UNCHANGED <<stateVars, object, ptr, control>>

StartCreate(u) ==
  /\ pc[u] = "create"
  /\ pc' = [pc EXCEPT ![u] = "flags", ![Hook] = "created"]
  /\ UNCHANGED <<ref, stateVars, object, ptr, control>>

\* bug: the new thread's reference is kept when there is no new thread.
KeepNewThreadRef(u) == UNCHANGED ref /\ Goto(u, "unlock")

GiveBackNewThreadRef(u) == ReleaseTo(u, "unlock")

\* The attributes or pthread_create fail: the new thread's reference is given back and
\* start throws.
StartFails(u) ==
  /\ pc[u] = "create"
  /\ GiveBackNewThreadRef(u)
  /\ UNCHANGED <<stateVars, object, ptr, control>>

\* The flags, and the ThreadControl that start returns.
StartFlags(u) ==
  /\ pc[u] = "flags"
  /\ started' = TRUE
  /\ running' = TRUE
  /\ control' = control \cup {u}
  /\ Goto(u, "unlock")
  /\ UNCHANGED <<ref, noDelete, object, ptr, joined, locked>>

\* The mutex is left before keepMe, which was declared before the AutoMutex.
StartUnlock(u) ==
  /\ pc[u] = "unlock"
  /\ locked' = FALSE
  /\ Goto(u, "release")
  /\ UNCHANGED <<ref, noDelete, object, ptr, control, joined, started, running>>

StartRelease(u) ==
  /\ pc[u] = "release" /\ ReleaseTo(u, "idle")
  /\ UNCHANGED <<stateVars, object, ptr, control>>

StartStep(u) ==
  \/ StartLock(u) \/ StartTest(u) \/ StartAddRef(u) \/ StartCreate(u) \/ StartFails(u)
  \/ StartFlags(u) \/ StartUnlock(u) \/ StartRelease(u)

-----------------------------------------------------------------------------
(* ThreadControl.                                                           *)

\* getThreadControl, which throws before the thread is started.
GetThreadControl(u) ==
  /\ pc[u] = "idle" /\ u \in ptr /\ ~locked /\ started
  /\ control' = control \cup {u}
  /\ UNCHANGED <<ref, stateVars, object, ptr, pc>>

\* join and detach: thread.h demands one of them, once.
Join(u) ==
  /\ pc[u] = "idle" /\ u \in control /\ ~joined
  /\ joined' = TRUE
  /\ Goto(u, "join")
  /\ UNCHANGED <<ref, noDelete, object, ptr, control, locked, started, running>>

JoinReturns(u) ==
  /\ pc[u] = "join" /\ pc[Hook] = "exit"
  /\ Goto(u, "idle")
  /\ UNCHANGED <<ref, stateVars, object, ptr, control>>

Detach(u) ==
  /\ pc[u] = "idle" /\ u \in control /\ ~joined
  /\ joined' = TRUE
  /\ UNCHANGED <<ref, noDelete, object, ptr, control, locked, started, running, pc>>

-----------------------------------------------------------------------------
(* startHook.                                                               *)

\* thread = rawThread.
HookHold ==
  /\ pc[Hook] = "created"
  /\ AddRef
  /\ Goto(Hook, "handover")
  /\ UNCHANGED <<stateVars, object, ptr, control>>

\* rawThread->Release().
HookRelease ==
  /\ pc[Hook] = "handover" /\ ReleaseTo(Hook, "run")
  /\ UNCHANGED <<stateVars, object, ptr, control>>

\* thread->run() returns.
HookRun ==
  /\ pc[Hook] = "run"
  /\ Goto(Hook, "done")
  /\ UNCHANGED <<ref, stateVars, object, ptr, control>>

\* _done.
HookDone ==
  /\ pc[Hook] = "done" /\ ~locked
  /\ running' = FALSE
  /\ Goto(Hook, "drop")
  /\ UNCHANGED <<ref, noDelete, object, ptr, control, joined, locked, started>>

\* The SmartPtr thread goes out of scope.
HookDrop ==
  /\ pc[Hook] = "drop" /\ ReleaseTo(Hook, "exit")
  /\ UNCHANGED <<stateVars, object, ptr, control>>

HookStep == HookHold \/ HookRelease \/ HookRun \/ HookDone \/ HookDrop \/ Delete(Hook)

-----------------------------------------------------------------------------
UserStep(u) == StartStep(u) \/ JoinReturns(u) \/ Delete(u)

\* What users do when they like.
Use(u) == New(u) \/ Drop(u) \/ Start(u) \/ GetThreadControl(u) \/ Join(u) \/ Detach(u)

Next ==
  \/ \E u \in User : Use(u) \/ UserStep(u)
  \/ \E u, v \in User : Copy(u, v)
  \/ HookStep

Spec == Init /\ [][Next]_vars

\* Threads run and run() comes to its end.  Fairness is strong because a mutex that is free
\* again and again is some day got by each thread that waits for it.
FairSpec ==
  /\ Spec
  /\ \A u \in User : SF_vars(UserStep(u))
  /\ SF_vars(HookStep)

-----------------------------------------------------------------------------
(* The references that exist: SmartPtrs of users, keepMe of a start, the    *)
(* one that start takes for the new thread, and startHook's SmartPtr.       *)

Starting(u) == pc[u] \in {"lock", "test", "addref", "create", "flags", "unlock", "release"}

Reference == (User \X {"ptr", "keepMe"}) \cup {<<Hook, "new thread">>, <<Hook, "thread">>}

NewThreadRef == pc[Hook] \in {"created", "handover"} \/ \E u \in User : pc[u] = "create"

Refers(r) ==
  \/ r[2] = "ptr" /\ r[1] \in ptr
  \/ r[2] = "keepMe" /\ Starting(r[1])
  \/ r[2] = "new thread" /\ NewThreadRef
  \/ r[2] = "thread" /\ pc[Hook] \in {"handover", "run", "done", "drop"}

Owners == {r \in Reference : Refers(r)}

Life ==
  IF object = "unborn" THEN "unborn"
  ELSE IF object = "deleted" \/ \E a \in Actor : pc[a] = "delete" THEN "dead"
  ELSE "live"

-----------------------------------------------------------------------------
(* Properties.                                                              *)

\* The atomic counter with its deferred "delete this" implements Ownership: the object
\* is deleted when and only when the last SmartPtr or raw reference goes, whoever has it,
\* and nobody refers to it any more from then on (RefCounter::Release, SmartPtr, start).
O == INSTANCE Ownership WITH refs <- Owners, life <- Life
OwnershipSpec == O!Spec

\* Nobody is inside a method of a deleted object, start() and _done() included, or about
\* to enter one with the raw pointer that pthread_create was given.
NoUseAfterFree ==
  object = "deleted" =>
    /\ ptr = {}
    /\ \A u \in User : pc[u] \in {"idle", "join"}
    /\ pc[Hook] \in {"none", "exit"}

\* start() sets _running under _stateMutex, so that it cannot come after _done: once the
\* thread is past _done, isAlive never says otherwise.
DoneIsFinal == pc[Hook] \in {"drop", "delete", "exit"} => started /\ ~running
=============================================================================
