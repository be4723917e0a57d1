---------------------------- MODULE Thread_proofs --------------------------
(***************************************************************************)
(* Proofs about Thread and ThreadWin32 for any number of users: in both     *)
(* builds the counter is the number of references, so the object is        *)
(* deleted with the last of them.                                          *)
(***************************************************************************)
EXTENDS ThreadWin32, TLAPS, FiniteSetTheorems

USE DEF Locked, AfterTest, NewThreadRefs, GiveBackNewThreadRef, SetFlags, Use

(***************************************************************************)
(* The inductive invariant.                                                *)
(***************************************************************************)

\* The atomic counter counts the references.
Counted == ref = Cardinality(Owners)

\* At most one actor is about to delete the object.
OneDeleter == \A a, b \in Actor : pc[a] = "delete" /\ pc[b] = "delete" => a = b

\* The object lives while there are references, and until the one that took the
\* counter to zero has deleted it.
Lives ==
  /\ object = "unborn" => /\ Owners = {} /\ control = {} /\ pc[Hook] = "none"
                          /\ \A u \in User : pc[u] = "idle"
  /\ object = "live" => (Owners = {} <=> \E a \in Actor : pc[a] = "delete")
  /\ object = "deleted" => Owners = {} /\ \A a \in Actor : pc[a] # "delete"
  /\ noDelete <=> object = "deleted"

InLock(u) == pc[u] \in {"test", "addref", "create", "flags", "unlock"}

\* _stateMutex is held by one start at a time.
Locking ==
  /\ \A u \in User : InLock(u) => locked
  /\ \A u, v \in User : InLock(u) /\ InLock(v) => u = v

\* The thread exists once start has created it, and does not get past _done before
\* start has set the flags.
Starts ==
  /\ \A u \in User : pc[u] \in {"addref", "create"} => ~started /\ pc[Hook] = "none"
  /\ \A u \in User : pc[u] = "flags" => pc[Hook] \in {"created", "handover", "run", "done"}
  /\ pc[Hook] # "none" => started \/ \E u \in User : pc[u] = "flags"
  /\ DoneIsFinal

IInv == TypeOK /\ Counted /\ OneDeleter /\ Lives /\ Locking /\ Starts

-----------------------------------------------------------------------------
(* What a step does to the references: nothing, one more, or one less.      *)

Keeps == Owners' = Owners /\ ref' = ref
Takes(x) == x \in Reference \ Owners /\ Owners' = Owners \cup {x} /\ ref' = ref + 1
Gives(x) == x \in Owners /\ Owners' = Owners \ {x} /\ ref' = ref - 1

\* There are finitely many references.
LEMMA OwnersFinite == IsFiniteSet(Owners) /\ IsFiniteSet(Owners')
<1>0. \A a, b : IsFiniteSet({a, b})
  <2>1. \A a, b : {a, b} = {a} \cup {b}
    OBVIOUS
  <2> TAKE a, b
  <2>2. IsFiniteSet({a})
    BY FS_Singleton
  <2>3. IsFiniteSet({a} \cup {b})
    BY <2>2, FS_AddElement
  <2> QED
    BY <2>1, <2>3
<1>1. IsFiniteSet(User \X {"ptr", "keepMe"})
  BY <1>0, FS_Product, UserAssumption
<1>2. IsFiniteSet({<<Hook, "new thread">>, <<Hook, "thread">>})
  BY <1>0
<1>3. IsFiniteSet(Reference)
  BY <1>1, <1>2, FS_Union DEF Reference
<1>4. Owners \in SUBSET Reference /\ Owners' \in SUBSET Reference
  BY DEF Owners
<1> QED
  BY <1>3, <1>4, FS_Subset

\* Taking and giving references keep the counter equal to their number.
LEMMA CountedStep ==
  ASSUME Counted, Keeps \/ \E x : Takes(x) \/ Gives(x)
  PROVE  Counted'
<1>1. CASE Keeps
  BY <1>1 DEF Counted, Keeps
<1>2. CASE \E x : Takes(x)
  BY <1>2, OwnersFinite, FS_AddElement DEF Counted, Takes
<1>3. CASE \E x : Gives(x)
  BY <1>3, OwnersFinite, FS_RemoveElement DEF Counted, Gives
<1> QED
  BY <1>1, <1>2, <1>3

\* Release finds the counter at one exactly when it gives back the last reference.
LEMMA LastOne ==
  ASSUME Counted, NEW x, Gives(x)
  PROVE  ref = 1 <=> Owners' = {}
<1>1. Cardinality(Owners \ {x}) = Cardinality(Owners) - 1 /\ IsFiniteSet(Owners \ {x})
  BY OwnersFinite, FS_RemoveElement DEF Gives
<1>2. Cardinality(Owners) \in Nat
  BY OwnersFinite, FS_CardinalityType
<1> QED
  BY <1>1, <1>2, FS_EmptySet DEF Counted, Gives
-----------------------------------------------------------------------------
(* The references one by one.                                               *)

\* There are four kinds of them.
LEMMA ReferenceCases ==
  \A r \in Reference : \/ \E u \in User : r = <<u, "ptr">> \/ r = <<u, "keepMe">>
                       \/ r = <<Hook, "new thread">> \/ r = <<Hook, "thread">>
<1> TAKE r \in Reference
<1>1. CASE r \in User \X {"ptr", "keepMe"}
  <2>1. PICK u \in User, p \in {"ptr", "keepMe"} : r = <<u, p>>
    BY <1>1
  <2> QED
    BY <2>1
<1>2. CASE r \in {<<Hook, "new thread">>, <<Hook, "thread">>}
  BY <1>2
<1> QED
  BY <1>1, <1>2 DEF Reference

\* ... and all are references.
LEMMA AreReferences ==
  /\ \A u \in User : <<u, "ptr">> \in Reference /\ <<u, "keepMe">> \in Reference
  /\ <<Hook, "new thread">> \in Reference /\ <<Hook, "thread">> \in Reference
BY DEF Reference

Meaning ==
  /\ \A u \in User : /\ Refers(<<u, "ptr">>) <=> u \in ptr
                     /\ Refers(<<u, "keepMe">>) <=> Starting(u)
  /\ Refers(<<Hook, "new thread">>) <=> NewThreadRef
  /\ Refers(<<Hook, "thread">>) <=> pc[Hook] \in {"handover", "run", "done", "drop"}

\* What each kind stands for, in this state and in the next.
LEMMA MeaningHolds == Meaning /\ Meaning'
BY DEF Meaning, Refers

\* A reference is added, removed, or nothing changes, if that is so for each of them.
LEMMA Added ==
  ASSUME NEW x \in Reference, ~Refers(x), ref' = ref + 1,
         \A r \in Reference : Refers(r)' <=> Refers(r) \/ r = x
  PROVE  Takes(x)
BY DEF Takes, Owners

LEMMA Removed ==
  ASSUME NEW x \in Reference, Refers(x), ref' = ref - 1,
         \A r \in Reference : Refers(r)' <=> Refers(r) /\ r # x
  PROVE  Gives(x)
BY DEF Gives, Owners

LEMMA Kept ==
  ASSUME ref' = ref, \A r \in Reference : Refers(r)' <=> Refers(r)
  PROVE  Keeps
BY DEF Keeps, Owners

\* With two references the counter is not at one.
LEMMA TwoReferences ==
  ASSUME Counted, NEW x \in Owners, NEW y \in Owners, x # y
  PROVE  ref # 1
<1>1. Cardinality(Owners \ {x}) = Cardinality(Owners) - 1 /\ IsFiniteSet(Owners \ {x})
  BY OwnersFinite, FS_RemoveElement
<1>2. Cardinality(Owners) \in Nat
  BY OwnersFinite, FS_CardinalityType
<1>3. Cardinality(Owners \ {x}) # 0
  BY <1>1, FS_EmptySet
<1> QED
  BY <1>1, <1>2, <1>3 DEF Counted

-----------------------------------------------------------------------------
(* What each action does to the references.                                 *)

\* A new object gets the SmartPtr that it is assigned to.
LEMMA NewTakes ==
  ASSUME IInv, NEW u \in User, New(u)
  PROVE  Takes(<<u, "ptr">>)
<1> DEFINE x == <<u, "ptr">>
<1>1. ~Refers(x)
  BY MeaningHolds, AreReferences
  DEF IInv, TypeOK, Meaning, Owners, New, Starting, NewThreadRef, Starts, Lives, Locking,
      InLock
<1>2. \A w \in User : Starting(w)' <=> Starting(w)
  BY UserAssumption
  DEF IInv, TypeOK, New, stateVars, Actor, Starting
<1>3. NewThreadRef' <=> NewThreadRef
  BY UserAssumption
  DEF IInv, TypeOK, New, stateVars, Actor, NewThreadRef, Locking, InLock, Starts
<1>4. pc'[Hook] \in {"handover", "run", "done", "drop"}
        <=> pc[Hook] \in {"handover", "run", "done", "drop"}
  BY UserAssumption
  DEF IInv, TypeOK, New, stateVars, Actor
<1>5. \A w \in User : w \in ptr' <=> w \in ptr \/ w = u
  BY DEF IInv, TypeOK, New
<1>6. ASSUME NEW r \in Reference
      PROVE  Refers(r)' <=> Refers(r) \/ r = x
  BY <1>1, <1>2, <1>3, <1>4, <1>5, <1>6, ReferenceCases, MeaningHolds, UserAssumption
  DEF Meaning
<1> QED
  BY <1>1, <1>6, AreReferences, Added DEF New, AddRef

\* Copying a SmartPtr adds it.
LEMMA CopyTakes ==
  ASSUME IInv, NEW u \in User, NEW v \in User, Copy(u, v)
  PROVE  Takes(<<u, "ptr">>)
<1> DEFINE x == <<u, "ptr">>
<1>1. ~Refers(x)
  BY MeaningHolds, AreReferences
  DEF IInv, TypeOK, Meaning, Owners, Copy, Starting, NewThreadRef, Starts, Lives, Locking,
      InLock
<1>2. \A w \in User : Starting(w)' <=> Starting(w)
  BY UserAssumption
  DEF IInv, TypeOK, Copy, stateVars, Actor, Starting
<1>3. NewThreadRef' <=> NewThreadRef
  BY UserAssumption
  DEF IInv, TypeOK, Copy, stateVars, Actor, NewThreadRef, Locking, InLock, Starts
<1>4. pc'[Hook] \in {"handover", "run", "done", "drop"}
        <=> pc[Hook] \in {"handover", "run", "done", "drop"}
  BY UserAssumption
  DEF IInv, TypeOK, Copy, stateVars, Actor
<1>5. \A w \in User : w \in ptr' <=> w \in ptr \/ w = u
  BY DEF IInv, TypeOK, Copy
<1>6. ASSUME NEW r \in Reference
      PROVE  Refers(r)' <=> Refers(r) \/ r = x
  BY <1>1, <1>2, <1>3, <1>4, <1>5, <1>6, ReferenceCases, MeaningHolds, UserAssumption
  DEF Meaning
<1> QED
  BY <1>1, <1>6, AreReferences, Added DEF Copy, AddRef

\* Dropping a SmartPtr removes it.
LEMMA DropGives ==
  ASSUME IInv, NEW u \in User, Drop(u)
  PROVE  Gives(<<u, "ptr">>)
<1> DEFINE x == <<u, "ptr">>
<1>1. Refers(x)
  BY MeaningHolds, AreReferences
  DEF IInv, TypeOK, Meaning, Owners, Drop, Starting, NewThreadRef, Starts, Lives, Locking,
      InLock
<1>2. \A w \in User : Starting(w)' <=> Starting(w)
  BY UserAssumption
  DEF IInv, TypeOK, Drop, ReleaseTo, stateVars, Actor, Starting
<1>3. NewThreadRef' <=> NewThreadRef
  BY UserAssumption
  DEF IInv, TypeOK, Drop, ReleaseTo, stateVars, Actor, NewThreadRef, Locking, InLock,
      Starts
<1>4. pc'[Hook] \in {"handover", "run", "done", "drop"}
        <=> pc[Hook] \in {"handover", "run", "done", "drop"}
  BY UserAssumption
  DEF IInv, TypeOK, Drop, ReleaseTo, stateVars, Actor
<1>5. \A w \in User : w \in ptr' <=> w \in ptr /\ w # u
  BY DEF IInv, TypeOK, Drop
<1>6. ASSUME NEW r \in Reference
      PROVE  Refers(r)' <=> Refers(r) /\ r # x
  BY <1>1, <1>2, <1>3, <1>4, <1>5, <1>6, ReferenceCases, MeaningHolds, UserAssumption
  DEF Meaning
<1> QED
  BY <1>1, <1>6, AreReferences, Removed DEF Drop, ReleaseTo

\* start adds keepMe.
LEMMA StartTakes ==
  ASSUME IInv, NEW u \in User, Start(u)
  PROVE  Takes(<<u, "keepMe">>)
<1> DEFINE x == <<u, "keepMe">>
<1>1. ~Refers(x)
  BY MeaningHolds, AreReferences
  DEF IInv, TypeOK, Meaning, Owners, Start, Starting, NewThreadRef, Starts, Lives, Locking,
      InLock
<1>2. \A w \in User : Starting(w)' <=> Starting(w) \/ w = u
  BY UserAssumption
  DEF IInv, TypeOK, Start, Goto, stateVars, Actor, Starting
<1>3. NewThreadRef' <=> NewThreadRef
  BY UserAssumption
  DEF IInv, TypeOK, Start, Goto, stateVars, Actor, NewThreadRef, Locking, InLock, Starts
<1>4. pc'[Hook] \in {"handover", "run", "done", "drop"}
        <=> pc[Hook] \in {"handover", "run", "done", "drop"}
  BY UserAssumption
  DEF IInv, TypeOK, Start, Goto, stateVars, Actor
<1>5. \A w \in User : w \in ptr' <=> w \in ptr
  BY DEF IInv, TypeOK, Start
<1>6. ASSUME NEW r \in Reference
      PROVE  Refers(r)' <=> Refers(r) \/ r = x
  BY <1>1, <1>2, <1>3, <1>4, <1>5, <1>6, ReferenceCases, MeaningHolds, UserAssumption
  DEF Meaning
<1> QED
  BY <1>1, <1>6, AreReferences, Added DEF Start, AddRef

\* start adds the reference for the new thread.
LEMMA AddRefTakes ==
  ASSUME IInv, NEW u \in User, StartAddRef(u)
  PROVE  Takes(<<Hook, "new thread">>)
<1> DEFINE x == <<Hook, "new thread">>
<1>1. ~Refers(x)
  BY MeaningHolds, AreReferences
  DEF IInv, TypeOK, Meaning, Owners, StartAddRef, Starting, NewThreadRef, Starts, Lives,
      Locking, InLock
<1>2. \A w \in User : Starting(w)' <=> Starting(w)
  BY UserAssumption
  DEF IInv, TypeOK, StartAddRef, Goto, stateVars, Actor, Starting
<1>3. NewThreadRef' <=> TRUE
  BY UserAssumption
  DEF IInv, TypeOK, StartAddRef, Goto, stateVars, Actor, NewThreadRef, Locking, InLock,
      Starts
<1>4. pc'[Hook] \in {"handover", "run", "done", "drop"}
        <=> pc[Hook] \in {"handover", "run", "done", "drop"}
  BY UserAssumption
  DEF IInv, TypeOK, StartAddRef, Goto, stateVars, Actor
<1>5. \A w \in User : w \in ptr' <=> w \in ptr
  BY DEF IInv, TypeOK, StartAddRef
<1>6. ASSUME NEW r \in Reference
      PROVE  Refers(r)' <=> Refers(r) \/ r = x
  BY <1>1, <1>2, <1>3, <1>4, <1>5, <1>6, ReferenceCases, MeaningHolds, UserAssumption
  DEF Meaning
<1> QED
  BY <1>1, <1>6, AreReferences, Added DEF StartAddRef, AddRef

\* When start takes back the reference for the new thread, keepMe is there.
LEMMA FailNotLast ==
  ASSUME IInv, NEW u \in User, StartFails(u) \/ ResumeFails(u)
  PROVE  ref # 1
<1>1. <<Hook, "new thread">> \in Owners /\ <<u, "keepMe">> \in Owners
  BY MeaningHolds, AreReferences
  DEF Owners, Meaning, StartFails, ResumeFails, Starting, NewThreadRef
<1> QED
  BY <1>1, TwoReferences, UserAssumption DEF IInv

\* A failing start takes it back.
LEMMA FailGives ==
  ASSUME IInv, NEW u \in User, StartFails(u) \/ ResumeFails(u)
  PROVE  Gives(<<Hook, "new thread">>)
<1> DEFINE x == <<Hook, "new thread">>
<1>1. Refers(x)
  BY MeaningHolds, AreReferences
  DEF IInv, TypeOK, Meaning, Owners, StartFails, ResumeFails, Starting, NewThreadRef,
      Starts, Lives, Locking, InLock
<1>2. \A w \in User : Starting(w)' <=> Starting(w)
  BY FailNotLast, UserAssumption
  DEF IInv, TypeOK, StartFails, ResumeFails, ReleaseTo, stateVars, Actor, Starting
<1>3. NewThreadRef' <=> FALSE
  BY FailNotLast, UserAssumption
  DEF IInv, TypeOK, StartFails, ResumeFails, ReleaseTo, stateVars, Actor, NewThreadRef,
      Locking, InLock, Starts
<1>4. pc'[Hook] \in {"handover", "run", "done", "drop"}
        <=> pc[Hook] \in {"handover", "run", "done", "drop"}
  BY FailNotLast, UserAssumption
  DEF IInv, TypeOK, StartFails, ResumeFails, ReleaseTo, stateVars, Actor
<1>5. \A w \in User : w \in ptr' <=> w \in ptr
  BY DEF IInv, TypeOK, StartFails, ResumeFails
<1>6. ASSUME NEW r \in Reference
      PROVE  Refers(r)' <=> Refers(r) /\ r # x
  BY <1>1, <1>2, <1>3, <1>4, <1>5, <1>6, ReferenceCases, MeaningHolds, UserAssumption
  DEF Meaning
<1> QED
  BY <1>1, <1>6, AreReferences, Removed DEF StartFails, ResumeFails, ReleaseTo

\* start removes keepMe.
LEMMA ReleaseGives ==
  ASSUME IInv, NEW u \in User, StartRelease(u)
  PROVE  Gives(<<u, "keepMe">>)
<1> DEFINE x == <<u, "keepMe">>
<1>1. Refers(x)
  BY MeaningHolds, AreReferences
  DEF IInv, TypeOK, Meaning, Owners, StartRelease, Starting, NewThreadRef, Starts, Lives,
      Locking, InLock
<1>2. \A w \in User : Starting(w)' <=> Starting(w) /\ w # u
  BY UserAssumption
  DEF IInv, TypeOK, StartRelease, ReleaseTo, stateVars, Actor, Starting
<1>3. NewThreadRef' <=> NewThreadRef
  BY UserAssumption
  DEF IInv, TypeOK, StartRelease, ReleaseTo, stateVars, Actor, NewThreadRef, Locking,
      InLock, Starts
<1>4. pc'[Hook] \in {"handover", "run", "done", "drop"}
        <=> pc[Hook] \in {"handover", "run", "done", "drop"}
  BY UserAssumption
  DEF IInv, TypeOK, StartRelease, ReleaseTo, stateVars, Actor
<1>5. \A w \in User : w \in ptr' <=> w \in ptr
  BY DEF IInv, TypeOK, StartRelease
<1>6. ASSUME NEW r \in Reference
      PROVE  Refers(r)' <=> Refers(r) /\ r # x
  BY <1>1, <1>2, <1>3, <1>4, <1>5, <1>6, ReferenceCases, MeaningHolds, UserAssumption
  DEF Meaning
<1> QED
  BY <1>1, <1>6, AreReferences, Removed DEF StartRelease, ReleaseTo

\* startHook adds its SmartPtr.
LEMMA HoldTakes ==
  ASSUME IInv, HookHold
  PROVE  Takes(<<Hook, "thread">>)
<1> DEFINE x == <<Hook, "thread">>
<1>1. ~Refers(x)
  BY MeaningHolds, AreReferences
  DEF IInv, TypeOK, Meaning, Owners, HookHold, Starting, NewThreadRef, Starts, Lives,
      Locking, InLock
<1>2. \A w \in User : Starting(w)' <=> Starting(w)
  BY UserAssumption
  DEF IInv, TypeOK, HookHold, Goto, stateVars, Actor, Starting
<1>3. NewThreadRef' <=> NewThreadRef
  BY UserAssumption
  DEF IInv, TypeOK, HookHold, Goto, stateVars, Actor, NewThreadRef, Locking, InLock, Starts
<1>4. pc'[Hook] \in {"handover", "run", "done", "drop"}
        <=> TRUE
  BY UserAssumption
  DEF IInv, TypeOK, HookHold, Goto, stateVars, Actor
<1>5. \A w \in User : w \in ptr' <=> w \in ptr
  BY DEF IInv, TypeOK, HookHold
<1>6. ASSUME NEW r \in Reference
      PROVE  Refers(r)' <=> Refers(r) \/ r = x
  BY <1>1, <1>2, <1>3, <1>4, <1>5, <1>6, ReferenceCases, MeaningHolds, UserAssumption
  DEF Meaning
<1> QED
  BY <1>1, <1>6, AreReferences, Added DEF HookHold, AddRef

\* When startHook gives it back, its own SmartPtr is there.
LEMMA HandoverNotLast ==
  ASSUME IInv, HookRelease
  PROVE  ref # 1
<1>1. <<Hook, "new thread">> \in Owners /\ <<Hook, "thread">> \in Owners
  BY MeaningHolds, AreReferences DEF Owners, Meaning, HookRelease, Starting, NewThreadRef
<1> QED
  BY <1>1, TwoReferences, UserAssumption DEF IInv

\* startHook removes the reference that start took.
LEMMA HandoverGives ==
  ASSUME IInv, HookRelease
  PROVE  Gives(<<Hook, "new thread">>)
<1> DEFINE x == <<Hook, "new thread">>
<1>1. Refers(x)
  BY MeaningHolds, AreReferences
  DEF IInv, TypeOK, Meaning, Owners, HookRelease, Starting, NewThreadRef, Starts, Lives,
      Locking, InLock
<1>2. \A w \in User : Starting(w)' <=> Starting(w)
  BY HandoverNotLast, UserAssumption
  DEF IInv, TypeOK, HookRelease, ReleaseTo, stateVars, Actor, Starting
<1>3. NewThreadRef' <=> FALSE
  BY HandoverNotLast, UserAssumption
  DEF IInv, TypeOK, HookRelease, ReleaseTo, stateVars, Actor, NewThreadRef, Locking,
      InLock, Starts
<1>4. pc'[Hook] \in {"handover", "run", "done", "drop"}
        <=> pc[Hook] \in {"handover", "run", "done", "drop"}
  BY HandoverNotLast, UserAssumption
  DEF IInv, TypeOK, HookRelease, ReleaseTo, stateVars, Actor
<1>5. \A w \in User : w \in ptr' <=> w \in ptr
  BY DEF IInv, TypeOK, HookRelease
<1>6. ASSUME NEW r \in Reference
      PROVE  Refers(r)' <=> Refers(r) /\ r # x
  BY <1>1, <1>2, <1>3, <1>4, <1>5, <1>6, ReferenceCases, MeaningHolds, UserAssumption
  DEF Meaning
<1> QED
  BY <1>1, <1>6, AreReferences, Removed DEF HookRelease, ReleaseTo

\* startHook removes its SmartPtr.
LEMMA HookDropGives ==
  ASSUME IInv, HookDrop
  PROVE  Gives(<<Hook, "thread">>)
<1> DEFINE x == <<Hook, "thread">>
<1>1. Refers(x)
  BY MeaningHolds, AreReferences
  DEF IInv, TypeOK, Meaning, Owners, HookDrop, Starting, NewThreadRef, Starts, Lives,
      Locking, InLock
<1>2. \A w \in User : Starting(w)' <=> Starting(w)
  BY UserAssumption
  DEF IInv, TypeOK, HookDrop, ReleaseTo, stateVars, Actor, Starting
<1>3. NewThreadRef' <=> NewThreadRef
  BY UserAssumption
  DEF IInv, TypeOK, HookDrop, ReleaseTo, stateVars, Actor, NewThreadRef, Locking, InLock,
      Starts
<1>4. pc'[Hook] \in {"handover", "run", "done", "drop"}
        <=> FALSE
  BY UserAssumption
  DEF IInv, TypeOK, HookDrop, ReleaseTo, stateVars, Actor
<1>5. \A w \in User : w \in ptr' <=> w \in ptr
  BY DEF IInv, TypeOK, HookDrop
<1>6. ASSUME NEW r \in Reference
      PROVE  Refers(r)' <=> Refers(r) /\ r # x
  BY <1>1, <1>2, <1>3, <1>4, <1>5, <1>6, ReferenceCases, MeaningHolds, UserAssumption
  DEF Meaning
<1> QED
  BY <1>1, <1>6, AreReferences, Removed DEF HookDrop, ReleaseTo

\* The steps of a user that leave the references alone; StartCreate hands the one for
\* the new thread over to it.
UserKeepsStep(u) ==
  \/ StartLock(u) \/ StartTest(u) \/ StartCreate(u) \/ StartFlags(u) \/ StartUnlock(u)
  \/ SecondStart(u) \/ Resume(u)
  \/ GetThreadControl(u) \/ Join(u) \/ Detach(u) \/ JoinReturns(u)

\* They keep every reference.
LEMMA UserKeeps ==
  ASSUME IInv, NEW u \in User, UserKeepsStep(u)
  PROVE  Keeps
<1>1. ref' = ref /\ ptr' = ptr
  BY DEF UserKeepsStep, StartLock, StartTest, StartCreate, SecondStart, Resume, StartFlags,
         StartUnlock, GetThreadControl, Join, Detach, JoinReturns
<1>2. \A w \in User : Starting(w)' <=> Starting(w)
  BY UserAssumption
  DEF IInv, TypeOK, UserKeepsStep, StartLock, StartTest, StartCreate, SecondStart, Resume,
      StartFlags, StartUnlock, GetThreadControl, Join, Detach, JoinReturns, Goto, stateVars,
      Actor, Starting
<1>3. NewThreadRef' <=> NewThreadRef
  BY UserAssumption
  DEF IInv, TypeOK, UserKeepsStep, StartLock, StartTest, StartCreate, SecondStart, Resume,
      StartFlags, StartUnlock, GetThreadControl, Join, Detach, JoinReturns, Goto, stateVars,
      Actor, NewThreadRef, Starts
<1>4. pc'[Hook] \in {"handover", "run", "done", "drop"}
        <=> pc[Hook] \in {"handover", "run", "done", "drop"}
  BY UserAssumption
  DEF IInv, TypeOK, UserKeepsStep, Starts, StartLock, StartTest, StartCreate, SecondStart,
      Resume, StartFlags, StartUnlock, GetThreadControl, Join, Detach, JoinReturns, Goto,
      stateVars, Actor
<1>5. ASSUME NEW r \in Reference
      PROVE  Refers(r)' <=> Refers(r)
  BY <1>1, <1>2, <1>3, <1>4, <1>5, ReferenceCases, MeaningHolds, UserAssumption DEF Meaning
<1> QED
  BY <1>1, <1>5, Kept

\* So do the return of run(), _done, and the deletion by an actor that has no reference
\* any more.
LEMMA OthersKeep ==
  ASSUME IInv, NEW a \in Actor, HookRun \/ HookDone \/ Delete(a)
  PROVE  Keeps
<1>1. ref' = ref /\ ptr' = ptr
  BY DEF HookRun, HookDone, Delete
<1>2. \A w \in User : Starting(w)' <=> Starting(w)
  BY UserAssumption DEF IInv, TypeOK, HookRun, HookDone, Delete, Goto, Actor, Starting
<1>3. NewThreadRef' <=> NewThreadRef
  BY UserAssumption DEF IInv, TypeOK, HookRun, HookDone, Delete, Goto, Actor, NewThreadRef
<1>4. pc'[Hook] \in {"handover", "run", "done", "drop"}
        <=> pc[Hook] \in {"handover", "run", "done", "drop"}
  BY UserAssumption DEF IInv, TypeOK, HookRun, HookDone, Delete, Goto, Actor
<1>5. ASSUME NEW r \in Reference
      PROVE  Refers(r)' <=> Refers(r)
  BY <1>1, <1>2, <1>3, <1>4, <1>5, ReferenceCases, MeaningHolds, UserAssumption DEF Meaning
<1> QED
  BY <1>1, <1>5, Kept

-----------------------------------------------------------------------------
(* The object and its deleter.                                              *)

Deletes(a) == pc[a] = "delete"

\* Adding a reference to a new object, or to one that has a reference.
LEMMA TakesLives ==
  ASSUME IInv, NEW x, Takes(x), object' = "live", noDelete' = noDelete,
         object = "unborn" \/ Owners # {},
         \A a \in Actor : Deletes(a)' <=> Deletes(a)
  PROVE  OneDeleter' /\ Lives'
<1>1. \A a \in Actor : ~Deletes(a)
  BY UserAssumption DEF IInv, TypeOK, Lives, Actor, Deletes
<1>2. Owners' # {}
  BY DEF Takes
<1>3. object # "deleted"
  BY DEF IInv, Lives
<1> QED
  BY <1>1, <1>2, <1>3 DEF IInv, OneDeleter, Lives, Deletes

\* Removing one: whoever removes the last is the deleter.
LEMMA GivesLives ==
  ASSUME IInv, NEW x, Gives(x), NEW b \in Actor, Deletes(b)' <=> ref = 1,
         object' = object, noDelete' = noDelete,
         \A a \in Actor \ {b} : Deletes(a)' <=> Deletes(a)
  PROVE  OneDeleter' /\ Lives'
<1>1. Owners # {} /\ object = "live"
  BY DEF IInv, TypeOK, Lives, Gives
<1>2. \A a \in Actor : ~Deletes(a)
  BY <1>1 DEF IInv, Lives, Deletes
<1>3. ref = 1 <=> Owners' = {}
  BY LastOne DEF IInv
<1> QED
  BY <1>1, <1>2, <1>3 DEF IInv, OneDeleter, Lives, Deletes

\* Neither.
LEMMA KeepsLives ==
  ASSUME IInv, Keeps, object' = object, noDelete' = noDelete, object # "unborn",
         \A a \in Actor : Deletes(a)' <=> Deletes(a)
  PROVE  OneDeleter' /\ Lives'
BY DEF IInv, Keeps, OneDeleter, Lives, Deletes

\* The deletion, which _no_delete never prevents.
LEMMA DeleteLives ==
  ASSUME IInv, NEW a \in Actor, Delete(a)
  PROVE  OneDeleter' /\ Lives'
<1>1. object = "live" /\ ~noDelete /\ Owners = {}
  BY UserAssumption DEF IInv, TypeOK, Lives, Delete, Actor
<1>2. Owners' = {}
  BY <1>1, OthersKeep DEF Keeps
<1>3. \A b \in Actor : ~Deletes(b)'
  BY DEF IInv, TypeOK, OneDeleter, Delete, Deletes
<1> QED
  BY <1>1, <1>2, <1>3 DEF OneDeleter, Lives, Delete, Deletes

-----------------------------------------------------------------------------
(* Every step keeps the invariant.                                          *)

\* The steps of a user that add and remove references.
TakeStep(u) == New(u) \/ Start(u) \/ StartAddRef(u) \/ \E v \in User : Copy(u, v)
GiveStep(u) == Drop(u) \/ StartFails(u) \/ ResumeFails(u) \/ StartRelease(u)

\* A step of the pthread build, or of either one.
NextAny == Next \/ NextBuild

\* There are no other ones.
LEMMA NextCases ==
  ASSUME NextAny
  PROVE  \/ \E u \in User : TakeStep(u) \/ GiveStep(u) \/ UserKeepsStep(u)
         \/ HookHold \/ HookRelease \/ HookDrop \/ HookRun \/ HookDone
         \/ \E a \in Actor : Delete(a)
BY DEF NextAny, Next, UserStep, StartStep, HookStep, NextBuild, StartOrReturn, JoinReturnsWin32,
       StartStepWin32, PriorityFails, HookGoes, HookStepWin32, HookHoldWin32, TakeStep, GiveStep,
       UserKeepsStep, Actor

\* Types, for the steps of a user.
LEMMA UserTypes ==
  ASSUME IInv, ref' \in Nat, NEW u \in User,
         TakeStep(u) \/ GiveStep(u) \/ UserKeepsStep(u)
  PROVE  TypeOK'
<1>1. CASE TakeStep(u)
  <2> USE UserAssumption DEF IInv, TypeOK, Goto, stateVars, Actor, UserPc, HookPc
  <2>1. CASE New(u)
    BY <2>1 DEF New
  <2>2. CASE Start(u)
    BY <2>2 DEF Start
  <2>3. CASE StartAddRef(u)
    BY <2>3 DEF StartAddRef
  <2>4. CASE \E v \in User : Copy(u, v)
    BY <2>4 DEF Copy
  <2> QED
    BY <1>1, <2>1, <2>2, <2>3, <2>4 DEF TakeStep
<1>2. CASE GiveStep(u)
  <2> USE UserAssumption DEF IInv, TypeOK, ReleaseTo, stateVars, Actor, UserPc, HookPc
  <2>1. CASE Drop(u)
    BY <2>1 DEF Drop
  <2>2. CASE StartFails(u)
    BY <2>2 DEF StartFails
  <2>3. CASE ResumeFails(u)
    BY <2>3 DEF ResumeFails
  <2>4. CASE StartRelease(u)
    BY <2>4 DEF StartRelease
  <2> QED
    BY <1>2, <2>1, <2>2, <2>3, <2>4 DEF GiveStep
<1>3. CASE UserKeepsStep(u)
  <2> USE UserAssumption DEF IInv, TypeOK, Goto, stateVars, Actor, UserPc, HookPc
  <2>1. CASE StartLock(u)
    BY <2>1 DEF StartLock
  <2>2. CASE StartTest(u)
    BY <2>2 DEF StartTest
  <2>3. CASE StartCreate(u)
    BY <2>3 DEF StartCreate
  <2>10. CASE Resume(u)
    BY <2>10 DEF Resume
  <2>4. CASE SecondStart(u)
    BY <2>4 DEF SecondStart
  <2>5. CASE StartFlags(u)
    BY <2>5 DEF StartFlags
  <2>6. CASE StartUnlock(u)
    BY <2>6 DEF StartUnlock
  <2>7. CASE GetThreadControl(u) \/ Detach(u)
    BY <2>7 DEF GetThreadControl, Detach
  <2>8. CASE Join(u)
    BY <2>8 DEF Join
  <2>9. CASE JoinReturns(u)
    BY <2>9 DEF JoinReturns
  <2> QED
    BY <1>3, <2>1, <2>2, <2>3, <2>4, <2>5, <2>6, <2>7, <2>8, <2>9, <2>10
    DEF UserKeepsStep
<1> QED
  BY <1>1, <1>2, <1>3

\* Types, for the steps of the new thread and for the deletion.
LEMMA HookTypes ==
  ASSUME IInv, ref' \in Nat, NEW a \in Actor,
         HookHold \/ HookRelease \/ HookRun \/ HookDone \/ HookDrop \/ Delete(a)
  PROVE  TypeOK'
<1>1. CASE HookHold \/ HookRun \/ HookDone
  BY <1>1, UserAssumption
  DEF IInv, TypeOK, HookHold, HookRun, HookDone, Goto, stateVars, Actor, UserPc, HookPc
<1>2. CASE HookRelease \/ HookDrop
  BY <1>2, UserAssumption
  DEF IInv, TypeOK, HookRelease, HookDrop, ReleaseTo, stateVars, Actor, UserPc, HookPc
<1>3. CASE Delete(a)
  BY <1>3, UserAssumption DEF IInv, TypeOK, Delete, Actor, UserPc, HookPc
<1> QED
  BY <1>1, <1>2, <1>3

\* _stateMutex and the flags, for the steps of a user.
LEMMA UserLocks ==
  ASSUME IInv, TypeOK', NEW u \in User,
         TakeStep(u) \/ GiveStep(u) \/ UserKeepsStep(u)
  PROVE  Locking' /\ Starts'
<1> USE DEF IInv, TypeOK, Locking, InLock, Starts, DoneIsFinal, stateVars, Actor
<1>1. CASE New(u) \/ Start(u) \/ \E v \in User : Copy(u, v)
  BY <1>1, UserAssumption DEF New, Start, Copy, Goto
<1>2. CASE StartAddRef(u)
  BY <1>2, UserAssumption DEF StartAddRef, Goto
<1>3. CASE Drop(u)
  BY <1>3, UserAssumption DEF Drop, ReleaseTo
<1>4. CASE StartFails(u)
  BY <1>4, UserAssumption DEF StartFails, ResumeFails, ReleaseTo
<1>5. CASE StartRelease(u)
  BY <1>5, UserAssumption DEF StartRelease, ReleaseTo
<1>6. CASE StartLock(u)
  BY <1>6, UserAssumption DEF StartLock, Goto
<1>7. CASE StartTest(u)
  BY <1>7, UserAssumption DEF StartTest, Goto
<1>8. CASE StartCreate(u)
  BY <1>8, UserAssumption DEF StartCreate
<1>12. CASE SecondStart(u)
  BY <1>12, UserAssumption DEF SecondStart, Goto
<1>13. CASE Resume(u)
  BY <1>13, UserAssumption DEF Resume
<1>14. CASE ResumeFails(u)
  BY <1>14, UserAssumption, FailNotLast DEF ResumeFails, ReleaseTo
<1>9. CASE StartFlags(u)
  BY <1>9, UserAssumption DEF StartFlags, Goto
<1>10. CASE StartUnlock(u)
  BY <1>10, UserAssumption DEF StartUnlock, Goto
<1>11. CASE GetThreadControl(u) \/ Join(u) \/ Detach(u) \/ JoinReturns(u)
  BY <1>11, UserAssumption DEF GetThreadControl, Join, Detach, JoinReturns, Goto
<1> QED
  BY <1>1, <1>2, <1>3, <1>4, <1>5, <1>6, <1>7, <1>8, <1>9, <1>10, <1>11,
     <1>12, <1>13, <1>14
  DEF TakeStep, GiveStep, UserKeepsStep

\* ... for the steps of the new thread and for the deletion.
LEMMA HookLocks ==
  ASSUME IInv, TypeOK', NEW a \in Actor,
         HookHold \/ HookRelease \/ HookRun \/ HookDone \/ HookDrop \/ Delete(a)
  PROVE  Locking' /\ Starts'
<1> USE DEF IInv, TypeOK, Locking, InLock, Starts, DoneIsFinal, stateVars, Actor
<1>1. CASE HookHold \/ HookRun
  BY <1>1, UserAssumption DEF HookHold, HookRun, Goto
<1>2. CASE HookDone
  BY <1>2, UserAssumption DEF HookDone, Goto
<1>3. CASE HookRelease
  BY <1>3, UserAssumption, HandoverNotLast DEF HookRelease, ReleaseTo
<1>4. CASE HookDrop
  BY <1>4, UserAssumption DEF HookDrop, ReleaseTo
<1>5. CASE Delete(a)
  BY <1>5, UserAssumption DEF Delete
<1> QED
  BY <1>1, <1>2, <1>3, <1>4, <1>5

\* The references and the object, for the steps of a user.
LEMMA UserObject ==
  ASSUME IInv, NEW u \in User, TakeStep(u) \/ GiveStep(u) \/ UserKeepsStep(u)
  PROVE  Counted' /\ OneDeleter' /\ Lives'
<1>1. u \in Actor
  BY DEF Actor
<1>2. CASE \/ New(u)
           \/ Start(u) /\ object = "unborn"
  <2>1. \E x : Takes(x)
    BY <1>2, NewTakes, StartTakes
  <2>2. \A a \in Actor : Deletes(a)' <=> Deletes(a)
    BY <1>2, UserAssumption DEF IInv, TypeOK, Lives, New, Start, Goto, Actor, Deletes
  <2>3. object = "unborn" /\ object' = "live" /\ noDelete' = noDelete
    BY <1>2 DEF New, Start, stateVars
  <2> QED
    BY <2>1, <2>2, <2>3, TakesLives, CountedStep DEF IInv
<1>3. CASE \/ Start(u) /\ object # "unborn"
           \/ StartAddRef(u)
           \/ \E v \in User : Copy(u, v)
  <2>1. \E x : Takes(x)
    BY <1>3, StartTakes, AddRefTakes, CopyTakes
  <2>2. \A a \in Actor : Deletes(a)' <=> Deletes(a)
    BY <1>3, UserAssumption DEF IInv, TypeOK, Start, StartAddRef, Copy, Goto, Actor, Deletes
  <2>3. Owners # {}
    BY <1>3, MeaningHolds, AreReferences
    DEF IInv, TypeOK, Owners, Meaning, Start, StartAddRef, Copy, Starting
  <2>4. object' = "live" /\ noDelete' = noDelete
    BY <1>3, <2>3 DEF IInv, TypeOK, Lives, Start, StartAddRef, Copy, stateVars
  <2> QED
    BY <2>1, <2>2, <2>3, <2>4, TakesLives, CountedStep DEF IInv
<1>4. CASE GiveStep(u)
  <2>1. \E x : Gives(x)
    BY <1>4, DropGives, FailGives, ReleaseGives DEF GiveStep
  <2>2. Deletes(u)' <=> ref = 1
    BY <1>4, <1>1
    DEF IInv, TypeOK, GiveStep, Drop, StartFails, ResumeFails, StartRelease, ReleaseTo, Deletes
  <2>3. \A a \in Actor \ {u} : Deletes(a)' <=> Deletes(a)
    BY <1>4, <1>1
    DEF IInv, TypeOK, GiveStep, Drop, StartFails, ResumeFails, StartRelease, ReleaseTo, Deletes
  <2>4. object' = object /\ noDelete' = noDelete
    BY <1>4 DEF GiveStep, Drop, StartFails, ResumeFails, StartRelease, stateVars
  <2> QED
    BY <1>1, <2>1, <2>2, <2>3, <2>4, GivesLives, CountedStep DEF IInv
<1>5. CASE UserKeepsStep(u)
  <2> USE DEF UserKeepsStep, StartLock, StartTest, StartCreate, SecondStart, Resume,
              StartFlags, StartUnlock, GetThreadControl, Join, Detach, JoinReturns, Goto,
              stateVars
  <2>1. Keeps
    BY <1>5, UserKeeps
  <2>2. \A a \in Actor : Deletes(a)' <=> Deletes(a)
    BY <1>5, UserAssumption DEF IInv, TypeOK, Actor, Deletes, Starts
  <2>3. object' = object /\ noDelete' = noDelete
    BY <1>5
  <2>4. object # "unborn"
    BY <1>5, MeaningHolds, AreReferences DEF IInv, Lives, Owners, Meaning
  <2> QED
    BY <2>1, <2>2, <2>3, <2>4, KeepsLives, CountedStep DEF IInv
<1> QED
  BY <1>2, <1>3, <1>4, <1>5 DEF TakeStep

\* ... for the steps of the new thread and for the deletion.
LEMMA HookObject ==
  ASSUME IInv, NEW b \in Actor,
         HookHold \/ HookRelease \/ HookRun \/ HookDone \/ HookDrop \/ Delete(b)
  PROVE  Counted' /\ OneDeleter' /\ Lives'
<1>1. CASE Delete(b)
  BY <1>1, OthersKeep, DeleteLives, CountedStep DEF IInv
<1>2. CASE HookHold
  <2>1. \E x : Takes(x)
    BY <1>2, HoldTakes
  <2>2. \A a \in Actor : Deletes(a)' <=> Deletes(a)
    BY <1>2 DEF IInv, TypeOK, HookHold, Goto, Actor, Deletes
  <2>3. Owners # {}
    BY <1>2, MeaningHolds, AreReferences DEF Owners, Meaning, HookHold, NewThreadRef
  <2>4. object' = "live" /\ noDelete' = noDelete
    BY <1>2, <2>3 DEF IInv, TypeOK, Lives, HookHold, stateVars
  <2> QED
    BY <2>1, <2>2, <2>3, <2>4, TakesLives, CountedStep DEF IInv
<1>3. CASE HookRelease \/ HookDrop
  <2>1. \E x : Gives(x)
    BY <1>3, HandoverGives, HookDropGives
  <2>2. Hook \in Actor /\ (Deletes(Hook)' <=> ref = 1)
    BY <1>3 DEF IInv, TypeOK, HookRelease, HookDrop, ReleaseTo, Deletes, Actor
  <2>3. \A a \in Actor \ {Hook} : Deletes(a)' <=> Deletes(a)
    BY <1>3 DEF IInv, TypeOK, HookRelease, HookDrop, ReleaseTo, Deletes, Actor
  <2>4. object' = object /\ noDelete' = noDelete
    BY <1>3 DEF HookRelease, HookDrop, stateVars
  <2> QED
    BY <2>1, <2>2, <2>3, <2>4, GivesLives, CountedStep DEF IInv
<1>4. CASE HookRun \/ HookDone
  <2>1. Keeps
    BY <1>4, OthersKeep
  <2>2. \A a \in Actor : Deletes(a)' <=> Deletes(a)
    BY <1>4 DEF IInv, TypeOK, HookRun, HookDone, Goto, Actor, Deletes
  <2>3. object' = object /\ noDelete' = noDelete /\ object # "unborn"
    BY <1>4 DEF IInv, Lives, HookRun, HookDone, stateVars
  <2> QED
    BY <2>1, <2>2, <2>3, KeepsLives, CountedStep DEF IInv
<1> QED
  BY <1>1, <1>2, <1>3, <1>4

-----------------------------------------------------------------------------
(* Theorems.                                                                *)

\* Nothing refers to an object that has not been made.
LEMMA InitIInv == Init => IInv
<1> SUFFICES ASSUME Init
             PROVE  IInv
  OBVIOUS
<1>1. TypeOK
  BY UserAssumption DEF Init, TypeOK, Actor, UserPc, HookPc
<1>2. Owners = {}
  BY ZenonT(40), UserAssumption, MeaningHolds, ReferenceCases
  DEF Init, Owners, Meaning, Actor, Starting, NewThreadRef
<1>3. Counted
  BY <1>2, FS_EmptySet DEF Init, Counted
<1>4. OneDeleter /\ Lives
  BY <1>2, UserAssumption DEF Init, OneDeleter, Lives, Actor
<1>5. Locking /\ Starts
  BY UserAssumption DEF Init, Locking, InLock, Starts, DoneIsFinal, Actor
<1> QED
  BY <1>1, <1>3, <1>4, <1>5 DEF IInv

\* The invariant holds in every step.
LEMMA StepIInv == IInv /\ [NextAny]_vars => IInv'
<1> SUFFICES ASSUME IInv, [NextAny]_vars
             PROVE  IInv'
  OBVIOUS
<1>1. CASE \E u \in User : TakeStep(u) \/ GiveStep(u) \/ UserKeepsStep(u)
  <2> PICK u \in User : TakeStep(u) \/ GiveStep(u) \/ UserKeepsStep(u)
    BY <1>1
  <2>1. Counted' /\ OneDeleter' /\ Lives'
    BY UserObject
  <2>2. ref' \in Nat
    BY <2>1, OwnersFinite, FS_CardinalityType DEF Counted
  <2>3. TypeOK'
    BY <2>2, UserTypes
  <2> QED
    BY <2>1, <2>3, UserLocks DEF IInv
<1>2. CASE \/ HookHold \/ HookRelease \/ HookDrop \/ HookRun \/ HookDone
           \/ \E a \in Actor : Delete(a)
  <2> PICK a \in Actor :
        HookHold \/ HookRelease \/ HookRun \/ HookDone \/ HookDrop \/ Delete(a)
    BY <1>2 DEF Actor
  <2>1. Counted' /\ OneDeleter' /\ Lives'
    BY HookObject
  <2>2. ref' \in Nat
    BY <2>1, OwnersFinite, FS_CardinalityType DEF Counted
  <2>3. TypeOK'
    BY <2>2, HookTypes
  <2> QED
    BY <2>1, <2>3, HookLocks DEF IInv
<1>3. CASE UNCHANGED vars
  BY ZenonT(40), <1>3
  DEF vars, IInv, TypeOK, Counted, OneDeleter, Lives, Locking, InLock, Starts, DoneIsFinal,
      Owners, Refers, Starting, NewThreadRef
<1> QED
  BY <1>1, <1>2, <1>3, NextCases

\* Both builds start and step like this.
LEMMA BuildSteps == Spec \/ BuildSpec => Init /\ [][NextAny]_vars
<1>1. [Next]_vars => [NextAny]_vars
  BY DEF NextAny
<1>2. [NextBuild]_varsBuild => [NextAny]_vars
  BY DEF NextAny, varsBuild
<1>3. InitBuild => Init
  BY DEF InitBuild
<1> QED
  BY <1>1, <1>2, <1>3, PTL DEF Spec, BuildSpec

\* ... and therefore the invariant holds always.
LEMMA InvariantHolds == Spec \/ BuildSpec => []IInv
BY InitIInv, StepIInv, BuildSteps, PTL

\* Every variable keeps its type; the counter never goes below zero.
THEOREM TypeCorrect == Spec \/ BuildSpec => []TypeOK
<1>1. IInv => TypeOK
  BY DEF IInv
<1> QED
  BY <1>1, InvariantHolds, PTL

\* Nobody uses the object after it is deleted.
THEOREM NeverUsedAfterFree == Spec \/ BuildSpec => []NoUseAfterFree
<1>1. IInv => NoUseAfterFree
  <2> SUFFICES ASSUME IInv, object = "deleted"
               PROVE  /\ ptr = {}
                      /\ \A u \in User : pc[u] \in {"idle", "join"}
                      /\ pc[Hook] \in {"none", "exit"}
    BY DEF NoUseAfterFree
  <2>1. Owners = {} /\ \A a \in Actor : pc[a] # "delete"
    BY DEF IInv, Lives
  <2>2. \A r \in Reference : ~Refers(r)
    BY <2>1 DEF Owners
  <2>3. ptr = {} /\ \A u \in User : ~Starting(u)
    BY <2>2, MeaningHolds, AreReferences DEF Meaning, IInv, TypeOK
  <2>4. pc[Hook] \in {"none", "exit"}
    BY <2>1, <2>2, MeaningHolds, AreReferences
    DEF Meaning, IInv, TypeOK, NewThreadRef, Actor, HookPc
  <2> QED
    BY <2>1, <2>3, <2>4 DEF IInv, TypeOK, Starting, Actor, UserPc
<1> QED
  BY <1>1, InvariantHolds, PTL

\* Past _done the thread is never reported alive.
THEOREM DoneStaysDone == Spec \/ BuildSpec => []DoneIsFinal
<1>1. IInv => DoneIsFinal
  BY DEF IInv, Starts
<1> QED
  BY <1>1, InvariantHolds, PTL

\* In the steps of other actions than these the thread stays created, or not created.
LEMMA HookStays ==
  ASSUME IInv, NextAny, \A u \in User : ~StartCreate(u) /\ ~Resume(u)
  PROVE  /\ pc'[Hook] = "created" => pc[Hook] = "created"
         /\ pc[Hook] = "none" => pc'[Hook] = "none"
<1>1. CASE \E u \in User : TakeStep(u) \/ GiveStep(u) \/ UserKeepsStep(u)
  BY <1>1, UserAssumption
  DEF IInv, TypeOK, TakeStep, GiveStep, UserKeepsStep, New, Start, StartAddRef, Copy, Drop,
      StartFails, ResumeFails, StartRelease, StartLock, StartTest, SecondStart, StartFlags,
      StartUnlock, GetThreadControl, Join, Detach, JoinReturns, ReleaseTo, Goto, stateVars,
      Actor
<1>2. CASE \/ HookHold \/ HookRelease \/ HookDrop \/ HookRun \/ HookDone
           \/ \E a \in Actor : Delete(a)
  BY <1>2
  DEF IInv, TypeOK, HookHold, HookRelease, HookDrop, HookRun, HookDone, Delete, ReleaseTo,
      Goto, Actor
<1> QED
  BY <1>1, <1>2, NextCases

\* One thread at most is ever resumed, and none is made any more once _started is set.
THEOREM OnlyOneThread == BuildSpec => OneThread
<1> DEFINE
      One == pc'[Hook] = "created" => pc[Hook] \in {"none", "created"}
      NoMore == started => suspended' = suspended /\ (pc[Hook] = "none" => pc'[Hook] = "none")
<1>1. IInv /\ [NextBuild]_varsBuild => [One /\ NoMore]_varsBuild
  <2> SUFFICES ASSUME IInv, NextBuild
               PROVE  One /\ NoMore
    OBVIOUS
  <2>1. \A u \in User : pc[u] = "create" => ~started /\ pc[Hook] = "none"
    BY DEF IInv, Starts
  <2>2. started => suspended' = suspended
    BY <2>1
    DEF NextBuild, StartOrReturn, JoinReturnsWin32, StartStepWin32, PriorityFails,
        StartFails, ResumeFails, HookGoes
  <2>3. CASE \E u \in User : StartCreate(u) \/ Resume(u)
    BY <2>1, <2>2, <2>3 DEF StartCreate, Resume
  <2>4. CASE \A u \in User : ~StartCreate(u) /\ ~Resume(u)
    BY <2>2, <2>4, HookStays DEF NextAny
  <2> QED
    BY <2>3, <2>4
<1>2. BuildSpec => [][NextBuild]_varsBuild
  BY DEF BuildSpec
<1> QED
  BY <1>1, <1>2, InvariantHolds, PTL DEF OneThread

\* The counter implements Ownership.
THEOREM ImplementsOwnership == Spec \/ BuildSpec => OwnershipSpec
<1>1. Init => O!Init
  <2> SUFFICES ASSUME Init
               PROVE  O!Init
    OBVIOUS
  <2>1. Owners = {}
    BY UserAssumption, MeaningHolds, ReferenceCases
    DEF Init, Owners, Meaning, Actor, Starting, NewThreadRef
  <2> QED
    BY <2>1 DEF Init, O!Init, Life
<1>2. IInv /\ IInv' /\ [NextAny]_vars => [O!Next]_(O!vars)
  <2> SUFFICES ASSUME IInv, IInv', [NextAny]_vars
               PROVE  [O!Next]_(O!vars)
    OBVIOUS
  <2>1. Life = IF object = "unborn" THEN "unborn" ELSE IF Owners = {} THEN "dead" ELSE "live"
    BY DEF IInv, TypeOK, Lives, Life
  <2>2. Life' = IF object' = "unborn" THEN "unborn"
                ELSE IF Owners' = {} THEN "dead" ELSE "live"
    BY DEF IInv, TypeOK, Lives, Life
  <2>3. ASSUME NEW x, Takes(x), object' = "live", object = "unborn" \/ Owners # {}
        PROVE  O!Next
    <3>1. x \in Reference /\ x \notin Owners /\ Owners' = Owners \cup {x}
      BY <2>3 DEF Takes
    <3>2. CASE object = "unborn"
      <4>1. Owners = {}
        BY <3>2 DEF IInv, Lives
      <4> QED
        BY <2>1, <2>2, <2>3, <3>1, <3>2, <4>1 DEF O!Next, O!Create
    <3>3. CASE object # "unborn"
      BY <2>1, <2>2, <2>3, <3>1, <3>3 DEF O!Next, O!Take
    <3> QED
      BY <3>2, <3>3
  <2>4. ASSUME NEW x, Gives(x), object' = object
        PROVE  O!Next
    <3>1. x \in Reference /\ x \in Owners /\ Owners' = Owners \ {x}
      BY <2>4 DEF Gives, Owners
    <3>2. object # "unborn"
      BY <3>1 DEF IInv, Lives
    <3> QED
      BY <2>1, <2>2, <2>4, <3>1, <3>2 DEF O!Next, O!Drop
  <2>5. ASSUME Keeps, object' = "unborn" <=> object = "unborn"
        PROVE  UNCHANGED O!vars
    BY <2>1, <2>2, <2>5 DEF Keeps, O!vars
  <2>6. CASE \E u \in User : TakeStep(u)
    <3>1. PICK u \in User : TakeStep(u)
      BY <2>6
    <3>2. \E x : Takes(x)
      BY <3>1, NewTakes, StartTakes, AddRefTakes, CopyTakes DEF TakeStep
    <3>3. object = "unborn" \/ Owners # {}
      BY <3>1, MeaningHolds, AreReferences
      DEF IInv, TypeOK, TakeStep, Owners, Meaning, New, Start, StartAddRef, Copy, Starting
    <3>4. CASE New(u) \/ Start(u)
      BY <2>3, <3>2, <3>3, <3>4 DEF New, Start
    <3>5. CASE StartAddRef(u) \/ \E v \in User : Copy(u, v)
      <4>1. Owners # {}
        BY <3>5, MeaningHolds, AreReferences
        DEF IInv, TypeOK, Owners, Meaning, StartAddRef, Copy, Starting
      <4>2. object' = "live"
        BY <3>5, <4>1 DEF IInv, TypeOK, Lives, StartAddRef, Copy
      <4> QED
        BY <2>3, <3>2, <4>1, <4>2
    <3> QED
      BY <3>1, <3>4, <3>5 DEF TakeStep
  <2>7. CASE HookHold
    <3>1. Owners # {}
      BY <2>7, MeaningHolds, AreReferences DEF Owners, Meaning, HookHold, NewThreadRef
    <3>2. object' = "live"
      BY <2>7, <3>1 DEF IInv, TypeOK, Lives, HookHold
    <3> QED
      BY <2>3, <2>7, <3>1, <3>2, HoldTakes
  <2>8. CASE (\E u \in User : GiveStep(u)) \/ HookRelease \/ HookDrop
    <3>1. \E x : Gives(x)
      BY <2>8, DropGives, FailGives, ReleaseGives, HandoverGives, HookDropGives DEF GiveStep
    <3>2. object' = object
      BY <2>8 DEF GiveStep, Drop, StartFails, ResumeFails, StartRelease, HookRelease, HookDrop
    <3> QED
      BY <2>4, <3>1, <3>2
  <2>9. CASE \E u \in User : UserKeepsStep(u)
    <3>1. Keeps
      BY <2>9, UserKeeps
    <3>2. object' = object
      BY <2>9
      DEF UserKeepsStep, StartLock, StartTest, StartCreate, SecondStart, Resume, StartFlags,
          StartUnlock, GetThreadControl, Join, Detach, JoinReturns
    <3> QED
      BY <2>5, <3>1, <3>2
  <2>10. CASE HookRun \/ HookDone \/ \E a \in Actor : Delete(a)
    <3>1. Keeps
      BY <2>10, OthersKeep DEF Actor
    <3>2. object' = "unborn" <=> object = "unborn"
      BY <2>10, UserAssumption DEF IInv, Lives, HookRun, HookDone, Delete, Actor
    <3> QED
      BY <2>5, <3>1, <3>2
  <2>11. CASE UNCHANGED vars
    <3>1. Keeps /\ object' = object
      BY <2>11 DEF vars, Keeps, Owners, Refers, Starting, NewThreadRef
    <3> QED
      BY <2>5, <3>1
  <2> QED
    BY <2>6, <2>7, <2>8, <2>9, <2>10, <2>11, NextCases
<1> QED
  BY <1>1, <1>2, InvariantHolds, BuildSteps, PTL DEF OwnershipSpec, O!Spec
=============================================================================
