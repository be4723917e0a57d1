------------------------ MODULE IdentityMaster_proofs ----------------------
(***************************************************************************)
(* Proofs about IdentityMaster for every MaxIndex: its maps keep their     *)
(* types and their normal form, and it implements NamePool.                *)
(***************************************************************************)
EXTENDS IdentityMaster, TLAPS

\* The inductive invariant: the types and the normal form need each other,
\* since _index can only be the next free number while neither map touches it.
Inv == TypeOK /\ NormalForm

\* Before the first call both maps are empty.
LEMMA InitInv == Init => Inv
BY MaxIndexAssumption DEF Init, Inv, TypeOK, NormalForm, Reply, Done, Num

\* What the invariant says of each number, in the form the provers use.
LEMMA Facts ==
  ASSUME Inv
  PROVE  /\ MaxIndex \in Nat
         /\ index \in 1..(MaxIndex + 1) /\ index \in Nat
         /\ \A n \in idle : n \in Num /\ n \in Nat /\ n < index - 1
         /\ \A n \in using : n \in Num /\ n \in Nat /\ n > index
BY MaxIndexAssumption DEF Inv, TypeOK, NormalForm, Num

\* The number of a name can be issued.
LEMMA NameFacts ==
  ASSUME NEW s \in Text, IsName(s)
  PROVE  s.num \in Num /\ s.num \in Nat
BY MaxIndexAssumption DEF Text, IsName, Num

\* The answers the operations give.
LEMMA ReplyFacts ==
  /\ Done \in Reply
  /\ \A n \in Nat : n <= MaxIndex => [ok |-> TRUE, num |-> n] \in Reply
BY MaxIndexAssumption DEF Reply, Done

\* A refused call leaves the counter and the maps alone.
LEMMA RefuseInv ==
  ASSUME Inv, NEW s \in Text, Refuse(s)
  PROVE  Inv'
BY MaxIndexAssumption
   DEF Inv, TypeOK, NormalForm, Refuse, Reply, Refused, Num

\* Advance restores the normal form of the scattered names and leaves
\* _index above every idle number by more than one.
LEMMA AdvanceInv ==
  ASSUME Inv, Advance
  PROVE  /\ index' \in 1..(MaxIndex + 1)
         /\ index' > index
         /\ using' \subseteq Num
         /\ \A n \in using' : n > index'
<1>1. PICK n \in (index + 1)..(MaxIndex + 1) :
        /\ FirstOutside(n, index + 1, using)
        /\ index' = n
        /\ using' = using \ ((index + 1)..(n - 1))
  BY DEF Advance
<1>2. index \in Nat /\ n \in Nat /\ \A k \in using : k \in Nat /\ k > index
  BY MaxIndexAssumption DEF Inv, TypeOK, NormalForm, Num
<1>. QED
  BY <1>1, <1>2, MaxIndexAssumption DEF FirstOutside, Inv, TypeOK, Num

\* Shrink(m) with m below _index restores the normal form of the idle numbers.
LEMMA ShrinkInv ==
  ASSUME Inv, NEW m \in Num, m < index, Shrink(m)
  PROVE  /\ index' \in 1..(MaxIndex + 1)
         /\ index' <= index
         /\ idle' \subseteq Num
         /\ \A n \in idle' : n < index' - 1
<1>. DEFINE full == idle \cup {m}
<1>1. PICK n \in 1..index :
        /\ n - 1 \notin full
        /\ n..(index - 1) \subseteq full
        /\ index' = n
        /\ idle' = full \ (n..(index - 1))
  BY DEF Shrink
<1>2. index \in Nat /\ n \in Nat /\ \A k \in full : k \in Nat /\ k < index /\ k \in Num
  BY MaxIndexAssumption DEF Inv, TypeOK, NormalForm, Num
<1>3. \A k \in idle' : k < n /\ k # n - 1
  BY <1>1, <1>2
<1>4. idle' \subseteq Num
  BY <1>1, <1>2
<1>. QED
  BY <1>1, <1>2, <1>3, <1>4, MaxIndexAssumption DEF Inv, TypeOK, Num

\* Reporting a text keeps the invariant.
LEMMA AddIdentityInv ==
  ASSUME Inv, NEW s \in Text, AddIdentity(s)
  PROVE  Inv'
<1>1. CASE Refuse(s)
  BY <1>1, RefuseInv
<1>2. CASE IsName(s) /\ AddScattered(s) /\ reply' = Done
  BY <1>2, Facts, NameFacts, ReplyFacts DEF Inv, TypeOK, NormalForm, AddScattered
<1>3. CASE IsName(s) /\ AddNext(s) /\ reply' = Done
  <2>1. /\ index' \in 1..(MaxIndex + 1) /\ index' > index
        /\ using' \subseteq Num /\ \A n \in using' : n > index'
    BY <1>3, AdvanceInv DEF AddNext
  <2>. QED
    BY <1>3, <2>1, Facts, ReplyFacts DEF Inv, TypeOK, NormalForm, AddNext
<1>4. CASE IsName(s) /\ AddIdle(s) /\ reply' = Done
  BY <1>4, Facts, ReplyFacts DEF Inv, TypeOK, NormalForm, AddIdle
<1>. QED
  BY <1>1, <1>2, <1>3, <1>4 DEF AddIdentity

\* So does issuing a name ...
LEMMA GetIdentityInv ==
  ASSUME Inv, GetIdentity
  PROVE  Inv'
<1>1. CASE GetIdle
  BY <1>1, Facts, ReplyFacts DEF Inv, TypeOK, NormalForm, GetIdle, Num
<1>2. CASE GetNext
  <2>1. /\ index' \in 1..(MaxIndex + 1) /\ index' > index
        /\ using' \subseteq Num /\ \A n \in using' : n > index'
    BY <1>2, AdvanceInv DEF GetNext
  <2>. QED
    BY <1>2, <2>1, Facts, ReplyFacts DEF Inv, TypeOK, NormalForm, GetNext
<1>. QED
  BY <1>1, <1>2 DEF GetIdentity

\* ... and releasing a text, ...
LEMMA ReleaseIdentityInv ==
  ASSUME Inv, NEW s \in Text, ReleaseIdentity(s)
  PROVE  Inv'
<1>1. CASE Refuse(s)
  BY <1>1, RefuseInv
<1>2. CASE IsName(s) /\ ReleaseScattered(s) /\ reply' = Done
  BY <1>2, Facts, ReplyFacts DEF Inv, TypeOK, NormalForm, ReleaseScattered
<1>3. CASE IsName(s) /\ ReleaseGiven(s) /\ reply' = Done
  <2>1. s.num \in Num
    BY <1>3, NameFacts
  <2>2. /\ index' \in 1..(MaxIndex + 1) /\ index' <= index
        /\ idle' \subseteq Num /\ \A n \in idle' : n < index' - 1
    BY <1>3, <2>1, ShrinkInv DEF ReleaseGiven
  <2>. QED
    BY <1>3, <2>2, Facts, ReplyFacts DEF Inv, TypeOK, NormalForm, ReleaseGiven
<1>4. CASE IsName(s) /\ ReleaseNext(s) /\ reply' = Done
  BY <1>4, ReplyFacts DEF Inv, TypeOK, NormalForm, ReleaseNext
<1>. QED
  BY <1>1, <1>2, <1>3, <1>4 DEF ReleaseIdentity

\* ... and so every call.
LEMMA NextInv == Inv /\ [Next]_vars => Inv'
<1>. SUFFICES ASSUME Inv, [Next]_vars PROVE Inv'
  OBVIOUS
<1>1. CASE GetIdentity
  BY <1>1, GetIdentityInv
<1>2. CASE \E s \in Text : AddIdentity(s)
  BY <1>2, AddIdentityInv
<1>3. CASE \E s \in Text : ReleaseIdentity(s)
  BY <1>3, ReleaseIdentityInv
<1>4. CASE UNCHANGED vars
  BY <1>4 DEF Inv, TypeOK, NormalForm, vars
<1>. QED
  BY <1>1, <1>2, <1>3, <1>4 DEF Next

\* The counter and the two maps keep their types.
THEOREM TypeCorrect == Spec => []TypeOK
<1>1. Inv => TypeOK
  BY DEF Inv
<1>. QED
  BY InitInv, NextInv, <1>1, PTL DEF Spec

\* The two maps always stay on their sides of _index and never touch it.
THEOREM NormalFormHolds == Spec => []NormalForm
<1>1. Inv => NormalForm
  BY DEF Inv
<1>. QED
  BY InitInv, NextInv, <1>1, PTL DEF Spec

-----------------------------------------------------------------------------
\* The refinement: what each operation does to the set of numbers in use.

\* The pool speaks of the same texts, names and answers.
LEMMA SameWords ==
  /\ Pool!Text = Text /\ Pool!Num = Num
  /\ Pool!Done = Done /\ Pool!Refused = Refused
  /\ \A s : Pool!IsName(s) <=> IsName(s)
  /\ \A n, from, S : Pool!FirstOutside(n, from, S) <=> FirstOutside(n, from, S)
BY DEF Pool!Text, Text, Pool!Num, Num, Pool!Done, Done, Pool!Refused, Refused,
       Pool!IsName, IsName, Pool!FirstOutside, FirstOutside

\* The block that Advance swallows was in use and still is: together with it,
\* exactly the number _index itself becomes used.
LEMMA AdvanceHeld ==
  ASSUME Inv, Advance, UNCHANGED idle
  PROVE  Held' = Held \cup {index}
<1>1. PICK n \in (index + 1)..(MaxIndex + 1) :
        /\ FirstOutside(n, index + 1, using)
        /\ index' = n
        /\ using' = using \ ((index + 1)..(n - 1))
  BY DEF Advance
<1>2. (index + 1)..(n - 1) \subseteq using /\ n \in Nat /\ n > index
  BY <1>1, Facts DEF FirstOutside
<1>3. ASSUME NEW k
      PROVE  k \in Held' <=> k \in Held \cup {index}
  BY <1>1, <1>2, Facts DEF Held
<1>. QED
  BY <1>3

\* The block that Shrink gives back to _index was idle: only m becomes free.
LEMMA ShrinkHeld ==
  ASSUME Inv, NEW m \in Num, m < index, Shrink(m), UNCHANGED using
  PROVE  Held' = Held \ {m}
<1>. DEFINE full == idle \cup {m}
<1>1. PICK n \in 1..index :
        /\ n - 1 \notin full
        /\ n..(index - 1) \subseteq full
        /\ index' = n
        /\ idle' = full \ (n..(index - 1))
  BY DEF Shrink
<1>2. m \in Nat /\ m >= 1 /\ n \in Nat
  BY MaxIndexAssumption, Facts DEF Num
<1>3. ASSUME NEW k
      PROVE  k \in Held' <=> k \in Held \ {m}
  <2>1. k \in 1..(index' - 1) /\ k \notin idle' <=> k \in 1..(index - 1) /\ k \notin full
    BY <1>1, <1>2, Facts
  <2>. QED
    BY <2>1, <1>2, Facts DEF Held
<1>. QED
  BY <1>3

\* Reporting a name marks its number used, whichever side of _index it is on.
LEMMA AddIdentityRefines ==
  ASSUME Inv, NEW s \in Text, AddIdentity(s)
  PROVE  Pool!Report(s) \/ Pool!Refuse(s)
<1>1. CASE Refuse(s)
  BY <1>1, SameWords DEF Refuse, Pool!Refuse, Held
<1>2. CASE IsName(s) /\ AddScattered(s) /\ reply' = Done
  <2>1. Held' = Held \cup {s.num}
    BY <1>2 DEF AddScattered, Held
  <2>. QED
    BY <1>2, <2>1, SameWords DEF Pool!Report
<1>3. CASE IsName(s) /\ AddNext(s) /\ reply' = Done
  BY <1>3, AdvanceHeld, SameWords DEF AddNext, Pool!Report
<1>4. CASE IsName(s) /\ AddIdle(s) /\ reply' = Done
  <2>1. s.num \in 1..(index - 1)
    BY <1>4, NameFacts, Facts DEF AddIdle, Num
  <2>2. Held' = Held \cup {s.num}
    BY <1>4, <2>1 DEF AddIdle, Held
  <2>. QED
    BY <1>4, <2>2, SameWords DEF Pool!Report
<1>. QED
  BY <1>1, <1>2, <1>3, <1>4 DEF AddIdentity

\* The number issued is the smallest free one: the smallest idle number, or
\* _index when every number below it is used.
LEMMA GetIdentityRefines ==
  ASSUME Inv, GetIdentity
  PROVE  Pool!Issue
<1>1. CASE GetIdle
  <2>1. PICK n \in idle :
          /\ \A k \in idle : n <= k
          /\ idle' = idle \ {n}
          /\ reply' = [ok |-> TRUE, num |-> n]
          /\ UNCHANGED <<index, using>>
    BY <1>1 DEF GetIdle
  <2>2. n \in Num /\ n \in Nat /\ n < index - 1 /\ n >= 1
    BY Facts DEF Num
  <2>3. FirstOutside(n, 1, Held)
    BY <2>1, <2>2, Facts DEF FirstOutside, Held
  <2>4. Held' = Held \cup {n}
    BY <2>1, <2>2, Facts DEF Held
  <2>. QED
    BY <2>1, <2>2, <2>3, <2>4, SameWords DEF Pool!Issue
<1>2. CASE GetNext
  <2>1. FirstOutside(index, 1, Held)
    BY <1>2, Facts DEF FirstOutside, Held, GetNext
  <2>2. Held' = Held \cup {index} /\ index \in Num
    BY <1>2, AdvanceHeld, Facts DEF GetNext, Num
  <2>. QED
    BY <1>2, <2>1, <2>2, SameWords DEF GetNext, Pool!Issue
<1>. QED
  BY <1>1, <1>2 DEF GetIdentity

\* Releasing a name frees its number and no other, used or not.
LEMMA ReleaseIdentityRefines ==
  ASSUME Inv, NEW s \in Text, ReleaseIdentity(s)
  PROVE  Pool!GiveBack(s) \/ Pool!Refuse(s)
<1>1. CASE Refuse(s)
  BY <1>1, SameWords DEF Refuse, Pool!Refuse, Held
<1>2. CASE IsName(s) /\ ReleaseScattered(s) /\ reply' = Done
  <2>1. Held' = Held \ {s.num}
    BY <1>2, NameFacts, Facts DEF ReleaseScattered, Held
  <2>. QED
    BY <1>2, <2>1, SameWords DEF Pool!GiveBack
<1>3. CASE IsName(s) /\ ReleaseGiven(s) /\ reply' = Done
  BY <1>3, NameFacts, ShrinkHeld, SameWords DEF ReleaseGiven, Pool!GiveBack
<1>4. CASE IsName(s) /\ ReleaseNext(s) /\ reply' = Done
  <2>1. Held' = Held \ {s.num}
    BY <1>4, NameFacts, Facts DEF ReleaseNext, Held
  <2>. QED
    BY <1>4, <2>1, SameWords DEF Pool!GiveBack
<1>. QED
  BY <1>1, <1>2, <1>3, <1>4 DEF ReleaseIdentity

\* The counter and the two maps implement the pool of names: a name in use is
\* never issued, and the name issued has the smallest free number.
THEOREM ImplementsPool == Spec => PoolSpec
<1>1. Init => Pool!Init
  BY SameWords, MaxIndexAssumption DEF Init, Pool!Init, Held
<1>2. Inv /\ [Next]_vars => [Pool!Next]_(Pool!vars)
  <2>. SUFFICES ASSUME Inv, [Next]_vars PROVE [Pool!Next]_(Pool!vars)
    OBVIOUS
  <2>1. CASE GetIdentity
    BY <2>1, GetIdentityRefines, SameWords DEF Pool!Next
  <2>2. CASE \E s \in Text : AddIdentity(s)
    BY <2>2, AddIdentityRefines, SameWords DEF Pool!Next
  <2>3. CASE \E s \in Text : ReleaseIdentity(s)
    BY <2>3, ReleaseIdentityRefines, SameWords DEF Pool!Next
  <2>4. CASE UNCHANGED vars
    BY <2>4 DEF vars, Pool!vars, Held
  <2>. QED
    BY <2>1, <2>2, <2>3, <2>4 DEF Next
<1>. QED
  BY InitInv, NextInv, <1>1, <1>2, PTL DEF Spec, PoolSpec, Pool!Spec
=============================================================================
