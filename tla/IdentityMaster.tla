--------------------------- MODULE IdentityMaster --------------------------
(***************************************************************************)
(* util/identity_master.{h,cpp}: the numbers below _index have been given  *)
(* out, except those in _map_idle_identity; names with larger numbers that *)
(* callers reported are kept in _map_using_identity until _index reaches   *)
(* them.  Every operation runs under _mutex and is one action here.  The   *)
(* loops that move _index over a block of neighbouring numbers are stated  *)
(* by where they stop.                                                     *)
(***************************************************************************)
EXTENDS Names

VARIABLES
  index,   \* _index
  idle,    \* keys of _map_idle_identity
  using,   \* keys of _map_using_identity
  reply    \* what the last call answered

vars == <<index, idle, using, reply>>

TypeOK ==
  /\ index \in 1..(MaxIndex + 1)
  /\ idle \subseteq Num
  /\ using \subseteq Num
  /\ reply \in Reply

Init ==
  /\ index = 1
  /\ idle = {}
  /\ using = {}
  /\ reply = Done

\* bug: the loop that swallows adjoining names is missing.
AdvanceNoMerge ==
  /\ index <= MaxIndex
  /\ index' = index + 1
  /\ using' = using

\* _index++ and the loop that swallows the scattered names adjoining it.
Advance ==
  \E n \in (index + 1)..(MaxIndex + 1) :
    /\ FirstOutside(n, index + 1, using)
    /\ index' = n
    /\ using' = using \ ((index + 1)..(n - 1))

\* Number m becomes idle; a block of idle numbers just below _index is
\* given back to it.
Shrink(m) ==
  \E n \in 1..index :
    LET full == idle \cup {m} IN
    /\ n - 1 \notin full
    /\ n..(index - 1) \subseteq full
    /\ index' = n
    /\ idle' = full \ (n..(index - 1))

Refuse(s) ==
  /\ ~IsName(s)
  /\ reply' = Refused
  /\ UNCHANGED <<index, idle, using>>

AddScattered(s) ==
  /\ s.num > index
  /\ using' = using \cup {s.num}
  /\ UNCHANGED <<index, idle>>

AddNext(s) ==
  /\ s.num = index
  /\ Advance
  /\ UNCHANGED idle

AddIdle(s) ==
  /\ s.num < index
  /\ idle' = idle \ {s.num}
  /\ UNCHANGED <<index, using>>

AddIdentity(s) ==
  \/ Refuse(s)
  \/ /\ IsName(s)
     /\ AddScattered(s) \/ AddNext(s) \/ AddIdle(s)
     /\ reply' = Done

\* bug: the idle name is issued but stays in the map.
GetIdleKeepsEntry ==
  \E n \in idle :
    /\ \A k \in idle : n <= k
    /\ reply' = [ok |-> TRUE, num |-> n]
    /\ UNCHANGED <<index, idle, using>>

GetIdle ==
  \E n \in idle :
    /\ \A k \in idle : n <= k
    /\ idle' = idle \ {n}
    /\ reply' = [ok |-> TRUE, num |-> n]
    /\ UNCHANGED <<index, using>>

GetNext ==
  /\ idle = {}
  /\ index <= MaxIndex     \* bound
  /\ Advance
  /\ reply' = [ok |-> TRUE, num |-> index]
  /\ UNCHANGED idle

GetIdentity == GetIdle \/ GetNext

ReleaseScattered(s) ==
  /\ s.num > index
  /\ using' = using \ {s.num}
  /\ UNCHANGED <<index, idle>>

ReleaseGiven(s) ==
  /\ s.num < index
  /\ Shrink(s.num)
  /\ UNCHANGED using

ReleaseNext(s) ==
  /\ s.num = index
  /\ UNCHANGED <<index, idle, using>>

\* bug: number 0 is not refused.
ReleaseIdentityZero(s) ==
  \/ Refuse(s)
  \/ /\ s.keyed /\ s.plain
     /\ ReleaseScattered(s) \/ ReleaseGiven(s) \/ ReleaseNext(s)
     /\ reply' = Done

ReleaseIdentity(s) ==
  \/ Refuse(s)
  \/ /\ IsName(s)
     /\ ReleaseScattered(s) \/ ReleaseGiven(s) \/ ReleaseNext(s)
     /\ reply' = Done

Next ==
  \/ GetIdentity
  \/ \E s \in Text : AddIdentity(s) \/ ReleaseIdentity(s)

Spec == Init /\ [][Next]_vars

-----------------------------------------------------------------------------
\* The numbers in use, as the two maps and the counter record them.
Held == ((1..(index - 1)) \ idle) \cup using

\* The maps stay on their sides of _index and never touch it: every block of
\* numbers that a loop should have merged has been merged.  This is what the
\* comments at identity_master.h:38-41 say of the three members.
NormalForm ==
  /\ \A n \in idle : n < index - 1
  /\ \A n \in using : n > index

\* Whatever is reported, issued and given back, in any order and with texts
\* that are no names among them, the master behaves as the pool of NamePool:
\* no name in use is issued again, and the smallest free one is issued.
Pool == INSTANCE NamePool WITH held <- Held

PoolSpec == Pool!Spec
=============================================================================
