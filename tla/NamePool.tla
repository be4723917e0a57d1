----------------------------- MODULE NamePool ------------------------------
(***************************************************************************)
(* What an IdentityMaster promises, without its counter and its two maps:  *)
(* a set of the numbers whose names are in use.  A name that is in use is  *)
(* never issued again, and the name issued is the one with the smallest    *)
(* free number.                                                            *)
(***************************************************************************)
EXTENDS Names

VARIABLES held, reply

vars == <<held, reply>>

Init == held = {} /\ reply = Done

\* A caller tells the pool that it uses s already (identity_master.h:25).
Report(s) ==
  /\ IsName(s)
  /\ held' = held \cup {s.num}
  /\ reply' = Done

Issue ==
  \E n \in Num :
    /\ FirstOutside(n, 1, held)
    /\ held' = held \cup {n}
    /\ reply' = [ok |-> TRUE, num |-> n]

GiveBack(s) ==
  /\ IsName(s)
  /\ held' = held \ {s.num}
  /\ reply' = Done

Refuse(s) ==
  /\ ~IsName(s)
  /\ reply' = Refused
  /\ UNCHANGED held

Next == Issue \/ \E s \in Text : Report(s) \/ GiveBack(s) \/ Refuse(s)

Spec == Init /\ [][Next]_vars
=============================================================================
