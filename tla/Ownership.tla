----------------------------- MODULE Ownership -----------------------------
(***************************************************************************)
(* What util/ref_counter.h promises of a reference-counted object: it      *)
(* lives as long as somebody refers to it, it is deleted when the last     *)
(* reference goes, and nobody gets a reference to it afterwards.           *)
(***************************************************************************)
CONSTANT Reference  \* the places a reference can be kept in

VARIABLES
  refs,  \* the places that refer to the object
  life   \* "unborn", "live" or "dead"

vars == <<refs, life>>

Init ==
  /\ refs = {}
  /\ life = "unborn"

\* A new object comes with its first reference.
Create(r) ==
  /\ life = "unborn"
  /\ refs' = {r}
  /\ life' = "live"

\* Only an object somebody refers to can be referred to once more.
Take(r) ==
  /\ life = "live"
  /\ refs # {}
  /\ r \notin refs
  /\ refs' = refs \cup {r}
  /\ UNCHANGED life

\* The last reference takes the object with it.
Drop(r) ==
  /\ r \in refs
  /\ refs' = refs \ {r}
  /\ life' = IF refs = {r} THEN "dead" ELSE life

Next == \E r \in Reference : Create(r) \/ Take(r) \/ Drop(r)

Spec == Init /\ [][Next]_vars
=============================================================================
