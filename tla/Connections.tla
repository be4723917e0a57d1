----------------------------- MODULE Connections ---------------------------
(***************************************************************************)
(* What diplomat_master.h promises of a connection, however many threads   *)
(* have a hand in it: it gets a name of its own, it is registered, it is   *)
(* withdrawn once, its name is given back once, and only then does its     *)
(* address serve another connection.  After Stop none is left.             *)
(***************************************************************************)
EXTENDS Names

CONSTANT Bev  \* addresses, one per connection at a time

VARIABLES
  conn,  \* "none", "new", "registered", "withdrawn", "released"
  name,  \* the number in the connection's name, 0 if it has none
  phase  \* "up", "stopping", "down"

vars == <<conn, name, phase>>

Init ==
  /\ conn = [b \in Bev |-> "none"]
  /\ name = [b \in Bev |-> 0]
  /\ phase = "up"

Turn(b, from, to) ==
  /\ conn[b] = from
  /\ conn' = [conn EXCEPT ![b] = to]

\* The name is the smallest that no other connection has.
Connect(b) ==
  /\ phase = "up"
  /\ Turn(b, "none", "new")
  /\ \E n \in Num :
       /\ FirstOutside(n, 1, {name[c] : c \in Bev} \ {0})
       /\ name' = [name EXCEPT ![b] = n]
  /\ UNCHANGED phase

Register(b) == Turn(b, "new", "registered") /\ UNCHANGED <<name, phase>>

Withdraw(b) == Turn(b, "registered", "withdrawn") /\ UNCHANGED <<name, phase>>

Release(b) ==
  /\ Turn(b, "withdrawn", "released")
  /\ name' = [name EXCEPT ![b] = 0]
  /\ UNCHANGED phase

\* The objects of the connection are gone, its address is free.
Free(b) == Turn(b, "released", "none") /\ UNCHANGED <<name, phase>>

\* No more connections: none is under way.
Stop ==
  /\ phase = "up"
  /\ \A b \in Bev : conn[b] # "new"
  /\ phase' = "stopping"
  /\ UNCHANGED <<conn, name>>

\* Each connection has been told, and has given its name back.
Stopped ==
  /\ phase = "stopping"
  /\ \A b \in Bev : conn[b] \in {"none", "released"}
  /\ phase' = "down"
  /\ UNCHANGED <<conn, name>>

Next ==
  \/ \E b \in Bev : Connect(b) \/ Register(b) \/ Withdraw(b) \/ Release(b) \/ Free(b)
  \/ Stop \/ Stopped

Spec == Init /\ [][Next]_vars
=============================================================================
