------------------------------ MODULE MCOrders -----------------------------
(***************************************************************************)
(* Orders for TLC: two loops with a connection each, and the packages      *)
(* their peers send.                                                       *)
(***************************************************************************)
EXTENDS Orders

CONSTANTS l1, l2, c1, c2

TwoBases == [c \in Conn |-> IF c = c1 THEN l1 ELSE l2]

TwoAndOne == [c \in Conn |-> IF c = c1 THEN 2 ELSE 1]

Echo(tag, params) == [tag |-> tag, name |-> "Echo", id |-> TRUE, params |-> params]
Unknown  == [tag |-> "method", name |-> "unregistered", id |-> TRUE, params |-> "echo"]
NoId     == [tag |-> "method", name |-> "Echo", id |-> FALSE, params |-> "echo"]
NoParams == [tag |-> "method", name |-> "Echo", id |-> TRUE, params |-> "none"]

Packages ==
  { <<Echo("method", "echo"), NoId, Echo("other", "invalid")>>,
    <<Echo("other", "echo"), Unknown, NoParams, Echo("method", "invalid")>> }
=============================================================================
