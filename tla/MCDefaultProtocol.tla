------------------------- MODULE MCDefaultProtocol -------------------------
(***************************************************************************)
(* DefaultProtocol for TLC: the packages its peers send, and the lengths   *)
(* of default_protocol.cpp scaled down.  A header is three cells.          *)
(***************************************************************************)
EXTENDS DefaultProtocol

Header == <<"start", "size", "end">>

Good(n)  == [lines |-> Header, size |-> n, body |-> n]
TwoSizes == [lines |-> <<"start", "size", "size", "end">>, size |-> 1, body |-> 1]
NoStart  == [lines |-> <<"size", "end">>, size |-> 1, body |-> 1]
TooLong  == [lines |-> Header, size |-> 11, body |-> 1]
Negative == [lines |-> Header, size |-> -1, body |-> 1]
Empty    == [lines |-> Header, size |-> 0, body |-> 0]

\* Most of the body of Good(5) may have to move behind a header that is shorter: the areas
\* that memcpy is given overlap then.
AnyShape       == {Good(1), Good(5), TwoSizes, NoStart, TooLong, Negative, Empty}
OnlyGood       == {Good(2)}
GoodOrHeadless == {Good(1), NoStart}
=============================================================================
