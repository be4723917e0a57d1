-------------------------- MODULE DefaultProtocol --------------------------
(***************************************************************************)
(* protocol/default_protocol.{h,cpp}: one connection's receive buffer and  *)
(* the loop in RecvSomething that cuts packages out of it.                 *)
(*                                                                         *)
(* A package is a header, whose lines are the cells "start" (protocol:,    *)
(* version: and pub-key:), "size" and "end" (cmd-id:), and a body of so    *)
(* many cells "body" as its XML needs.  All lengths count cells.  The      *)
(* peer's packages arrive in segments; RecvSomething runs on the loop of   *)
(* the connection, WithdrawDiplomat on that loop or, when FreeAllDiplomat  *)
(* calls it (Racing), at any time.                                         *)
(***************************************************************************)
EXTENDS Integers, Sequences, FiniteSetsExt

CONSTANTS
  Shape,          \* packages a peer may send: [lines, size, body]
  MaxPackages,    \* bound: packages sent
  Racing,         \* FreeAllDiplomat may run beside RecvSomething
  Forward,        \* memcpy copies from the front, and never from the back
  LowMark, HighMark,                    \* bufferevent_setwatermark: 40, 64K
  InitialBuffer, Growth, MaxBuffer,     \* 2048, 1024, kMaxBuffer
  MaxHeader, MaxMethod,                 \* kMaxLengthOfHeader, kMaxLengthOfMethod
  Skip,                                 \* length of "protocol:"
  Word                                  \* 2^w, the range of size_t

ASSUME LengthAssumption ==
  /\ {LowMark, HighMark, InitialBuffer, Growth, MaxBuffer, MaxHeader, MaxMethod, Skip, Word}
       \subseteq Nat \ {0}
  /\ InitialBuffer <= MaxBuffer
  /\ Skip <= MaxHeader
  /\ MaxBuffer + HighMark + Growth < Word

ASSUME ShapeAssumption ==
  /\ Shape \subseteq [lines : Seq({"start", "size", "end"}), size : Int, body : Nat]
  /\ MaxPackages \in Nat /\ Racing \in BOOLEAN /\ Forward \in BOOLEAN

VARIABLES
  segmented,  \* segments may end anywhere, not only between packages
  sent,       \* shapes of the packages the peer has sent
  wire,       \* their cells that have not arrived yet
  input,      \* the bufferevent's input buffer
  pending,    \* ReadCB is due
  withdrawn,  \* WithdrawDiplomat has been called
  \* DiplomatMemo
  buffer, offset, capacity,   \* _buffer, _buffer_offset, _buffer_length
  headerGot, size,            \* _header_got, _header.size
  \* RecvSomething
  pc,
  at,         \* where ReadMassage is told to write
  cursor, length,
  executed    \* history: packages whose command was executed

netVars  == <<segmented, sent, wire, input, pending, withdrawn>>
bufVars  == <<buffer, offset, capacity>>
headVars == <<headerGot, size>>
recvVars == <<pc, at, cursor, length>>
vars == <<netVars, bufVars, headVars, recvVars, executed>>

Lesser(a, b) == IF a < b THEN a ELSE b

Cell == [kind : {"start", "size", "end", "body"}, num : Int, pkg : 1..MaxPackages]

Body(s, p) == [i \in 1..s.body |-> [kind |-> "body", num |-> i, pkg |-> p]]

Package(s, p) ==
  [i \in 1..Len(s.lines) |-> [kind |-> s.lines[i], num |-> s.size, pkg |-> p]] \o Body(s, p)

TypeOK ==
  /\ sent \in Seq(Shape) /\ Len(sent) <= MaxPackages
  /\ wire \in Seq(Cell) /\ input \in Seq(Cell) /\ buffer \in Seq(Cell)
  /\ {segmented, pending, withdrawn, headerGot} \subseteq BOOLEAN
  /\ offset \in 0..(Word - 1) /\ capacity \in Nat
  /\ size \in Int
  /\ pc \in {"idle", "read", "parse", "body", "drain", "subtract", "crashed"}
  /\ at \in Nat /\ cursor \in Nat /\ length \in Nat
  /\ executed \in Seq(1..MaxPackages)

Init ==
  /\ segmented \in BOOLEAN
  /\ sent = <<>> /\ wire = <<>> /\ input = <<>> /\ pending = FALSE
  /\ withdrawn = FALSE
  /\ buffer = <<>> /\ offset = 0 /\ capacity = InitialBuffer
  /\ headerGot = FALSE /\ size = 0
  /\ pc = "idle" /\ at = 0 /\ cursor = 0 /\ length = 0
  /\ executed = <<>>

-----------------------------------------------------------------------------
(* The peer and libevent *)

Send(s) ==
  /\ Len(sent) < MaxPackages   \* bound
  /\ sent' = Append(sent, s)
  /\ wire' = wire \o Package(s, Len(sent'))
  /\ UNCHANGED <<segmented, input, pending, withdrawn, bufVars, headVars, recvVars, executed>>

\* A segment may end after cell n of the wire.  Whole packages come in bursts that fit
\* into the memo together with what it has kept.
SegmentEnds(n) ==
  \/ segmented
  \/ /\ n < Len(wire) => wire[n + 1].pkg # wire[n].pkg
     /\ offset + Len(input) + n <= MaxBuffer

\* The loop reads from the socket, up to the high watermark; from the low
\* watermark on ReadCB is due.
Arrive(n) ==
  /\ pc = "idle" /\ ~withdrawn
  /\ SegmentEnds(n)
  /\ Len(input) + n <= HighMark
  /\ input' = input \o SubSeq(wire, 1, n)
  /\ wire' = SubSeq(wire, n + 1, Len(wire))
  /\ pending' = (Len(input') >= LowMark)
  /\ UNCHANGED <<segmented, sent, withdrawn, bufVars, headVars, recvVars, executed>>

-----------------------------------------------------------------------------
(* RecvSomething: reading *)

\* bug: what the memo has kept is not counted in.
CapacityForgetsKept == Len(input)

\* What PrepareCapacity is to make room for.
CapacityNeeded == offset + Len(input)

\* PrepareCapacity makes room if it can.
PrepareCapacity ==
  /\ pc = "idle"
  /\ pending
  /\ pending' = FALSE
  /\ capacity' = IF CapacityNeeded >= capacity /\ capacity < MaxBuffer
                 THEN Lesser(CapacityNeeded + Growth, MaxBuffer)
                 ELSE capacity
  /\ at' = offset
  /\ pc' = "read"
  /\ UNCHANGED <<segmented, sent, wire, input, withdrawn, buffer, offset, headVars,
                 cursor, length, executed>>

\* bug: the room left in the buffer is ignored.
RoomUnlimited == Len(input)

Room == capacity - offset

\* ReadMassage fills the room behind the offset and terminates the string there;
\* the rest stays in the input buffer until ReadCB is called for new data.
ReadMassage ==
  /\ pc = "read"
  /\ LET n == Lesser(Room, Len(input)) IN
       /\ buffer' = SubSeq(buffer, 1, at) \o SubSeq(input, 1, n)
       /\ offset' = offset + n
       /\ input' = SubSeq(input, n + 1, Len(input))
  /\ length' = offset' /\ cursor' = 0
  /\ pc' = "parse"
  /\ UNCHANGED <<segmented, sent, wire, pending, withdrawn, capacity, headVars, at, executed>>

-----------------------------------------------------------------------------
(* RecvSomething: one step per way through the body of its loop *)

\* Lines of a kind behind position c; strstr looks as far as the terminator.
Lines(kind, c) == {i \in (c + 1)..length : buffer[i].kind = kind}

\* GetProtocolKeyword from position c on: where the line is, or 0.
FirstLine(kind, c) == IF Lines(kind, c) = {} THEN 0 ELSE Min(Lines(kind, c))

\* ParseProtocolHeader searches for the end of the header first, then for its
\* other lines, from the same place but as far as there is text.
HeaderEnd == FirstLine("end", cursor)
Start     == FirstLine("start", cursor)
SizeLine  == FirstLine("size", Start)

\* The lines before the end, and not two sizes.
LegalHeader ==
  /\ Start > 0
  /\ SizeLine > 0
  /\ ~ \E i \in Lines("size", SizeLine) : i < HeaderEnd

InHeader == pc = "parse" /\ cursor < length /\ ~headerGot

\* No header yet: the loop ends, and text beyond the longest header is skipped.
HeaderMissing ==
  /\ InHeader /\ HeaderEnd = 0
  /\ cursor' = Min({c \in cursor..length :
                      (c - cursor) % Skip = 0 /\ length - c <= MaxHeader})
  /\ pc' = "drain"
  /\ UNCHANGED <<headVars, executed>>

\* bug: parsing goes on at the same place, ...
SkipsNothing == cursor

\* bug: ... before it, ...
SkipsBack == cursor - HeaderEnd

\* bug: ... or behind everything that has been received.
SkipsAll == length

\* Where parsing goes on after an illegal header.
AfterIllegal == HeaderEnd

HeaderIllegal ==
  /\ InHeader /\ HeaderEnd > 0 /\ ~LegalHeader
  /\ cursor' = AfterIllegal
  /\ UNCHANGED <<pc, headVars, executed>>

HeaderFound ==
  /\ InHeader /\ HeaderEnd > 0 /\ LegalHeader
  /\ headerGot' = TRUE
  /\ size' = buffer[SizeLine].num
  /\ cursor' = HeaderEnd
  /\ pc' = "body"
  /\ UNCHANGED executed

InBody == pc = "body" \/ (pc = "parse" /\ cursor < length /\ headerGot)

\* The comparison is one of size_t: a negative size is beyond any length.
BodyComplete == size >= 0 /\ size <= length - cursor

\* ParseCommand: TinyXML takes the first element and ignores what follows it.
HoldsCommand(text) ==
  /\ text # <<>>
  /\ text[1].kind = "body"
  /\ LET body == Body(sent[text[1].pkg], text[1].pkg) IN
       /\ Len(body) <= Len(text)
       /\ SubSeq(text, 1, Len(body)) = body

Dispatch ==
  /\ InBody /\ BodyComplete
  /\ LET text == SubSeq(buffer, cursor + 1, cursor + size) IN
       executed' = IF HoldsCommand(text) THEN Append(executed, text[1].pkg) ELSE executed
  /\ cursor' = cursor + size
  /\ headerGot' = FALSE
  /\ pc' = "parse"
  /\ UNCHANGED size

\* Everything received so far is dropped.
BodyTooLong ==
  /\ InBody /\ ~BodyComplete /\ size > MaxMethod
  /\ headerGot' = FALSE
  /\ cursor' = length
  /\ pc' = "drain"
  /\ UNCHANGED <<size, executed>>

\* "no recv a complete pagkage"
BodyIncomplete ==
  /\ InBody /\ ~BodyComplete /\ size <= MaxMethod
  /\ pc' = "drain"
  /\ UNCHANGED <<cursor, headVars, executed>>

ParsedAll ==
  /\ pc = "parse" /\ cursor >= length
  /\ pc' = "drain"
  /\ UNCHANGED <<cursor, headVars, executed>>

ParseStep ==
  /\ \/ HeaderMissing \/ HeaderIllegal \/ HeaderFound
     \/ Dispatch \/ BodyTooLong \/ BodyIncomplete \/ ParsedAll
  /\ UNCHANGED <<netVars, bufVars, at, length>>

-----------------------------------------------------------------------------
(* DiplomatMemo::Drain(cursor) *)

DrainAll ==
  /\ pc = "drain"
  /\ cursor = 0 \/ cursor > offset
  /\ offset' = 0
  /\ buffer' = <<>>
  /\ pc' = "idle"

DrainSome ==
  /\ pc = "drain"
  /\ cursor \in 1..offset
  /\ pc' = "subtract"
  /\ UNCHANGED <<offset, buffer>>

\* bug: _buffer_offset is lessened, but the rest is not moved.
NotMoved(m, n) == {SubSeq(buffer, 1, n)}

\* What memcpy may put in front when it copies n cells from behind cell m.  When there are
\* more than m of them the areas overlap, which C leaves undefined: the copy is right, or,
\* if it is made from the back, it is the last m cells over and over.
Moved(m, n) ==
  {SubSeq(buffer, m + 1, m + n)} \cup
  (IF Forward \/ n <= m THEN {} ELSE {[i \in 1..n |-> buffer[m + n - ((m + n - i) % m)]]})

\* _buffer_offset -= size, and the rest moves to the front.  The value that is lessened is
\* read again, or is the one of the test, length, if the compiler has kept it: they differ
\* when WithdrawDiplomat has come between.  A memcpy of more than there is, because the
\* offset has wrapped, never returns.
Subtract ==
  /\ pc = "subtract"
  /\ \E o \in {offset, length} : offset' = (o - cursor) % Word
  /\ IF cursor + offset' <= Len(buffer)
     THEN buffer' \in Moved(cursor, offset') /\ pc' = "idle"
     ELSE UNCHANGED buffer /\ pc' = "crashed"

DrainStep ==
  /\ DrainAll \/ DrainSome \/ Subtract
  /\ UNCHANGED <<netVars, capacity, headVars, at, cursor, length, executed>>

\* Drain(-1).  The connection gets no more callbacks afterwards.
WithdrawDiplomat ==
  /\ ~withdrawn
  /\ pc = "idle" \/ Racing
  /\ withdrawn' = TRUE
  /\ pending' = FALSE
  /\ offset' = 0
  /\ UNCHANGED <<segmented, sent, wire, input, buffer, capacity, headVars, recvVars, executed>>

Closed == withdrawn /\ pc \in {"idle", "crashed"} /\ UNCHANGED vars
-----------------------------------------------------------------------------
RecvSomething == PrepareCapacity \/ ReadMassage \/ ParseStep \/ DrainStep

Next ==
  \/ \E s \in Shape : Send(s)
  \/ \E n \in 1..Len(wire) : Arrive(n)
  \/ RecvSomething
  \/ WithdrawDiplomat
  \/ Closed

Spec == Init /\ [][Next]_vars

\* The loop's thread runs; the peer owes nothing.
FairSpec == Spec /\ WF_vars(RecvSomething)

-----------------------------------------------------------------------------
(* Safety *)

\* However the segments fall, and whatever sizes the headers announce, the offset
\* stays within the buffer, and the loop and Drain within what has been received:
\* the '\0' that RecvSomething puts behind a body, and ReadMassage behind the
\* text, fall inside the allocated _buffer_length + 1 bytes.
InBounds ==
  /\ offset <= capacity /\ capacity <= MaxBuffer
  /\ ~withdrawn => offset = Len(buffer)
  /\ pc = "read" => at = offset
  /\ pc \in {"parse", "body", "drain"} => cursor <= length /\ length = offset
  /\ pc = "subtract" => cursor <= offset

\* Commands are executed in the order they were sent, and none twice, although
\* text is moved within the buffer, skipped and dropped.
ServedInOrder ==
  \A i, j \in 1..Len(executed) : i < j => executed[i] < executed[j]

WellFormed(s) == s.lines = <<"start", "size", "end">> /\ s.size = s.body

\* Well-formed, but for the number of sizes in the header.
Sound(s) ==
  LET n == Len(s.lines) IN
    /\ n >= 3 /\ s.lines[1] = "start" /\ s.lines[n] = "end"
    /\ \A i \in 2..(n - 1) : s.lines[i] = "size"
    /\ s.size = s.body

Idle == pc = "idle" /\ ~pending /\ ~withdrawn

\* What has arrived is read, but for less than the low watermark; more is left lying in
\* the input buffer only by a call that has filled the memo up to kMaxBuffer.
ArrivedIsRead == Idle /\ Len(input) >= LowMark => length = MaxBuffer

\* When whole packages arrive, in bursts of any number that fit, every well-formed
\* command among them is executed, although packages with two sizes in their header come
\* between them: these cost nobody but themselves.
WholePackagesServed ==
  Idle /\ ~segmented /\ (\A p \in 1..Len(sent) : Sound(sent[p])) =>
    /\ input = <<>>
    /\ \A p \in 1..Len(sent) :
         WellFormed(sent[p]) /\ sent[p].size > 0 /\ (\A i \in 1..Len(wire) : wire[i].pkg # p)
           => \E i \in 1..Len(executed) : executed[i] = p

-----------------------------------------------------------------------------
(* Liveness *)

\* RecvSomething comes to an end: no header, however broken, and no size keep its loop
\* on the same place.
RecvReturns == pc # "idle" ~> pc = "idle"

-----------------------------------------------------------------------------
(* What the comments say *)

\* "the header is not complete yet": such text is kept until the rest comes.
IncompleteIsKept ==
  [][ (pc \in {"drain", "subtract"} /\ pc' = "idle") => (offset' + cursor = offset) ]_vars

\* "returns -1 if the header is invalid": no command behind one is executed.
IllegalHeaderRejected ==
  \A i \in 1..Len(executed) : sent[executed[i]].lines = <<"start", "size", "end">>

\* "empties the receive buffer", also beside a RecvSomething that then comes to an end.
WithdrawEmptiesBuffer == withdrawn /\ pc \in {"idle", "crashed"} => offset = 0
=============================================================================
