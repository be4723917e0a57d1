----------------------- MODULE DefaultProtocol_proofs ----------------------
(***************************************************************************)
(* Proofs of DefaultProtocol's safety properties for any packages, lengths *)
(* and segments.                                                           *)
(***************************************************************************)
EXTENDS DefaultProtocol, SequenceTheorems, WellFoundedInduction, TLAPS

(***************************************************************************)
(* The inductive invariant.                                                *)
(***************************************************************************)

Parsing == {"parse", "body", "drain"}

\* The memo's offset, its text and what RecvSomething knows of them agree until
\* WithdrawDiplomat has set the offset back.
Kept ==
  /\ capacity <= MaxBuffer
  /\ pc \notin {"idle", "crashed"} \/ ~withdrawn => offset <= capacity
  /\ pc = "idle" /\ ~withdrawn => offset = Len(buffer)
  /\ pc = "read" => at = Len(buffer) /\ offset <= at /\ (~withdrawn => offset = at)
  /\ pc \in Parsing => /\ cursor <= length /\ length <= Len(buffer)
                       /\ ~withdrawn => offset = length /\ length = Len(buffer)
                       /\ offset = length \/ offset = 0
  /\ pc = "subtract" => /\ cursor \in 1..length /\ length <= Len(buffer)
                        /\ ~withdrawn => offset = length /\ length = Len(buffer)

\* After WithdrawDiplomat nothing is read; without a race it finds RecvSomething done.
Withdrawn ==
  /\ withdrawn => ~pending
  /\ withdrawn /\ ~Racing => pc = "idle" /\ offset = 0
  /\ pc = "crashed" => withdrawn

\* What RecvSomething leaves in the input buffer it has no room for.
Reading ==
  ~withdrawn =>
    /\ pc = "read" => capacity = MaxBuffer \/ at + Len(input) <= capacity
    /\ pc \in Parsing \cup {"subtract"} => input = <<>> \/ length = MaxBuffer
    /\ pc = "idle" /\ ~pending => Len(input) < LowMark \/ length = MaxBuffer

Cells(s) == {s[i] : i \in 1..Len(s)}

\* Every cell, and every command executed, is one of a package that has been sent.
Traced ==
  /\ \A x \in Cells(buffer) \cup Cells(input) \cup Cells(wire) :
       /\ x.pkg <= Len(sent)
       /\ x.kind = "body" => x.num \in 1..sent[x.pkg].body
  /\ \A i \in 1..Len(executed) : executed[i] <= Len(sent)

\* ParseCommand executes a command that begins with the first cell of a body.  Nothing is
\* said of their order when memcpy copies from the back.
First(x) == Forward /\ x.kind = "body" /\ x.num = 1

Ordered(s)   == \A i, j \in 1..Len(s) : i < j /\ First(s[i]) /\ First(s[j]) => s[i].pkg < s[j].pkg
Before(s, t) == \A x \in Cells(s), y \in Cells(t) : First(x) /\ First(y) => x.pkg < y.pkg

\* The first cells of bodies are in the order they were sent, in the memo as on the wire,
InOrder ==
  /\ Ordered(buffer) /\ Ordered(input) /\ Ordered(wire)
  /\ Before(buffer, input) /\ Before(buffer, wire) /\ Before(input, wire)

\* and those that may still be parsed are of later packages than the executed ones.
Ahead ==
  \A i \in 1..Len(executed) :
    /\ \A x \in Cells(input) \cup Cells(wire) : First(x) => executed[i] < x.pkg
    /\ \A j \in 1..Len(buffer) :
         (pc \in {"idle", "read"} \/ cursor < j) /\ First(buffer[j]) => executed[i] < buffer[j].pkg

InSequence == Forward => ServedInOrder

IInv ==
  /\ TypeOK
  /\ Kept
  /\ Withdrawn
  /\ Reading
  /\ Traced
  /\ InOrder
  /\ InSequence
  /\ Ahead

USE DEF Parsing, netVars, bufVars, headVars, recvVars

-----------------------------------------------------------------------------
(* Lemmas about cells and packages *)

\* The lengths are numbers in the order that LengthAssumption gives them.
LEMMA Lengths ==
  /\ LowMark \in Nat \ {0} /\ MaxBuffer \in Nat \ {0} /\ InitialBuffer \in Nat \ {0}
  /\ MaxMethod \in Nat /\ Word \in Nat \ {0} /\ MaxBuffer < Word
  /\ Growth \in Nat /\ Skip \in Nat \ {0} /\ MaxHeader \in Nat /\ Skip <= MaxHeader
  /\ InitialBuffer <= MaxBuffer /\ MaxPackages \in Nat
BY LengthAssumption, ShapeAssumption

\* A shape is what ShapeAssumption says.
LEMMA ShapeFields ==
  ASSUME NEW s \in Shape
  PROVE  /\ s.lines \in Seq({"start", "size", "end"}) /\ Len(s.lines) \in Nat
         /\ s.size \in Int /\ s.body \in Nat
BY ShapeAssumption

LEMMA Catenation ==
  ASSUME NEW s \in Seq(Cell), NEW t \in Seq(Cell)
  PROVE  /\ s \o t \in Seq(Cell) /\ Len(s \o t) = Len(s) + Len(t)
         /\ \A i \in 1..Len(s) : (s \o t)[i] = s[i]
         /\ \A i \in 1..Len(t) : (s \o t)[Len(s) + i] = t[i]
         /\ Cells(s \o t) \subseteq Cells(s) \cup Cells(t)
<1>1. /\ s \o t \in Seq(Cell) /\ Len(s \o t) = Len(s) + Len(t)
      /\ Len(s) \in Nat /\ Len(t) \in Nat
      /\ \A i \in 1..Len(s) : (s \o t)[i] = s[i]
      /\ \A i \in 1..Len(t) : (s \o t)[Len(s) + i] = t[i]
  BY ConcatProperties, LenProperties
<1>2. ASSUME NEW i \in 1..Len(s \o t)
      PROVE  (s \o t)[i] \in Cells(s) \cup Cells(t)
  <2>1. CASE i \in 1..Len(s)
    BY <1>1, <2>1 DEF Cells
  <2>2. CASE i \notin 1..Len(s)
    <3>1. i - Len(s) \in 1..Len(t) /\ i = Len(s) + (i - Len(s))
      BY <1>1, <2>2
    <3>2. (s \o t)[i] = t[i - Len(s)]
      BY <1>1, <3>1
    <3> QED
      BY <3>1, <3>2 DEF Cells
  <2> QED
    BY <2>1, <2>2
<1> QED
  BY <1>1, <1>2 DEF Cells

LEMMA Part ==
  ASSUME NEW s \in Seq(Cell), NEW m \in Nat \ {0}, NEW n \in 0..Len(s)
  PROVE  /\ SubSeq(s, m, n) \in Seq(Cell)
         /\ Len(SubSeq(s, m, n)) = (IF m <= n THEN n - m + 1 ELSE 0)
         /\ \A i \in 1..Len(SubSeq(s, m, n)) :
              i + m - 1 \in 1..Len(s) /\ SubSeq(s, m, n)[i] = s[i + m - 1]
         /\ Cells(SubSeq(s, m, n)) \subseteq Cells(s)
<1>1. Len(s) \in Nat /\ n \in Nat /\ n <= Len(s)
  BY LenProperties
<1>2. CASE m <= n
  <2>1. /\ SubSeq(s, m, n) \in Seq(Cell) /\ Len(SubSeq(s, m, n)) = n - m + 1
        /\ \A i \in 1..(n - m + 1) : SubSeq(s, m, n)[i] = s[m + i - 1]
    BY <1>1, <1>2, SubSeqProperties
  <2>2. \A i \in 1..(n - m + 1) : i + m - 1 \in 1..Len(s) /\ m + i - 1 = i + m - 1
    BY <1>1, <1>2
  <2> QED
    BY <1>2, <2>1, <2>2 DEF Cells
<1>3. CASE ~(m <= n)
  <2>1. SubSeq(s, m, n) = <<>>
    BY <1>1, <1>3, SubSeqEmpty
  <2> QED
    BY <1>3, <2>1 DEF Cells
<1> QED
  BY <1>2, <1>3

LEMMA OrderedPart ==
  ASSUME NEW s \in Seq(Cell), NEW m \in Nat \ {0}, NEW n \in 0..Len(s), Ordered(s)
  PROVE  Ordered(SubSeq(s, m, n))
<1> DEFINE p == SubSeq(s, m, n)
<1>1. Len(p) \in Nat /\ \A i \in 1..Len(p) : i + m - 1 \in 1..Len(s) /\ p[i] = s[i + m - 1]
  BY Part, LenProperties
<1> SUFFICES ASSUME NEW i \in 1..Len(p), NEW j \in 1..Len(p), i < j, First(p[i]), First(p[j])
             PROVE  p[i].pkg < p[j].pkg
  BY DEF Ordered
<1> HIDE DEF p
<1>2. i + m - 1 \in 1..Len(s) /\ j + m - 1 \in 1..Len(s) /\ i + m - 1 < j + m - 1
  BY <1>1
<1> QED
  BY <1>1, <1>2 DEF Ordered

LEMMA OrderedCatenation ==
  ASSUME NEW s \in Seq(Cell), NEW t \in Seq(Cell), Ordered(s), Ordered(t), Before(s, t)
  PROVE  Ordered(s \o t)
<1> DEFINE c == s \o t
<1>1. Len(s) \in Nat /\ Len(t) \in Nat /\ Len(c) = Len(s) + Len(t)
  BY Catenation, LenProperties
<1>2. \A i \in 1..Len(s) : c[i] = s[i]
  BY Catenation
<1>3. \A i \in 1..Len(t) : c[Len(s) + i] = t[i]
  BY Catenation
<1> HIDE DEF c
<1> SUFFICES ASSUME NEW i \in 1..Len(c), NEW j \in 1..Len(c), i < j, First(c[i]), First(c[j])
             PROVE  c[i].pkg < c[j].pkg
  BY DEF Ordered, c
<1>4. CASE j <= Len(s)
  <2>1. i \in 1..Len(s) /\ j \in 1..Len(s)
    BY <1>1, <1>4
  <2>2. c[i] = s[i] /\ c[j] = s[j]
    BY <1>2, <2>1
  <2> QED
    BY <2>1, <2>2 DEF Ordered
<1>5. CASE i <= Len(s) /\ Len(s) < j
  <2>1. j - Len(s) \in 1..Len(t) /\ c[j] = t[j - Len(s)]
    <3>1. j - Len(s) \in 1..Len(t) /\ j = Len(s) + (j - Len(s))
      BY <1>1, <1>5
    <3> QED
      BY <1>3, <3>1
  <2>2. i \in 1..Len(s) /\ c[i] = s[i]
    BY <1>1, <1>2, <1>5
  <2> QED
    BY <2>1, <2>2 DEF Before, Cells
<1>6. CASE Len(s) < i
  <2>1. /\ i - Len(s) \in 1..Len(t) /\ c[i] = t[i - Len(s)]
        /\ j - Len(s) \in 1..Len(t) /\ c[j] = t[j - Len(s)]
        /\ i - Len(s) < j - Len(s)
    <3>1. /\ i - Len(s) \in 1..Len(t) /\ i = Len(s) + (i - Len(s))
          /\ j - Len(s) \in 1..Len(t) /\ j = Len(s) + (j - Len(s))
          /\ i - Len(s) < j - Len(s)
      BY <1>1, <1>6
    <3> QED
      BY <1>3, <3>1
  <2> QED
    BY <2>1 DEF Ordered
<1> QED
  BY <1>1, <1>4, <1>5, <1>6

\* What a cut leaves on its two sides stays in order.
LEMMA CutOrdered ==
  ASSUME NEW s \in Seq(Cell), NEW n \in 0..Len(s), Ordered(s)
  PROVE  Before(SubSeq(s, 1, n), SubSeq(s, n + 1, Len(s)))
<1> DEFINE l == SubSeq(s, 1, n)
           r == SubSeq(s, n + 1, Len(s))
<1>1. Len(s) \in Nat /\ n \in Nat /\ n + 1 \in Nat \ {0} /\ Len(s) \in 0..Len(s)
  BY LenProperties
<1>2. Len(l) = n /\ \A i \in 1..n : i \in 1..Len(s) /\ l[i] = s[i]
  BY <1>1, Part
<1>3. Len(r) \in Nat /\ \A i \in 1..Len(r) : i + n \in 1..Len(s) /\ r[i] = s[i + n]
  BY <1>1, Part, LenProperties
<1> HIDE DEF l, r
<1> SUFFICES ASSUME NEW i \in 1..Len(l), NEW j \in 1..Len(r), First(l[i]), First(r[j])
             PROVE  l[i].pkg < r[j].pkg
  BY DEF Before, Cells, l, r
<1>4. i \in 1..Len(s) /\ j + n \in 1..Len(s) /\ i < j + n /\ l[i] = s[i] /\ r[j] = s[j + n]
  BY <1>1, <1>2, <1>3
<1> QED
  BY <1>4 DEF Ordered

LEMMA Cut ==
  ASSUME NEW s \in Seq(Cell), NEW n \in 0..Len(s), Ordered(s)
  PROVE  LET front == SubSeq(s, 1, n)
             rest  == SubSeq(s, n + 1, Len(s))
         IN /\ front \in Seq(Cell) /\ rest \in Seq(Cell)
            /\ Len(front) = n /\ (n = Len(s) => rest = <<>>)
            /\ Cells(front) \subseteq Cells(s) /\ Cells(rest) \subseteq Cells(s)
            /\ Ordered(front) /\ Ordered(rest) /\ Before(front, rest)
<1> DEFINE front == SubSeq(s, 1, n)
           rest  == SubSeq(s, n + 1, Len(s))
<1>1. Len(s) \in Nat /\ n \in Nat /\ n + 1 \in Nat \ {0} /\ Len(s) \in 0..Len(s)
  BY LenProperties
<1>2. front \in Seq(Cell) /\ Cells(front) \subseteq Cells(s) /\ Len(front) = n
  BY <1>1, Part
<1>3. rest \in Seq(Cell) /\ Cells(rest) \subseteq Cells(s)
  BY <1>1, Part
<1>4. n = Len(s) => rest = <<>>
  BY <1>1, SubSeqEmpty
<1>5. Ordered(front) /\ Ordered(rest)
  BY <1>1, OrderedPart
<1>6. Before(front, rest)
  BY <1>1, CutOrdered
<1> QED
  BY <1>2, <1>3, <1>4, <1>5, <1>6

LEMMA CellTypes ==
  ASSUME NEW s \in Seq(Cell), NEW x \in Cells(s)
  PROVE  x \in Cell /\ x.pkg \in 1..MaxPackages
<1>1. PICK i \in 1..Len(s) : x = s[i]
  BY DEF Cells
<1>2. x \in Cell
  BY <1>1, ElementOfSeq
<1> QED
  BY <1>2 DEF Cell

\* A package is made of cells of its own, and has one first cell of a body at most.
LEMMA PackageCells ==
  ASSUME NEW s \in Shape, NEW p \in 1..MaxPackages
  PROVE  /\ Package(s, p) \in Seq(Cell)
         /\ \A x \in Cells(Package(s, p)) :
              x.pkg = p /\ (x.kind = "body" => x.num \in 1..s.body)
         /\ Ordered(Package(s, p))
<1> DEFINE h == [i \in 1..Len(s.lines) |-> [kind |-> s.lines[i], num |-> s.size, pkg |-> p]]
           b == Body(s, p)
<1>1. /\ s.lines \in Seq({"start", "size", "end"}) /\ Len(s.lines) \in Nat
      /\ s.size \in Int /\ s.body \in Nat
  BY ShapeFields
<1>2. h \in Seq(Cell) /\ Len(h) = Len(s.lines)
  BY <1>1 DEF Cell
<1>3. b \in Seq(Cell) /\ Len(b) = s.body
  <2>1. \A i \in 1..s.body : [kind |-> "body", num |-> i, pkg |-> p] \in Cell
    BY DEF Cell
  <2> QED
    BY <1>1, <2>1 DEF Body
<1>4. \A x \in Cells(h) : x.pkg = p /\ x.kind # "body"
  <2>1. \A i \in 1..Len(s.lines) : s.lines[i] \in {"start", "size", "end"}
    BY <1>1
  <2>2. \A i \in 1..Len(h) : h[i].pkg = p /\ h[i].kind = s.lines[i]
    BY <1>2
  <2> HIDE DEF h
  <2>3. \A i \in 1..Len(h) : h[i].pkg = p /\ h[i].kind # "body"
    BY <1>2, <2>1, <2>2
  <2> QED
    BY <2>3 DEF Cells
<1>5. \A i \in 1..Len(b) : b[i].pkg = p /\ b[i].num = i /\ i \in 1..s.body
  BY <1>1, <1>3 DEF Body
<1> HIDE DEF h, b
<1>6. Package(s, p) = h \o b
  BY DEF Package, h, b
<1>7. Ordered(h)
  BY <1>2, <1>4 DEF Ordered, First, Cells
<1>8. Ordered(b)
  BY <1>3, <1>5 DEF Ordered, First
<1>9. Before(h, b)
  BY <1>4 DEF Before, First
<1>10. \A x \in Cells(b) : x.pkg = p /\ x.num \in 1..s.body
  BY <1>5 DEF Cells
<1>11. h \o b \in Seq(Cell) /\ Cells(h \o b) \subseteq Cells(h) \cup Cells(b)
  BY <1>2, <1>3, Catenation
<1>12. Ordered(h \o b)
  BY <1>2, <1>3, <1>7, <1>8, <1>9, OrderedCatenation
<1> QED
  BY <1>4, <1>6, <1>10, <1>11, <1>12

LEMMA ExecutedTypes ==
  ASSUME TypeOK, NEW i \in 1..Len(executed)
  PROVE  executed[i] \in 1..MaxPackages /\ executed[i] \in Nat
<1>1. executed \in Seq(1..MaxPackages) /\ MaxPackages \in Nat
  BY Lengths DEF TypeOK
<1>2. executed[i] \in 1..MaxPackages
  BY <1>1, ElementOfSeq
<1> QED
  BY <1>1, <1>2

-----------------------------------------------------------------------------
(* Lemmas about searching in the memo *)

\* A set of numbers that is not empty has a least element.
LEMMA MinOfNumbers ==
  ASSUME NEW S \in SUBSET Nat, S # {}
  PROVE  Min(S) \in S /\ \A n \in S : Min(S) <= n
<1> DEFINE Less == OpToRel(<, Nat)
<1>1. IsWellFoundedOn(Less, Nat)
  BY NatLessThanWellFounded DEF OpToRel
<1> HIDE DEF Less
<1>2. PICK m \in S : \A n \in S : ~(<<n, m>> \in Less)
  BY <1>1, WFMin
<1>3. \A n \in S : m <= n
  <2> TAKE n \in S
  <2>1. ~(n < m)
    BY <1>2 DEF Less, OpToRel
  <2> QED
    BY <2>1
<1> QED
  BY <1>3 DEF Min

\* GetProtocolKeyword finds a line behind the place where it starts to look, in what has
\* been received.
LEMMA FirstLineFound ==
  ASSUME NEW kind, NEW c \in Nat, length \in Nat
  PROVE  /\ FirstLine(kind, c) \in Nat
         /\ FirstLine(kind, c) > 0 => FirstLine(kind, c) \in (c + 1)..length
<1>1. CASE Lines(kind, c) = {}
  BY <1>1 DEF FirstLine
<1>2. CASE Lines(kind, c) # {}
  <2>1. Lines(kind, c) \subseteq (c + 1)..length /\ Lines(kind, c) \in SUBSET Nat
    BY DEF Lines
  <2>2. Min(Lines(kind, c)) \in Lines(kind, c)
    BY <1>2, <2>1, MinOfNumbers
  <2> QED
    BY <1>2, <2>1, <2>2 DEF FirstLine
<1> QED
  BY <1>1, <1>2

\* Skipping in steps of Skip leaves less than the longest header.
LEMMA SkipEnds ==
  ASSUME cursor \in Nat, length \in Nat, cursor <= length
  PROVE  LET S == {c \in cursor..length : (c - cursor) % Skip = 0 /\ length - c <= MaxHeader} IN
           Min(S) \in cursor..length
<1> DEFINE S == {c \in cursor..length : (c - cursor) % Skip = 0 /\ length - c <= MaxHeader}
           x == length - cursor
           q == x \div Skip
<1>1. x \in Nat /\ Skip \in Nat \ {0} /\ MaxHeader \in Nat /\ Skip <= MaxHeader
  BY Lengths
<1> HIDE DEF x
<1>2. q \in Nat /\ x = Skip * q + (x % Skip) /\ x % Skip \in 0..(Skip - 1)
  BY <1>1
<1> HIDE DEF q
<1>3. Skip * q \in Nat /\ (Skip * q) % Skip = 0
  BY <1>1, <1>2
<1>4. cursor + Skip * q \in S
  <2>1. (cursor + Skip * q) - cursor = Skip * q
    BY <1>3
  <2>2. cursor + Skip * q \in cursor..length /\ length - (cursor + Skip * q) <= MaxHeader
    <3>1. \A k \in Nat : x = k + (x % Skip) /\ x % Skip \in 0..(Skip - 1)
            => cursor + k \in cursor..length /\ length - (cursor + k) <= MaxHeader
      <4>1. \A r \in 0..(Skip - 1), k \in Nat : x = k + r => k <= x /\ x - k <= MaxHeader
        BY <1>1
      <4> QED
        BY <1>1, <4>1 DEF x
    <3> QED
      BY <1>2, <1>3, <3>1
  <2> QED
    BY <1>3, <2>1, <2>2
<1>5. S \in SUBSET Nat /\ S \subseteq cursor..length
  OBVIOUS
<1> HIDE DEF S
<1>6. Min(S) \in cursor..length
  BY <1>4, <1>5, MinOfNumbers
<1> QED
  BY <1>6 DEF S

-----------------------------------------------------------------------------
(* The peer and libevent *)

\* The parts of the invariant that speak of the text, while that stays as it is.
LEMMA Frame ==
  ASSUME IInv
  PROVE  /\ UNCHANGED <<buffer, input, wire, sent, executed>> => Traced'
         /\ UNCHANGED <<buffer, input, wire>> => InOrder'
         /\ UNCHANGED executed => InSequence'
<1>1. UNCHANGED <<buffer, input, wire, sent, executed>> => Traced'
  BY DEF IInv, Traced
<1>2. UNCHANGED <<buffer, input, wire>> => InOrder'
  BY DEF IInv, InOrder
<1>3. UNCHANGED executed => InSequence'
  BY DEF IInv, InSequence, ServedInOrder
<1> QED
  BY <1>1, <1>2, <1>3

\* A new package is behind all others.
LEMMA SendInv ==
  ASSUME IInv, NEW s \in Shape, Send(s)
  PROVE  IInv'
<1> DEFINE new == Package(s, Len(sent'))
<1>1. /\ sent \in Seq(Shape) /\ Len(sent) \in Nat /\ Len(sent) < MaxPackages
      /\ sent' = Append(sent, s) /\ wire' = wire \o new
      /\ UNCHANGED segmented /\ UNCHANGED input /\ UNCHANGED pending /\ UNCHANGED withdrawn
      /\ UNCHANGED buffer /\ UNCHANGED offset /\ UNCHANGED capacity
      /\ UNCHANGED headerGot /\ UNCHANGED size /\ UNCHANGED pc /\ UNCHANGED at
      /\ UNCHANGED cursor /\ UNCHANGED length /\ UNCHANGED executed
  BY DEF IInv, TypeOK, Send
<1>2. /\ sent' \in Seq(Shape) /\ Len(sent') = Len(sent) + 1 /\ Len(sent') \in 1..MaxPackages
      /\ sent'[Len(sent')] = s /\ \A p \in 1..Len(sent) : sent'[p] = sent[p]
  BY <1>1, Lengths
<1>2a. /\ Len(sent) \in Nat /\ Len(sent') = Len(sent) + 1
        /\ \A p \in 1..Len(sent) : sent'[p] = sent[p]
  BY <1>1, <1>2
<1>3. /\ new \in Seq(Cell) /\ Ordered(new)
      /\ \A x \in Cells(new) : x.pkg = Len(sent') /\ (x.kind = "body" => x.num \in 1..s.body)
  BY <1>2, PackageCells
<1> HIDE DEF new
<1>4. wire \in Seq(Cell) /\ buffer \in Seq(Cell) /\ input \in Seq(Cell)
  BY DEF IInv, TypeOK
<1>5. wire' \in Seq(Cell) /\ Cells(wire') \subseteq Cells(wire) \cup Cells(new)
  BY <1>1, <1>3, <1>4, Catenation
<1>6. \A x \in Cells(buffer) \cup Cells(input) \cup Cells(wire) : x.pkg \in 1..Len(sent)
  <2>1. \A x \in Cells(buffer) \cup Cells(input) \cup Cells(wire) : x.pkg \in 1..MaxPackages
    BY <1>4, CellTypes
  <2> QED
    BY <1>1, <2>1 DEF IInv, Traced
<1>7. TypeOK'
  BY <1>1, <1>2, <1>5 DEF IInv, TypeOK
<1>8. Kept' /\ Withdrawn' /\ Reading'
  BY <1>1 DEF IInv, Kept, Withdrawn, Reading
<1>9. Traced'
  <2>1. ASSUME NEW x \in Cells(buffer) \cup Cells(input) \cup Cells(wire)
        PROVE  x.pkg <= Len(sent') /\ (x.kind = "body" => x.num \in 1..sent'[x.pkg].body)
    <3>1. x.pkg \in 1..Len(sent)
      BY <1>6
    <3>2. x.pkg <= Len(sent') /\ sent'[x.pkg] = sent[x.pkg]
      BY <1>2a, <3>1
    <3>3. x.kind = "body" => x.num \in 1..sent[x.pkg].body
      BY DEF IInv, Traced
    <3> QED
      BY <3>2, <3>3
  <2>2. ASSUME NEW x \in Cells(new)
        PROVE  x.pkg <= Len(sent') /\ (x.kind = "body" => x.num \in 1..sent'[x.pkg].body)
    BY <1>1, <1>2, <1>3
  <2>3. \A i \in 1..Len(executed) : executed[i] <= Len(sent')
    <3>1. \A i \in 1..Len(executed) : executed[i] \in Nat /\ executed[i] <= Len(sent)
      BY ExecutedTypes DEF IInv, Traced
    <3> QED
      BY <1>2a, <3>1
  <2>4. UNCHANGED buffer
    BY <1>1
  <2> QED
    BY <1>1, <1>5, <2>1, <2>2, <2>3, <2>4 DEF Traced
<1>10. InOrder'
  <2>1. Before(buffer, new) /\ Before(input, new) /\ Before(wire, new)
    <3>1. ASSUME NEW x \in Cells(buffer) \cup Cells(input) \cup Cells(wire), NEW y \in Cells(new)
          PROVE  x.pkg < y.pkg
      <4>1. x.pkg \in 1..Len(sent)
        BY <1>6
      <4>2. y.pkg = Len(sent')
        BY <1>3
      <4> QED
        BY <1>2a, <4>1, <4>2
    <3> QED
      BY <3>1 DEF Before
  <2>2. Ordered(wire')
    BY <1>1, <1>3, <1>4, <2>1, OrderedCatenation DEF IInv, InOrder
  <2>3. UNCHANGED buffer /\ UNCHANGED input
    BY <1>1
  <2>4. Before(buffer, wire') /\ Before(input, wire')
    BY <1>5, <2>1 DEF IInv, InOrder, Before
  <2> QED
    BY <2>2, <2>3, <2>4 DEF IInv, InOrder
<1>11. Ahead'
  <2>1. \A i \in 1..Len(executed) : executed[i] \in Nat /\ executed[i] <= Len(sent)
    BY ExecutedTypes DEF IInv, Traced
  <2>2. \A i \in 1..Len(executed) : \A x \in Cells(new) : executed[i] < x.pkg
    <3>1. \A x \in Cells(new) : x.pkg = Len(sent')
      BY <1>3
    <3> QED
      BY <1>2a, <2>1, <3>1
  <2> QED
    BY <1>1, <1>5, <2>2 DEF IInv, Ahead
<1> QED
  BY <1>1, <1>7, <1>8, <1>9, <1>10, <1>11, Frame DEF IInv

\* Text that arrives goes to the end of the input buffer.
LEMMA ArriveInv ==
  ASSUME IInv, NEW n \in 1..Len(wire), Arrive(n)
  PROVE  IInv'
<1> DEFINE front == SubSeq(wire, 1, n)
           rest  == SubSeq(wire, n + 1, Len(wire))
<1>1. /\ pc = "idle" /\ ~withdrawn
      /\ input' = input \o front /\ wire' = rest /\ pending' = (Len(input') >= LowMark)
      /\ UNCHANGED segmented /\ UNCHANGED sent /\ UNCHANGED withdrawn
      /\ UNCHANGED buffer /\ UNCHANGED offset /\ UNCHANGED capacity
      /\ UNCHANGED headerGot /\ UNCHANGED size /\ UNCHANGED pc /\ UNCHANGED at
      /\ UNCHANGED cursor /\ UNCHANGED length /\ UNCHANGED executed
  BY DEF Arrive
<1>2. wire \in Seq(Cell) /\ buffer \in Seq(Cell) /\ input \in Seq(Cell) /\ Len(wire) \in Nat
  BY DEF IInv, TypeOK
<1>3. /\ front \in Seq(Cell) /\ Cells(front) \subseteq Cells(wire) /\ Ordered(front)
      /\ rest \in Seq(Cell) /\ Cells(rest) \subseteq Cells(wire) /\ Ordered(rest)
      /\ Before(front, rest)
  <2>1. n \in 0..Len(wire) /\ Ordered(wire)
    BY <1>2 DEF IInv, InOrder
  <2> QED
    BY <1>2, <2>1, Cut
<1> HIDE DEF front, rest
<1>4. input' \in Seq(Cell) /\ Cells(input') \subseteq Cells(input) \cup Cells(wire)
  BY <1>1, <1>2, <1>3, Catenation
<1>5. wire' \in Seq(Cell) /\ Cells(wire') \subseteq Cells(wire)
  BY <1>1, <1>3
<1>6. TypeOK'
  <2>1. pending' \in BOOLEAN
    BY <1>1
  <2> QED
    BY <1>1, <1>4, <1>5, <2>1 DEF IInv, TypeOK
<1>7. Kept' /\ Withdrawn'
  BY <1>1 DEF IInv, Kept, Withdrawn
<1>8. Reading'
  <2>1. Len(input') \in Nat /\ LowMark \in Nat
    BY <1>4, Lengths
  <2>2. ~pending' => Len(input') < LowMark
    <3>1. ~pending' => ~(Len(input') >= LowMark)
      BY <1>1
    <3> QED
      BY <2>1, <3>1
  <2>3. pc' = "idle"
    BY <1>1
  <2> QED
    BY <2>2, <2>3 DEF Reading
<1>9. Traced'
  BY <1>1, <1>4, <1>5 DEF IInv, Traced
<1>10. InOrder'
  <2>1. Before(input, front)
    BY <1>3 DEF IInv, InOrder, Before
  <2>2. Ordered(input')
    BY <1>1, <1>2, <1>3, <2>1, OrderedCatenation DEF IInv, InOrder
  <2>3. Before(buffer, input') /\ Before(buffer, wire')
    BY <1>4, <1>5 DEF IInv, InOrder, Before
  <2>4. Before(input', wire')
    <3>1. Cells(input') \subseteq Cells(input) \cup Cells(front)
      BY <1>1, <1>2, <1>3, Catenation
    <3>2. Before(input, rest)
      BY <1>3 DEF IInv, InOrder, Before
    <3> QED
      BY <1>1, <1>3, <3>1, <3>2 DEF Before
  <2>5. UNCHANGED buffer
    BY <1>1
  <2> QED
    BY <1>1, <1>3, <2>2, <2>3, <2>4, <2>5 DEF IInv, InOrder
<1>11. Ahead'
  BY <1>1, <1>4, <1>5 DEF IInv, Ahead
<1> QED
  BY <1>1, <1>6, <1>7, <1>8, <1>9, <1>10, <1>11, Frame DEF IInv

-----------------------------------------------------------------------------
(* RecvSomething: reading *)

\* PrepareCapacity makes room for all that is there, or all that there may be.
LEMMA PrepareCapacityInv ==
  ASSUME IInv, PrepareCapacity
  PROVE  IInv'
<1>1. /\ pc = "idle" /\ pending /\ ~withdrawn /\ offset = Len(buffer) /\ offset <= capacity
      /\ capacity <= MaxBuffer
      /\ offset \in Nat /\ capacity \in Nat /\ Len(input) \in Nat
  BY DEF PrepareCapacity, IInv, TypeOK, Kept, Withdrawn
<1>2. /\ pending' = FALSE /\ pc' = "read" /\ at' = offset
      /\ capacity' = IF offset + Len(input) >= capacity /\ capacity < MaxBuffer
                     THEN Lesser(offset + Len(input) + Growth, MaxBuffer) ELSE capacity
      /\ UNCHANGED segmented /\ UNCHANGED sent /\ UNCHANGED wire /\ UNCHANGED input
      /\ UNCHANGED withdrawn /\ UNCHANGED buffer /\ UNCHANGED offset /\ UNCHANGED headerGot /\ UNCHANGED size
      /\ UNCHANGED cursor /\ UNCHANGED length /\ UNCHANGED executed
  BY DEF PrepareCapacity, CapacityNeeded
<1>3. /\ capacity' \in Nat /\ capacity' <= MaxBuffer /\ offset <= capacity'
      /\ capacity' = MaxBuffer \/ offset + Len(input) <= capacity'
  BY <1>1, <1>2, Lengths DEF Lesser
<1>4. TypeOK'
  BY <1>1, <1>2, <1>3 DEF IInv, TypeOK
<1>5. Kept' /\ Withdrawn' /\ Reading'
  BY <1>1, <1>2, <1>3 DEF Kept, Withdrawn, Reading
<1>6. Ahead'
  BY <1>1, <1>2 DEF IInv, Ahead
<1> QED
  BY <1>2, <1>4, <1>5, <1>6, Frame DEF IInv

\* ReadMassage leaves something behind only when the memo is as large as it may be.
LEMMA ReadMassageInv ==
  ASSUME IInv, ReadMassage
  PROVE  IInv'
<1> DEFINE n == Lesser(capacity - offset, Len(input))
           front == SubSeq(input, 1, n)
           rest  == SubSeq(input, n + 1, Len(input))
<1>1. /\ pc = "read" /\ at = Len(buffer) /\ offset <= at /\ offset <= capacity
      /\ capacity <= MaxBuffer /\ (~withdrawn => offset = at)
      /\ buffer \in Seq(Cell) /\ input \in Seq(Cell) /\ wire \in Seq(Cell)
      /\ offset \in Nat /\ capacity \in Nat /\ Len(input) \in Nat /\ Len(buffer) \in Nat
  <2>1. pc = "read"
    BY DEF ReadMassage
  <2>2. /\ buffer \in Seq(Cell) /\ input \in Seq(Cell) /\ wire \in Seq(Cell)
        /\ offset \in Nat /\ capacity \in Nat
    BY DEF IInv, TypeOK
  <2>3. /\ at = Len(buffer) /\ offset <= at /\ offset <= capacity
        /\ capacity <= MaxBuffer /\ (~withdrawn => offset = at)
    BY <2>1 DEF IInv, Kept
  <2> QED
    BY <2>1, <2>2, <2>3
<1>2. /\ buffer' = SubSeq(buffer, 1, at) \o front /\ offset' = offset + n /\ input' = rest
      /\ length' = offset' /\ cursor' = 0 /\ pc' = "parse"
      /\ UNCHANGED segmented /\ UNCHANGED sent /\ UNCHANGED wire /\ UNCHANGED pending
      /\ UNCHANGED withdrawn /\ UNCHANGED capacity /\ UNCHANGED headerGot /\ UNCHANGED size /\ UNCHANGED at
      /\ UNCHANGED executed
  BY DEF ReadMassage, Room
<1>3. /\ n \in 0..Len(input) /\ n <= capacity - offset
      /\ n = Len(input) \/ (n = capacity - offset /\ offset + Len(input) > capacity)
  BY <1>1 DEF Lesser
<1>4. SubSeq(buffer, 1, at) = buffer
  BY <1>1, SubSeqFull
<1> HIDE DEF n
<1>5. /\ front \in Seq(Cell) /\ Len(front) = n /\ Cells(front) \subseteq Cells(input)
      /\ Ordered(front) /\ rest \in Seq(Cell) /\ Cells(rest) \subseteq Cells(input)
      /\ Ordered(rest) /\ Before(front, rest) /\ (n = Len(input) => rest = <<>>)
  <2>1. Ordered(input)
    BY DEF IInv, InOrder
  <2> QED
    BY <1>1, <1>3, <2>1, Cut
<1>6. /\ offset' \in Nat /\ n \in Nat /\ offset' <= at + n /\ offset' <= capacity
      /\ ~withdrawn => offset' = at + n
      /\ n = Len(input) \/ offset' = capacity
  <2>1. offset' = offset + n /\ n \in Nat /\ n <= capacity - offset
    BY <1>1, <1>2, <1>3
  <2>2. offset \in Nat /\ at \in Nat /\ capacity \in Nat /\ offset <= at /\ (~withdrawn => offset = at)
    BY <1>1
  <2>3. n = Len(input) \/ n = capacity - offset
    BY <1>3
  <2> QED
    BY <2>1, <2>2, <2>3
<1> HIDE DEF front, rest
<1>7. /\ buffer' \in Seq(Cell) /\ Len(buffer') = at + n
      /\ Cells(buffer') \subseteq Cells(buffer) \cup Cells(front)
  <2>1. buffer' = buffer \o front /\ Len(buffer) = at /\ Len(front) = n
    BY <1>1, <1>2, <1>4, <1>5
  <2>2. buffer \in Seq(Cell) /\ front \in Seq(Cell)
    BY <1>1, <1>5
  <2>3. /\ buffer \o front \in Seq(Cell) /\ Len(buffer \o front) = Len(buffer) + Len(front)
        /\ Cells(buffer \o front) \subseteq Cells(buffer) \cup Cells(front)
    BY <2>2, Catenation
  <2> QED
    BY <2>1, <2>3
<1>8. TypeOK'
  <2>1. Word \in Nat /\ MaxBuffer \in Nat /\ MaxBuffer < Word
    BY Lengths
  <2>2. offset' \in 0..(Word - 1) /\ length' \in Nat
    <3>1. offset' \in Nat /\ offset' <= capacity /\ length' = offset'
      BY <1>2, <1>6
    <3>2. capacity \in Nat /\ capacity <= MaxBuffer
      BY <1>1
    <3> QED
      BY <2>1, <3>1, <3>2
  <2> QED
    BY <1>2, <1>5, <1>7, <2>2 DEF IInv, TypeOK
<1>9. Kept' /\ Withdrawn'
  <2>1. Kept'
    BY <1>1, <1>2, <1>6, <1>7 DEF Kept
  <2>2. Withdrawn'
    BY <1>1, <1>2 DEF IInv, Withdrawn
  <2> QED
    BY <2>1, <2>2
<1>10. Reading'
  <2>1. ASSUME ~withdrawn
        PROVE  input' = <<>> \/ length' = MaxBuffer
    <3>1. capacity = MaxBuffer \/ at + Len(input) <= capacity
      BY <1>1, <2>1 DEF IInv, Reading
    <3>2. n = Len(input) \/ length' = MaxBuffer
      <4>1. n = Len(input) \/ (offset' = capacity /\ at + Len(input) > capacity)
        <5>1. ~withdrawn /\ offset = at /\ capacity \in Nat /\ Len(input) \in Nat /\ at \in Nat
          BY <1>1, <2>1
        <5>2. n = Len(input) \/ offset + Len(input) > capacity
          BY <1>3
        <5> QED
          BY <1>6, <5>1, <5>2
      <4>2. length' = offset' /\ capacity \in Nat /\ Len(input) \in Nat /\ at \in Nat
        BY <1>1, <1>2
      <4> QED
        BY <3>1, <4>1, <4>2
    <3> QED
      BY <1>2, <1>5, <3>2
  <2> QED
    BY <1>2, <2>1 DEF Reading
<1>11. Traced'
  BY <1>2, <1>5, <1>7 DEF IInv, Traced
<1>12. InOrder'
  <2>1. Before(buffer, front) /\ Before(buffer, rest)
    BY <1>5 DEF IInv, InOrder, Before
  <2>2. Ordered(buffer')
    BY <1>1, <1>2, <1>4, <1>5, <2>1, OrderedCatenation DEF IInv, InOrder
  <2>3. Before(buffer', rest) /\ Before(buffer', wire) /\ Before(rest, wire)
    BY <1>5, <1>7, <2>1 DEF IInv, InOrder, Before
  <2> QED
    BY <1>2, <1>5, <2>2, <2>3 DEF IInv, InOrder
<1>13. Ahead'
  <2>1. ASSUME NEW i \in 1..Len(executed), NEW x \in Cells(buffer'), First(x)
        PROVE  executed[i] < x.pkg
    <3>1. CASE x \in Cells(buffer)
      BY <1>1, <2>1, <3>1 DEF IInv, Ahead, Cells
    <3>2. CASE x \in Cells(front)
      BY <1>5, <2>1, <3>2 DEF IInv, Ahead
    <3> QED
      BY <1>7, <3>1, <3>2
  <2>2. \A i \in 1..Len(executed) : \A x \in Cells(rest) \cup Cells(wire) : First(x) => executed[i] < x.pkg
    BY <1>5 DEF IInv, Ahead
  <2>3. \A j \in 1..Len(buffer') : buffer'[j] \in Cells(buffer')
    BY DEF Cells
  <2> QED
    BY <1>2, <2>1, <2>2, <2>3 DEF Ahead
<1> QED
  BY <1>2, <1>8, <1>9, <1>10, <1>11, <1>12, <1>13, Frame DEF IInv

-----------------------------------------------------------------------------
(* RecvSomething: its loop *)

\* Every way through the loop's body leads on, and not beyond what has been received.
LEMMA ParseMoves ==
  ASSUME IInv, ParseStep
  PROVE  /\ pc \in {"parse", "body"} /\ pc' \in Parsing
         /\ cursor \in Nat /\ length \in Nat /\ cursor' \in Nat
         /\ cursor <= cursor' /\ cursor' <= length
         /\ size' \in Int /\ headerGot' \in BOOLEAN
         /\ Dispatch \/ UNCHANGED executed
<1>1. /\ cursor \in Nat /\ length \in Nat /\ size \in Int /\ headerGot \in BOOLEAN
      /\ buffer \in Seq(Cell)
  BY DEF IInv, TypeOK
<1>2. pc \in {"parse", "body"} => cursor <= length /\ length <= Len(buffer)
  BY DEF IInv, Kept
<1>3. CASE HeaderMissing
  <2>1. pc = "parse" /\ cursor' \in cursor..length
    BY <1>1, <1>2, <1>3, SkipEnds DEF HeaderMissing, InHeader
  <2> QED
    BY <1>1, <1>3, <2>1 DEF HeaderMissing
<1>4. CASE HeaderIllegal
  <2>1. HeaderEnd \in (cursor + 1)..length
    BY <1>1, <1>4, FirstLineFound DEF HeaderIllegal, HeaderEnd
  <2> QED
    BY <1>1, <1>4, <2>1 DEF HeaderIllegal, InHeader, AfterIllegal
<1>5. CASE HeaderFound
  <2>1. HeaderEnd \in (cursor + 1)..length
    BY <1>1, <1>5, FirstLineFound DEF HeaderFound, HeaderEnd
  <2>2. pc = "parse" /\ Start \in Nat /\ SizeLine > 0
    BY <1>1, <1>5, FirstLineFound DEF HeaderFound, InHeader, LegalHeader, Start
  <2>3. SizeLine \in 1..Len(buffer)
    <3>1. SizeLine \in (Start + 1)..length
      BY <1>1, <2>2, FirstLineFound DEF SizeLine
    <3>2. Len(buffer) \in Nat
      BY <1>1
    <3> QED
      BY <1>1, <1>2, <2>2, <3>1, <3>2
  <2>4. buffer[SizeLine].num \in Int
    <3>1. buffer[SizeLine] \in Cell
      BY <1>1, <2>3, ElementOfSeq
    <3> QED
      BY <3>1 DEF Cell
  <2> QED
    BY <1>1, <1>5, <2>1, <2>2, <2>4 DEF HeaderFound
<1>6. CASE Dispatch
  <2>1. /\ pc \in {"parse", "body"} /\ size >= 0 /\ size <= length - cursor
        /\ cursor' = cursor + size /\ pc' = "parse" /\ headerGot' = FALSE /\ size' = size
    BY <1>6 DEF Dispatch, InBody, BodyComplete
  <2>2. cursor' \in Nat /\ cursor <= cursor' /\ cursor' <= length
    <3>1. cursor \in Nat /\ length \in Nat /\ size \in Int
      BY <1>1
    <3>2. size >= 0 /\ size <= length - cursor /\ cursor' = cursor + size
      BY <2>1
    <3> QED
      BY <3>1, <3>2
  <2>3. size' \in Int /\ headerGot' \in BOOLEAN
    BY <1>1, <2>1
  <2>4. pc \in {"parse", "body"} /\ pc' \in Parsing
    BY <2>1
  <2>5. cursor \in Nat /\ length \in Nat
    BY <1>1
  <2> QED
    BY <1>6, <2>2, <2>3, <2>4, <2>5
<1>7. CASE BodyTooLong
  <2>1. /\ pc \in {"parse", "body"} /\ cursor' = length /\ pc' = "drain"
        /\ headerGot' = FALSE /\ size' = size /\ executed' = executed
    BY <1>7 DEF BodyTooLong, InBody
  <2>2. cursor \in Nat /\ length \in Nat /\ cursor <= length
    BY <1>1, <1>2, <2>1
  <2>3. cursor' \in Nat /\ cursor <= cursor' /\ cursor' <= length
    <3>1. cursor' = length
      BY <2>1
    <3> QED
      BY <2>2, <3>1
  <2>4. size' \in Int /\ headerGot' \in BOOLEAN
    BY <1>1, <2>1
  <2>5. pc \in {"parse", "body"} /\ pc' \in Parsing /\ UNCHANGED executed
    BY <2>1
  <2> QED
    BY <2>2, <2>3, <2>4, <2>5
<1>8. CASE BodyIncomplete \/ ParsedAll
  <2>1. /\ pc \in {"parse", "body"} /\ cursor' = cursor /\ pc' = "drain"
        /\ headerGot' = headerGot /\ size' = size /\ executed' = executed
    BY <1>8 DEF BodyIncomplete, ParsedAll, InBody
  <2> QED
    BY <1>1, <1>2, <2>1
<1> QED
  BY <1>3, <1>4, <1>5, <1>6, <1>7, <1>8 DEF ParseStep

\* A command that is executed begins, at the cursor, with the first cell of its body.
LEMMA Commands ==
  ASSUME IInv, Dispatch
  PROVE  \/ UNCHANGED executed
         \/ /\ cursor < cursor' /\ cursor + 1 \in 1..Len(buffer)
            /\ Forward => First(buffer[cursor + 1])
            /\ executed' = Append(executed, buffer[cursor + 1].pkg)
<1> DEFINE text == SubSeq(buffer, cursor + 1, cursor + size)
<1>1. /\ pc \in {"parse", "body"} /\ size >= 0 /\ size <= length - cursor
      /\ cursor' = cursor + size
      /\ executed' = IF HoldsCommand(text) THEN Append(executed, text[1].pkg) ELSE executed
  BY DEF Dispatch, InBody, BodyComplete
<1>2. /\ cursor \in Nat /\ length \in Nat /\ size \in Int /\ buffer \in Seq(Cell)
      /\ sent \in Seq(Shape) /\ Len(buffer) \in Nat
  BY DEF IInv, TypeOK
<1>3. length <= Len(buffer)
  BY <1>1 DEF IInv, Kept
<1>4. size \in Nat /\ cursor + size \in 0..Len(buffer) /\ cursor + 1 \in Nat \ {0}
  BY <1>1, <1>2, <1>3
<1>5. /\ Len(text) = size /\ text \in Seq(Cell)
      /\ \A i \in 1..Len(text) : text[i] = buffer[i + cursor]
  <2>1. /\ text \in Seq(Cell)
        /\ Len(text) = (IF cursor + 1 <= cursor + size THEN (cursor + size) - (cursor + 1) + 1 ELSE 0)
        /\ \A i \in 1..Len(text) : text[i] = buffer[i + (cursor + 1) - 1]
    BY <1>2, <1>4, Part
  <2>2. Len(text) = size
    BY <1>2, <1>4, <2>1
  <2>3. \A i \in 1..Len(text) : i + (cursor + 1) - 1 = i + cursor
    BY <1>2, <1>4, <2>2
  <2> QED
    BY <2>1, <2>2, <2>3
<1> HIDE DEF text
<1>6. CASE ~HoldsCommand(text)
  BY <1>1, <1>6
<1>7. CASE HoldsCommand(text)
  <2> DEFINE x == text[1]
             body == Body(sent[x.pkg], x.pkg)
  <2>1. /\ text # <<>> /\ x.kind = "body" /\ Len(body) <= Len(text)
        /\ SubSeq(text, 1, Len(body)) = body
    BY <1>7 DEF HoldsCommand
  <2>2. size >= 1 /\ 1 \in 1..Len(text)
    BY <1>4, <1>5, <2>1, EmptySeq
  <2>3. cursor < cursor' /\ cursor + 1 \in 1..Len(buffer) /\ x = buffer[cursor + 1]
    <3>1. cursor < cursor' /\ cursor + 1 \in 1..Len(buffer)
      BY <1>1, <1>2, <1>4, <2>2
    <3>2. x = buffer[1 + cursor]
      BY <1>5, <2>2
    <3> QED
      BY <1>2, <3>1, <3>2
  <2>4. /\ x \in Cells(buffer) /\ x.pkg \in 1..Len(sent)
        /\ x.num \in 1..sent[x.pkg].body
    <3>1. x \in Cells(buffer)
      BY <2>3 DEF Cells
    <3>2. x.pkg \in 1..MaxPackages
      BY <1>2, <3>1, CellTypes
    <3>3. x.pkg <= Len(sent) /\ x.num \in 1..sent[x.pkg].body
      BY <2>1, <3>1 DEF IInv, Traced
    <3>4. Len(sent) \in Nat
      BY <1>2
    <3> QED
      BY <3>1, <3>2, <3>3, <3>4
  <2>5. sent[x.pkg] \in Shape /\ sent[x.pkg].body \in Nat \ {0}
    <3>1. sent[x.pkg] \in Shape
      BY <1>2, <2>4, ElementOfSeq
    <3>2. \A b \in Nat : x.num \in 1..b => b \in Nat \ {0}
      OBVIOUS
    <3>3. sent[x.pkg].body \in Nat
      BY <3>1, ShapeFields
    <3> QED
      BY <2>4, <3>1, <3>2, <3>3
  <2>6. Len(body) = sent[x.pkg].body /\ body[1].num = 1
    BY <2>5 DEF Body
  <2> HIDE DEF body
  <2>7. SubSeq(text, 1, Len(body))[1] = text[1]
    <3>1. Len(body) \in 0..Len(text) /\ 1 \in Nat \ {0} /\ 1 <= Len(body)
      <4> DEFINE b == Len(body)
                 l == Len(text)
      <4>1. b \in Nat \ {0}
        BY <2>5, <2>6
      <4>2. l \in Nat /\ b <= l
        BY <1>4, <1>5, <2>1
      <4> HIDE DEF b, l
      <4>3. b \in 0..l /\ 1 <= b
        BY <4>1, <4>2
      <4> QED
        BY <4>3 DEF b, l
    <3>2. /\ Len(SubSeq(text, 1, Len(body))) = (IF 1 <= Len(body) THEN Len(body) - 1 + 1 ELSE 0)
          /\ \A i \in 1..Len(SubSeq(text, 1, Len(body))) :
               SubSeq(text, 1, Len(body))[i] = text[i + 1 - 1]
      BY <1>5, <3>1, Part
    <3>3. 1 \in 1..Len(SubSeq(text, 1, Len(body))) /\ 1 + 1 - 1 = 1
      BY <3>1, <3>2
    <3> QED
      BY <3>2, <3>3
  <2>8. Forward => First(x)
    BY <2>1, <2>6, <2>7 DEF First
  <2> QED
    BY <1>1, <1>7, <2>3, <2>8
<1> QED
  BY <1>6, <1>7

\* Commands come from the text in the order of their first cells.
LEMMA ParseInv ==
  ASSUME IInv, ParseStep
  PROVE  IInv'
<1>1. /\ pc \in {"parse", "body"} /\ pc' \in Parsing
      /\ cursor \in Nat /\ length \in Nat /\ cursor' \in Nat
      /\ cursor <= cursor' /\ cursor' <= length
      /\ size' \in Int /\ headerGot' \in BOOLEAN
  BY ParseMoves
<1>2. /\ UNCHANGED segmented /\ UNCHANGED sent /\ UNCHANGED wire /\ UNCHANGED input
      /\ UNCHANGED pending /\ UNCHANGED withdrawn /\ UNCHANGED buffer /\ UNCHANGED offset
      /\ UNCHANGED capacity /\ UNCHANGED at /\ UNCHANGED length
  BY DEF ParseStep
<1>3. \/ UNCHANGED executed
      \/ /\ cursor < cursor' /\ cursor + 1 \in 1..Len(buffer)
         /\ Forward => First(buffer[cursor + 1])
         /\ executed' = Append(executed, buffer[cursor + 1].pkg)
  BY ParseMoves, Commands
<1>4. /\ executed \in Seq(1..MaxPackages) /\ Len(executed) \in Nat
      /\ buffer \in Seq(Cell) /\ Len(buffer) \in Nat
  <2>1. executed \in Seq(1..MaxPackages) /\ buffer \in Seq(Cell)
    BY DEF IInv, TypeOK
  <2> QED
    BY <2>1, LenProperties
<1>5. Kept' /\ Reading'
  BY <1>1, <1>2 DEF IInv, Kept, Reading
<1>6. Withdrawn'
  BY <1>1, <1>2 DEF IInv, Withdrawn
<1>7. InOrder'
  BY <1>2, Frame
<1>8. \A i \in 1..Len(executed) : \A j \in 1..Len(buffer) :
        cursor < j /\ First(buffer[j]) => executed[i] < buffer[j].pkg
  BY <1>1 DEF IInv, Ahead
<1>9. CASE UNCHANGED executed
  <2>1. TypeOK'
    BY <1>1, <1>2, <1>9 DEF IInv, TypeOK
  <2>2. Ahead'
    <3>1. \A j \in 1..Len(buffer) : cursor' < j => cursor < j
      BY <1>1, <1>4
    <3>2. pc' \notin {"idle", "read"}
      BY <1>1
    <3> QED
      BY <1>2, <1>8, <1>9, <3>1, <3>2 DEF IInv, Ahead
  <2> QED
    BY <1>2, <1>5, <1>6, <1>7, <1>9, <2>1, <2>2, Frame DEF IInv
<1>10. CASE /\ cursor < cursor' /\ cursor + 1 \in 1..Len(buffer)
            /\ Forward => First(buffer[cursor + 1])
            /\ executed' = Append(executed, buffer[cursor + 1].pkg)
  <2> DEFINE x == buffer[cursor + 1]
             n == Len(executed) + 1
  <2>1. x \in Cells(buffer) /\ x.pkg \in 1..MaxPackages /\ x.pkg <= Len(sent)
    <3>1. x \in Cells(buffer)
      BY <1>10 DEF Cells
    <3> QED
      BY <1>4, <3>1, CellTypes DEF IInv, Traced
  <2>2. /\ executed' \in Seq(1..MaxPackages) /\ Len(executed') = n
        /\ executed'[n] = x.pkg /\ \A i \in 1..Len(executed) : executed'[i] = executed[i]
    BY <1>4, <1>10, <2>1
  <2>3. (\A y : First(y) => First(x)) /\ (Forward => First(x)) /\ cursor < cursor + 1
    BY <1>1, <1>10 DEF First
  <2> HIDE DEF x
  <2>4. \A i \in 1..Len(executed') : i \in 1..Len(executed) \/ i = n
    BY <1>4, <2>2
  <2>5. TypeOK'
    BY <1>1, <1>2, <2>2 DEF IInv, TypeOK
  <2>6. Traced'
    <3>1. \A i \in 1..Len(executed') : executed'[i] <= Len(sent)
      BY <2>1, <2>2, <2>4 DEF IInv, Traced
    <3> QED
      BY <1>2, <3>1 DEF IInv, Traced
  <2>7. InSequence'
    <3>1. ASSUME Forward, NEW i \in 1..Len(executed'), NEW j \in 1..Len(executed'), i < j
          PROVE  executed'[i] < executed'[j]
      <4>1. CASE j = n
        <5>1. i \in 1..Len(executed)
          BY <1>4, <2>4, <3>1, <4>1
        <5>2. executed[i] < x.pkg
          BY <1>8, <1>10, <2>3, <3>1, <5>1 DEF x
        <5> QED
          BY <2>2, <4>1, <5>1, <5>2
      <4>2. CASE j # n
        <5>1. i \in 1..Len(executed) /\ j \in 1..Len(executed)
          BY <1>4, <2>4, <3>1, <4>2
        <5> QED
          BY <2>2, <3>1, <5>1 DEF IInv, InSequence, ServedInOrder
      <4> QED
        BY <4>1, <4>2
    <3> QED
      BY <3>1 DEF InSequence, ServedInOrder
  <2>8. Ahead'
    <3>1. ASSUME NEW i \in 1..Len(executed'), NEW y \in Cells(input) \cup Cells(wire), First(y)
          PROVE  executed'[i] < y.pkg
      <4>1. CASE i \in 1..Len(executed)
        BY <2>2, <3>1, <4>1 DEF IInv, Ahead
      <4>2. CASE i = n
        BY <2>1, <2>2, <2>3, <3>1, <4>2 DEF IInv, InOrder, Before
      <4> QED
        BY <2>4, <4>1, <4>2
    <3>2. ASSUME NEW i \in 1..Len(executed'), NEW j \in 1..Len(buffer), cursor' < j, First(buffer[j])
          PROVE  executed'[i] < buffer[j].pkg
      <4>1. cursor < j /\ cursor + 1 < j
        BY <1>1, <1>4, <1>10, <3>2
      <4>2. CASE i \in 1..Len(executed)
        BY <1>8, <2>2, <3>2, <4>1, <4>2
      <4>3. CASE i = n
        <5>1. x.pkg < buffer[j].pkg
          BY <1>10, <2>3, <3>2, <4>1 DEF IInv, InOrder, Ordered, x
        <5> QED
          BY <2>2, <4>3, <5>1
      <4> QED
        BY <2>4, <4>2, <4>3
    <3>3. pc' \notin {"idle", "read"}
      BY <1>1
    <3> QED
      BY <1>2, <3>1, <3>2, <3>3 DEF Ahead
  <2> QED
    BY <1>5, <1>6, <1>7, <2>5, <2>6, <2>7, <2>8 DEF IInv
<1> QED
  BY <1>3, <1>9, <1>10

-----------------------------------------------------------------------------
(* Drain and WithdrawDiplomat *)

LEMMA Remainder ==
  ASSUME NEW a \in Int, NEW w \in Nat \ {0}
  PROVE  a % w \in 0..(w - 1) /\ (0 <= a /\ a < w => a % w = a)
  OBVIOUS

\* Everything goes.
LEMMA DrainAllInv ==
  ASSUME IInv, DrainAll, UNCHANGED <<netVars, capacity, headVars, at, cursor, length, executed>>
  PROVE  IInv'
<1>1. /\ pc = "drain" /\ pc' = "idle" /\ offset' = 0 /\ buffer' = <<>>
      /\ UNCHANGED segmented /\ UNCHANGED sent /\ UNCHANGED wire /\ UNCHANGED input
      /\ UNCHANGED pending /\ UNCHANGED withdrawn /\ UNCHANGED capacity /\ UNCHANGED headerGot
      /\ UNCHANGED size /\ UNCHANGED at /\ UNCHANGED cursor /\ UNCHANGED length
      /\ UNCHANGED executed
  BY DEF DrainAll
<1>2. buffer' \in Seq(Cell) /\ Len(buffer') = 0 /\ Cells(buffer') = {} /\ Ordered(buffer')
  BY <1>1 DEF Cells, Ordered
<1>3. TypeOK'
  <2>1. offset' \in 0..(Word - 1)
    BY <1>1, Lengths
  <2> QED
    BY <1>1, <1>2, <2>1 DEF IInv, TypeOK
<1>4. Kept'
  <2>1. capacity \in Nat /\ capacity <= MaxBuffer
    BY DEF IInv, TypeOK, Kept
  <2> QED
    BY <1>1, <1>2, <2>1 DEF Kept
<1>5. Withdrawn'
  BY <1>1 DEF IInv, Withdrawn
<1>6. Reading'
  <2>1. ~withdrawn => Len(input) < LowMark \/ length = MaxBuffer
    BY <1>1, Lengths DEF IInv, Reading
  <2> QED
    BY <1>1, <2>1 DEF Reading
<1>7. Traced' /\ InOrder'
  <2>1. Traced'
    BY <1>1, <1>2 DEF IInv, Traced
  <2>2. InOrder'
    BY <1>1, <1>2 DEF IInv, InOrder, Before
  <2> QED
    BY <2>1, <2>2
<1>8. Ahead'
  BY <1>1, <1>2 DEF IInv, Ahead
<1> QED
  BY <1>1, <1>3, <1>4, <1>5, <1>6, <1>7, <1>8, Frame DEF IInv

\* What memcpy may have moved are cells from behind m, and in their order if it copies
\* from the front.
LEMMA MovedCells ==
  ASSUME buffer \in Seq(Cell), NEW m \in Nat \ {0}, NEW n \in Nat, m + n <= Len(buffer),
         NEW moved \in Moved(m, n)
  PROVE  /\ moved \in Seq(Cell) /\ Len(moved) = n
         /\ \A i \in 1..n : \E j \in (m + 1)..Len(buffer) : moved[i] = buffer[j]
         /\ Forward => \A i \in 1..n : moved[i] = buffer[i + m]
<1>1. Len(buffer) \in Nat /\ m \in Nat /\ 1 <= m
  BY LenProperties
<1>2. \A i \in 1..Len(buffer) : buffer[i] \in Cell
  BY ElementOfSeq
<1>3. CASE moved = SubSeq(buffer, m + 1, m + n)
  <2> DEFINE p == m + 1
             l == m + n
  <2>1. p \in Nat \ {0} /\ l \in 0..Len(buffer)
    BY <1>1
  <2>2. moved = SubSeq(buffer, p, l)
    BY <1>3
  <2>3. (IF p <= l THEN l - p + 1 ELSE 0) = n /\ \A i \in 1..n : i + p - 1 = i + m
    BY <1>1
  <2> HIDE DEF p, l
  <2>4. /\ SubSeq(buffer, p, l) \in Seq(Cell)
        /\ Len(SubSeq(buffer, p, l)) = n
        /\ \A i \in 1..n : SubSeq(buffer, p, l)[i] = buffer[i + m]
    <3>1. /\ SubSeq(buffer, p, l) \in Seq(Cell)
          /\ Len(SubSeq(buffer, p, l)) = (IF p <= l THEN l - p + 1 ELSE 0)
          /\ \A i \in 1..Len(SubSeq(buffer, p, l)) : SubSeq(buffer, p, l)[i] = buffer[i + p - 1]
      BY <2>1, Part
    <3>2. Len(SubSeq(buffer, p, l)) = n
      BY <2>3, <3>1
    <3> QED
      BY <2>3, <3>1, <3>2
  <2>5. \A i \in 1..n : i + m \in (m + 1)..Len(buffer)
    BY <1>1
  <2> QED
    BY <2>2, <2>4, <2>5
<1>4. CASE /\ ~Forward /\ ~(n <= m)
           /\ moved = [i \in 1..n |-> buffer[m + n - ((m + n - i) % m)]]
  <2> DEFINE from(i) == m + n - ((m + n - i) % m)
  <2>1. ASSUME NEW i \in 1..n
        PROVE  from(i) \in (m + 1)..Len(buffer)
    <3>1. m + n - i \in Int /\ m \in Nat \ {0}
      BY <1>1
    <3>2. (m + n - i) % m \in 0..(m - 1)
      BY <3>1, Remainder
    <3> QED
      BY <1>1, <1>4, <3>2
  <2>2. moved = [i \in 1..n |-> buffer[from(i)]]
    BY <1>4
  <2> HIDE DEF from
  <2>3. \A i \in 1..n : moved[i] = buffer[from(i)] /\ moved[i] \in Cell
    BY <1>1, <1>2, <2>1, <2>2
  <2>4. moved \in Seq(Cell) /\ Len(moved) = n
    BY <2>2, <2>3
  <2> QED
    BY <1>4, <2>1, <2>3, <2>4
<1> QED
  BY <1>3, <1>4 DEF Moved

\* What follows the cursor is kept, and the offset counts it; if WithdrawDiplomat has set
\* the offset back, it may wrap instead.
LEMMA SubtractInv ==
  ASSUME IInv, Subtract, UNCHANGED <<netVars, capacity, headVars, at, cursor, length, executed>>
  PROVE  IInv'
<1>1. /\ pc = "subtract"
      /\ \E o \in {offset, length} : offset' = (o - cursor) % Word
      /\ IF cursor + offset' <= Len(buffer)
         THEN buffer' \in Moved(cursor, offset') /\ pc' = "idle"
         ELSE UNCHANGED buffer /\ pc' = "crashed"
      /\ UNCHANGED segmented /\ UNCHANGED sent /\ UNCHANGED wire /\ UNCHANGED input
      /\ UNCHANGED pending /\ UNCHANGED withdrawn /\ UNCHANGED capacity /\ UNCHANGED headerGot
      /\ UNCHANGED size /\ UNCHANGED at /\ UNCHANGED cursor /\ UNCHANGED length
      /\ UNCHANGED executed
  BY DEF Subtract
<1>2. /\ buffer \in Seq(Cell) /\ Len(buffer) \in Nat /\ cursor \in Nat /\ length \in Nat
      /\ offset \in Nat /\ offset < Word /\ capacity \in Nat
  <2>1. /\ buffer \in Seq(Cell) /\ cursor \in Nat /\ length \in Nat
        /\ offset \in 0..(Word - 1) /\ capacity \in Nat
    BY DEF IInv, TypeOK
  <2> QED
    BY <2>1, Lengths, LenProperties
<1>3. /\ capacity <= MaxBuffer /\ offset <= capacity
      /\ cursor \in 1..length /\ length <= Len(buffer)
      /\ ~withdrawn => offset = length /\ length = Len(buffer)
  BY <1>1 DEF IInv, Kept
<1>4. /\ offset' \in 0..(Word - 1) /\ offset' \in Nat
      /\ ~withdrawn => offset' = Len(buffer) - cursor
  <2>1. PICK o \in {offset, length} : offset' = (o - cursor) % Word
    BY <1>1
  <2>2. o - cursor \in Int /\ Word \in Nat \ {0}
    BY <1>2, Lengths
  <2>3. ~withdrawn => o = Len(buffer) /\ 0 <= o - cursor /\ o - cursor < Word
    BY <1>2, <1>3, Lengths
  <2>4. offset' \in 0..(Word - 1)
    BY <2>1, <2>2, Remainder
  <2>5. ~withdrawn => offset' = Len(buffer) - cursor
    BY <2>1, <2>2, <2>3, Remainder
  <2> QED
    BY <2>2, <2>4, <2>5
<1>5. withdrawn => Racing
  BY <1>1 DEF IInv, Withdrawn
<1>6. ~withdrawn => Len(input) < LowMark \/ length = MaxBuffer
  BY <1>1, Lengths DEF IInv, Reading
<1>7. CASE cursor + offset' <= Len(buffer)
  <2>1. buffer' \in Moved(cursor, offset') /\ pc' = "idle"
    BY <1>1, <1>7
  <2>2. /\ buffer' \in Seq(Cell) /\ Len(buffer') = offset'
        /\ \A i \in 1..offset' : \E j \in (cursor + 1)..Len(buffer) : buffer'[i] = buffer[j]
        /\ Forward => \A i \in 1..offset' : buffer'[i] = buffer[i + cursor]
    <3>1. cursor \in Nat \ {0}
      BY <1>2, <1>3
    <3> DEFINE n == offset'
    <3>2. n \in Nat /\ cursor + n <= Len(buffer) /\ buffer' \in Moved(cursor, n)
      BY <1>4, <1>7, <2>1
    <3> HIDE DEF n
    <3>3. /\ buffer' \in Seq(Cell) /\ Len(buffer') = n
          /\ \A i \in 1..n : \E j \in (cursor + 1)..Len(buffer) : buffer'[i] = buffer[j]
          /\ Forward => \A i \in 1..n : buffer'[i] = buffer[i + cursor]
      BY <1>2, <3>1, <3>2, MovedCells
    <3> QED
      BY <3>2, <3>3 DEF n
  <2>3. Cells(buffer') \subseteq Cells(buffer)
    <3>1. \A j \in (cursor + 1)..Len(buffer) : j \in 1..Len(buffer)
      BY <1>2
    <3> QED
      BY <2>2, <3>1 DEF Cells
  <2>4. Ordered(buffer')
    <3> SUFFICES ASSUME NEW i \in 1..Len(buffer'), NEW j \in 1..Len(buffer'), i < j,
                        First(buffer'[i]), First(buffer'[j])
                 PROVE  buffer'[i].pkg < buffer'[j].pkg
      BY DEF Ordered
    <3>1. buffer'[i] = buffer[i + cursor] /\ buffer'[j] = buffer[j + cursor]
      BY <2>2 DEF First
    <3>2. /\ i + cursor \in 1..Len(buffer) /\ j + cursor \in 1..Len(buffer)
          /\ i + cursor < j + cursor
      BY <1>2, <1>4, <1>7, <2>2
    <3> QED
      BY <3>1, <3>2 DEF IInv, InOrder, Ordered
  <2>5. TypeOK'
    BY <1>1, <1>4, <2>1, <2>2 DEF IInv, TypeOK
  <2>6. Kept'
    <3>1. ~withdrawn => offset' <= capacity /\ offset' = Len(buffer')
      BY <1>2, <1>3, <1>4, <2>2
    <3> QED
      BY <1>1, <1>3, <2>1, <3>1 DEF Kept
  <2>7. Withdrawn'
    BY <1>1, <1>5, <2>1 DEF IInv, Withdrawn
  <2>8. Reading'
    BY <1>1, <1>6, <2>1 DEF Reading
  <2>9. Traced'
    BY <1>1, <2>3 DEF IInv, Traced
  <2>10. InOrder'
    BY <1>1, <2>3, <2>4 DEF IInv, InOrder, Before
  <2>11. Ahead'
    <3>1. ASSUME NEW i \in 1..Len(executed), NEW j \in 1..Len(buffer'), First(buffer'[j])
          PROVE  executed[i] < buffer'[j].pkg
      <4>1. PICK h \in (cursor + 1)..Len(buffer) : buffer'[j] = buffer[h]
        BY <2>2
      <4>2. h \in 1..Len(buffer) /\ cursor < h
        BY <1>2
      <4> QED
        BY <3>1, <4>1, <4>2 DEF IInv, Ahead
    <3> QED
      BY <1>1, <2>1, <3>1 DEF IInv, Ahead
  <2> QED
    BY <1>1, <2>5, <2>6, <2>7, <2>8, <2>9, <2>10, <2>11, Frame DEF IInv
<1>8. CASE ~(cursor + offset' <= Len(buffer))
  <2>1. UNCHANGED buffer /\ pc' = "crashed"
    BY <1>1, <1>8
  <2>2. withdrawn
    BY <1>2, <1>4, <1>8
  <2>3. TypeOK'
    BY <1>1, <1>4, <2>1 DEF IInv, TypeOK
  <2>4. Kept' /\ Reading'
    BY <1>1, <1>3, <2>1, <2>2 DEF Kept, Reading
  <2>5. Withdrawn'
    BY <1>1, <1>5, <2>1, <2>2 DEF IInv, Withdrawn
  <2>6. Ahead'
    BY <1>1, <2>1 DEF IInv, Ahead
  <2> QED
    BY <1>1, <2>1, <2>3, <2>4, <2>5, <2>6, Frame DEF IInv
<1> QED
  BY <1>7, <1>8

LEMMA DrainInv ==
  ASSUME IInv, DrainStep
  PROVE  IInv'
<1>1. CASE DrainAll
  BY <1>1, DrainAllInv DEF DrainStep
<1>2. CASE Subtract
  BY <1>2, SubtractInv DEF DrainStep
<1>3. CASE DrainSome
  <2>1. /\ pc = "drain" /\ pc' = "subtract" /\ cursor \in 1..offset
        /\ UNCHANGED segmented /\ UNCHANGED sent /\ UNCHANGED wire /\ UNCHANGED input
        /\ UNCHANGED pending /\ UNCHANGED withdrawn /\ UNCHANGED buffer /\ UNCHANGED offset
        /\ UNCHANGED capacity /\ UNCHANGED headerGot /\ UNCHANGED size /\ UNCHANGED at
        /\ UNCHANGED cursor /\ UNCHANGED length /\ UNCHANGED executed
    BY <1>3 DEF DrainStep, DrainSome
  <2>2. TypeOK'
    BY <2>1 DEF IInv, TypeOK
  <2>3. Kept'
    <3>1. offset \in Nat /\ cursor \in Nat /\ length \in Nat
      BY DEF IInv, TypeOK
    <3>2. offset = length
      BY <2>1, <3>1 DEF IInv, Kept
    <3> QED
      BY <2>1, <3>1, <3>2 DEF IInv, Kept
  <2>4. Withdrawn' /\ Reading'
    BY <2>1 DEF IInv, Withdrawn, Reading
  <2>5. Ahead'
    BY <2>1 DEF IInv, Ahead
  <2> QED
    BY <2>1, <2>2, <2>3, <2>4, <2>5, Frame DEF IInv
<1> QED
  BY <1>1, <1>2, <1>3 DEF DrainStep

LEMMA WithdrawInv ==
  ASSUME IInv, WithdrawDiplomat
  PROVE  IInv'
<1>1. /\ pc = "idle" \/ Racing
      /\ withdrawn' = TRUE /\ pending' = FALSE /\ offset' = 0
      /\ UNCHANGED segmented /\ UNCHANGED sent /\ UNCHANGED wire /\ UNCHANGED input
      /\ UNCHANGED buffer /\ UNCHANGED capacity /\ UNCHANGED headerGot /\ UNCHANGED size
      /\ UNCHANGED pc /\ UNCHANGED at /\ UNCHANGED cursor /\ UNCHANGED length
      /\ UNCHANGED executed
  BY DEF WithdrawDiplomat
<1>2. TypeOK'
  <2>1. offset' \in 0..(Word - 1)
    BY <1>1, Lengths
  <2> QED
    BY <1>1, <2>1 DEF IInv, TypeOK
<1>3. Kept'
  <2>1. /\ capacity \in Nat /\ capacity <= MaxBuffer
        /\ pc = "read" => at = Len(buffer) /\ at \in Nat
        /\ pc \in Parsing => cursor <= length /\ length <= Len(buffer)
        /\ pc = "subtract" => cursor \in 1..length /\ length <= Len(buffer)
    BY DEF IInv, TypeOK, Kept
  <2> QED
    BY <1>1, <2>1 DEF Kept
<1>4. Withdrawn' /\ Reading'
  BY <1>1 DEF IInv, Withdrawn, Reading
<1>5. Ahead'
  BY <1>1 DEF IInv, Ahead
<1> QED
  BY <1>1, <1>2, <1>3, <1>4, <1>5, Frame DEF IInv

-----------------------------------------------------------------------------
(* The invariant *)

LEMMA InitIInv ==
  ASSUME Init
  PROVE  IInv
<1>1. /\ sent = <<>> /\ wire = <<>> /\ input = <<>> /\ buffer = <<>> /\ executed = <<>>
      /\ pending = FALSE /\ withdrawn = FALSE /\ headerGot = FALSE /\ segmented \in BOOLEAN
      /\ offset = 0 /\ capacity = InitialBuffer /\ size = 0 /\ pc = "idle"
      /\ at = 0 /\ cursor = 0 /\ length = 0
  BY DEF Init
<1>2. /\ InitialBuffer \in Nat /\ InitialBuffer <= MaxBuffer /\ 0 \in 0..(Word - 1)
      /\ 0 < LowMark /\ MaxPackages \in Nat
  BY Lengths
<1>3. TypeOK
  <2>1. /\ sent \in Seq(Shape) /\ Len(sent) <= MaxPackages
        /\ wire \in Seq(Cell) /\ input \in Seq(Cell) /\ buffer \in Seq(Cell)
        /\ executed \in Seq(1..MaxPackages)
    BY <1>1, <1>2
  <2>2. /\ offset \in 0..(Word - 1) /\ capacity \in Nat /\ size \in Int
        /\ at \in Nat /\ cursor \in Nat /\ length \in Nat
    BY <1>1, <1>2
  <2>3. {segmented, pending, withdrawn, headerGot} \subseteq BOOLEAN
    BY <1>1
  <2> QED
    BY <1>1, <2>1, <2>2, <2>3 DEF TypeOK
<1>4. Kept /\ Withdrawn /\ Reading
  BY <1>1, <1>2 DEF Kept, Withdrawn, Reading
<1>5. Traced /\ InOrder /\ InSequence /\ Ahead
  BY <1>1 DEF Traced, InOrder, Ordered, Before, InSequence, ServedInOrder, Ahead, Cells
<1> QED
  BY <1>3, <1>4, <1>5 DEF IInv

LEMMA StepIInv ==
  ASSUME IInv, [Next]_vars
  PROVE  IInv'
<1>1. ASSUME NEW s \in Shape, Send(s)
      PROVE  IInv'
  BY <1>1, SendInv
<1>2. ASSUME NEW n \in 1..Len(wire), Arrive(n)
      PROVE  IInv'
  BY <1>2, ArriveInv
<1>3. CASE PrepareCapacity
  BY <1>3, PrepareCapacityInv
<1>4. CASE ReadMassage
  BY <1>4, ReadMassageInv
<1>5. CASE ParseStep
  BY <1>5, ParseInv
<1>6. CASE DrainStep
  BY <1>6, DrainInv
<1>7. CASE WithdrawDiplomat
  BY <1>7, WithdrawInv
<1>8. CASE UNCHANGED vars
  <2>1. /\ UNCHANGED segmented /\ UNCHANGED sent /\ UNCHANGED wire /\ UNCHANGED input
        /\ UNCHANGED pending /\ UNCHANGED withdrawn /\ UNCHANGED buffer /\ UNCHANGED offset
        /\ UNCHANGED capacity /\ UNCHANGED headerGot /\ UNCHANGED size /\ UNCHANGED pc
        /\ UNCHANGED at /\ UNCHANGED cursor /\ UNCHANGED length /\ UNCHANGED executed
    BY <1>8 DEF vars
  <2>2. TypeOK'
    BY <2>1 DEF IInv, TypeOK
  <2>3. Kept' /\ Withdrawn' /\ Reading'
    BY <2>1 DEF IInv, Kept, Withdrawn, Reading
  <2>4. Ahead'
    BY <2>1 DEF IInv, Ahead
  <2> QED
    BY <2>1, <2>2, <2>3, <2>4, Frame DEF IInv
<1> QED
  BY <1>1, <1>2, <1>3, <1>4, <1>5, <1>6, <1>7, <1>8 DEF Next, RecvSomething, Closed

LEMMA InvariantHolds == Spec => []IInv
<1>1. Init => IInv
  BY InitIInv
<1>2. IInv /\ [Next]_vars => IInv'
  BY StepIInv
<1> QED
  BY <1>1, <1>2, PTL DEF Spec

-----------------------------------------------------------------------------
(* The properties *)

\* The memo's text, its offset and its capacity have their types; the offset never
\* leaves the range of size_t, also when WithdrawDiplomat races with RecvSomething.
THEOREM TypeCorrect == Spec => []TypeOK
<1>1. IInv => TypeOK
  BY DEF IInv
<1> QED
  BY <1>1, InvariantHolds, PTL

\* As long as WithdrawDiplomat runs on the loop of its connection, no package and no
\* segmentation takes the offset, the cursor or the terminating '\0' out of the buffer.
THEOREM StaysInBounds ==
  ASSUME ~Racing
  PROVE  Spec => []InBounds
<1>1. IInv => InBounds
  <2> SUFFICES ASSUME IInv
               PROVE  InBounds
    OBVIOUS
  <2>1. withdrawn => pc = "idle" /\ offset = 0
    BY DEF IInv, Withdrawn
  <2>2. /\ buffer \in Seq(Cell) /\ input \in Seq(Cell) /\ offset \in 0..(Word - 1)
        /\ capacity \in Nat /\ pc \in Parsing \cup {"idle", "read", "subtract", "crashed"}
    BY DEF IInv, TypeOK
  <2>3. capacity <= MaxBuffer /\ offset <= capacity
    BY <2>1, <2>2 DEF IInv, Kept
  <2>4. CASE withdrawn
    BY <2>1, <2>3, <2>4 DEF InBounds
  <2>5. CASE ~withdrawn
    <3>1. /\ pc = "idle" => offset = Len(buffer)
          /\ pc = "read" => at = offset /\ offset = Len(buffer)
          /\ pc \in Parsing => cursor <= length /\ length = offset /\ offset = Len(buffer)
          /\ pc = "subtract" => cursor <= offset /\ offset = Len(buffer)
          /\ pc # "crashed"
      BY <2>5 DEF IInv, Kept, Withdrawn
    <3> QED
      BY <2>2, <2>3, <2>5, <3>1 DEF InBounds
  <2> QED
    BY <2>4, <2>5
<1> QED
  BY <1>1, InvariantHolds, PTL

\* Commands are executed in the order they were sent and none twice, whatever the
\* packages and segments are, and also when WithdrawDiplomat races with RecvSomething,
\* where memcpy copies overlapping areas from the front.
THEOREM CommandsInOrder ==
  ASSUME Forward
  PROVE  Spec => []ServedInOrder
<1>1. IInv => ServedInOrder
  BY DEF IInv, InSequence
<1> QED
  BY <1>1, InvariantHolds, PTL

\* Between two calls of ReadCB, at least the low watermark of unread input means that the
\* memo was full.
THEOREM InputIsRead == Spec => []ArrivedIsRead
<1>1. IInv => ArrivedIsRead
  <2> SUFFICES ASSUME IInv, Idle, Len(input) >= LowMark
               PROVE  length = MaxBuffer
    BY DEF ArrivedIsRead
  <2>1. input \in Seq(Cell) /\ Len(input) \in Nat /\ LowMark \in Nat
    BY Lengths DEF IInv, TypeOK
  <2>2. Len(input) < LowMark \/ length = MaxBuffer
    BY DEF IInv, Reading, Idle
  <2> QED
    BY <2>1, <2>2
<1> QED
  BY <1>1, InvariantHolds, PTL
=============================================================================
