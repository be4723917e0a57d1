----------------------- MODULE DefaultProtocol_whole -----------------------
(***************************************************************************)
(* Proof that whole packages are served: what DefaultProtocol's memo and   *)
(* buffers hold when segments end between packages and every package is    *)
(* well-formed but for the number of sizes in its header.                  *)
(***************************************************************************)
EXTENDS DefaultProtocol_proofs

Calm == ~segmented /\ ~withdrawn /\ \A p \in 1..Len(sent) : Sound(sent[p])

\* The cells of s behind place a are those of package p, of the shape that sh tells.
Copy(sh, s, a, p) ==
  LET k == Package(sh[p], p) IN
    a + Len(k) <= Len(s) /\ \A m \in 1..Len(k) : s[a + m] = k[m]

\* Behind place c, s has complete packages and nothing else.
Whole(sh, s, c) ==
  \A i \in (c + 1)..Len(s) :
    \E a \in c..(i - 1) :
      Copy(sh, s, a, s[i].pkg) /\ i <= a + Len(Package(sh[s[i].pkg], s[i].pkg))

\* From place c to place b, s has parts of bodies only.
Scraps(s, c, b) == \A i \in (c + 1)..b : s[i].kind = "body"

\* The memo has the body of package p at the cursor.
BodyAt(p) ==
  /\ size = sent[p].body /\ cursor + size <= Len(buffer)
  /\ \A i \in 1..size : buffer[cursor + i] = Body(sent[p], p)[i]

StartIn(s, c, p) == \E i \in (c + 1)..Len(s) : s[i].kind = "start" /\ s[i].pkg = p

\* Package p has been executed, or will be.
Due(p) ==
  \/ \E i \in 1..Len(executed) : executed[i] = p
  \/ StartIn(wire, 0, p) \/ StartIn(input, 0, p)
  \/ pc = "parse" /\ StartIn(buffer, cursor, p)
  \/ pc = "body" /\ (BodyAt(p) \/ StartIn(buffer, cursor + size, p))

\* Segments are whole packages, which fit into the memo, and ReadCB is due for them.
Segments ==
  /\ Whole(sent, wire, 0) /\ Whole(sent, input, 0)
  /\ pc \in {"idle", "read"} => offset + Len(input) <= MaxBuffer
  /\ pc = "idle" => pending \/ input = <<>>
  /\ pc \in Parsing \cup {"subtract"} => input = <<>>

\* While it parses, the memo has scraps of packages with an illegal header and then whole
\* packages; all it keeps is such scraps.
Memo ==
  /\ pc # "body" => ~headerGot
  /\ pc \in {"idle", "read"} => Scraps(buffer, 0, Len(buffer))
  /\ pc = "parse" => \E b \in cursor..Len(buffer) : Scraps(buffer, cursor, b) /\ Whole(sent, buffer, b)
  /\ pc = "body" => /\ \E p \in 1..Len(sent) : BodyAt(p)
                    /\ Whole(sent, buffer, cursor + size)
  /\ pc \in {"drain", "subtract"} => Scraps(buffer, cursor, Len(buffer))

NothingLost == \A p \in 1..Len(sent) : WellFormed(sent[p]) /\ sent[p].size > 0 => Due(p)

Contents == Segments /\ Memo /\ NothingLost

WholeInv == Calm => Contents

USE DEF Calm, Parsing, netVars, bufVars, headVars, recvVars

-----------------------------------------------------------------------------
(* Lemmas about packages *)

\* What a package is made of.
LEMMA PackageParts ==
  ASSUME NEW s \in Shape, Sound(s), NEW p \in 1..MaxPackages
  PROVE  LET k == Package(s, p)
             n == Len(s.lines)
         IN /\ n \in Nat /\ n >= 3 /\ s.body \in Nat /\ s.size = s.body
            /\ k \in Seq(Cell) /\ Len(k) = n + s.body
            /\ k[1].kind = "start" /\ k[n].kind = "end" /\ k[2].kind = "size"
            /\ \A i \in 2..(n - 1) : k[i].kind = "size"
            /\ \A i \in (n + 1)..Len(k) : k[i].kind = "body"
            /\ \A i \in 1..n : k[i].num = s.size
            /\ \A i \in 1..s.body : k[n + i] = Body(s, p)[i]
            /\ \A i \in 1..Len(k) : k[i].pkg = p
            /\ n # 3 => ~WellFormed(s)
<1>1. /\ s.lines \in Seq({"start", "size", "end"}) /\ Len(s.lines) \in Nat
      /\ s.size \in Int /\ s.body \in Nat
  BY ShapeFields
<1> DEFINE h == [i \in 1..Len(s.lines) |-> [kind |-> s.lines[i], num |-> s.size, pkg |-> p]]
           b == Body(s, p)
           k == Package(s, p)
           n == Len(s.lines)
<1>2. /\ n >= 3 /\ s.lines[1] = "start" /\ s.lines[n] = "end" /\ s.size = s.body
      /\ \A i \in 2..(n - 1) : s.lines[i] = "size"
  BY DEF Sound
<1>3. h \in Seq(Cell) /\ Len(h) = n
  BY <1>1 DEF Cell
<1>4. \A i \in 1..n : h[i].kind = s.lines[i] /\ h[i].num = s.size /\ h[i].pkg = p
  OBVIOUS
<1>5. b \in Seq(Cell) /\ Len(b) = s.body
  <2>1. \A i \in 1..s.body : [kind |-> "body", num |-> i, pkg |-> p] \in Cell
    BY DEF Cell
  <2> QED
    BY <1>1, <2>1 DEF Body
<1>6. \A i \in 1..s.body : b[i].kind = "body" /\ b[i].pkg = p
  BY <1>1 DEF Body
<1>7. k = h \o b
  BY DEF Package
<1>8. n # 3 => ~WellFormed(s)
  BY DEF WellFormed
<1>9. k \in Seq(Cell)
  BY PackageCells
<1> HIDE DEF h, b, k, n
<1>10. /\ Len(k) = n + s.body /\ \A i \in 1..n : k[i] = h[i]
       /\ \A i \in 1..s.body : k[n + i] = b[i]
  <2>1. h \in Seq(Cell) /\ b \in Seq(Cell)
    BY <1>3, <1>5
  <2>2. /\ Len(h \o b) = Len(h) + Len(b) /\ \A i \in 1..Len(h) : (h \o b)[i] = h[i]
        /\ \A i \in 1..Len(b) : (h \o b)[Len(h) + i] = b[i]
    BY <2>1, Catenation
  <2> QED
    BY <1>3, <1>5, <1>7, <2>2, Zenon
<1>10a. n \in Nat /\ n >= 3 /\ s.body \in Nat /\ Len(k) = n + s.body
  BY <1>1, <1>2, <1>10 DEF n
<1>11. \A i \in (n + 1)..Len(k) : i - n \in 1..s.body /\ i = n + (i - n)
  BY <1>10a
<1>12. \A i \in (n + 1)..Len(k) : k[i].kind = "body" /\ k[i].pkg = p
  BY <1>6, <1>10, <1>11
<1>13. \A i \in 1..Len(k) : i \in 1..n \/ i \in (n + 1)..Len(k)
  BY <1>10a
<1>14. 1 \in 1..n /\ n \in 1..n /\ 2 \in 1..n /\ 2 \in 2..(n - 1) /\ \A i \in 2..(n - 1) : i \in 1..n
  BY <1>10a
<1>15. /\ n \in Nat /\ n >= 3 /\ s.body \in Nat /\ s.size = s.body
       /\ k \in Seq(Cell) /\ Len(k) = n + s.body /\ (n # 3 => ~WellFormed(s))
  BY <1>1, <1>2, <1>8, <1>9, <1>10 DEF n
<1>16. k[1].kind = "start" /\ k[n].kind = "end" /\ k[2].kind = "size"
  BY <1>2, <1>4, <1>10, <1>14
<1>17. \A i \in 2..(n - 1) : k[i].kind = "size"
  BY <1>2, <1>4, <1>10, <1>14
<1>18. \A i \in 1..n : k[i].num = s.size
  BY <1>4, <1>10
<1>19. \A i \in 1..Len(k) : k[i].pkg = p
  BY <1>4, <1>10, <1>12, <1>13
<1> QED
  BY <1>10, <1>12, <1>15, <1>16, <1>17, <1>18, <1>19 DEF k, b, n

\* A package is whole.
LEMMA PackageWhole ==
  ASSUME NEW sh, NEW k, NEW p, NEW l \in Nat,
         k = Package(sh[p], p), Len(k) = l, \A i \in 1..l : k[i].pkg = p
  PROVE  Whole(sh, k, 0)
<1>1. \A i \in 1..l : 0 \in 0..(i - 1) /\ 0 + i = i /\ i <= 0 + l
  OBVIOUS
<1>2. Copy(sh, k, 0, p)
  BY <1>1 DEF Copy
<1>3. ASSUME NEW i \in 1..l
      PROVE  \E a \in 0..(i - 1) :
               Copy(sh, k, a, k[i].pkg) /\ i <= a + Len(Package(sh[k[i].pkg], k[i].pkg))
  <2>1. k[i].pkg = p /\ Len(Package(sh[p], p)) = l
    OBVIOUS
  <2> QED
    BY <1>1, <1>2, <2>1
<1>4. (0 + 1)..Len(k) = 1..l
  OBVIOUS
<1> QED
  BY <1>3, <1>4, Zenon DEF Whole

\* Whole packages behind whole packages.
LEMMA WholeCatenation ==
  ASSUME NEW sh, NEW s \in Seq(Cell), NEW t \in Seq(Cell), NEW c \in 0..Len(s),
         Whole(sh, s, c), Whole(sh, t, 0),
         \A x \in Cells(s) \cup Cells(t) : Len(Package(sh[x.pkg], x.pkg)) \in Nat
  PROVE  Whole(sh, s \o t, c)
<1> DEFINE r == s \o t
           L(p) == Len(Package(sh[p], p))
<1>1. /\ Len(s) \in Nat /\ Len(t) \in Nat /\ Len(r) = Len(s) + Len(t)
      /\ \A i \in 1..Len(s) : r[i] = s[i]
      /\ \A i \in 1..Len(t) : r[Len(s) + i] = t[i]
  BY Catenation, LenProperties
<1> HIDE DEF r
<1> SUFFICES ASSUME NEW i \in (c + 1)..Len(r)
             PROVE  \E a \in c..(i - 1) : Copy(sh, r, a, r[i].pkg) /\ i <= a + L(r[i].pkg)
  BY DEF Whole, r
<1>2. CASE i <= Len(s)
  <2>1. i \in (c + 1)..Len(s) /\ i \in 1..Len(s) /\ r[i] = s[i]
    BY <1>1, <1>2
  <2>2. PICK a \in c..(i - 1) : Copy(sh, s, a, s[i].pkg) /\ i <= a + L(s[i].pkg)
    BY <2>1 DEF Whole
  <2>3. L(s[i].pkg) \in Nat
    BY <2>1 DEF Cells
  <2>4. Copy(sh, r, a, s[i].pkg)
    <3> DEFINE l == L(s[i].pkg)
               k == Package(sh[s[i].pkg], s[i].pkg)
    <3>1. a + l <= Len(s) /\ \A m \in 1..l : s[a + m] = k[m]
      BY <2>2 DEF Copy
    <3> HIDE DEF l
    <3>2. l \in Nat
      BY <2>3 DEF l
    <3>3. a + l <= Len(r) /\ \A m \in 1..l : a + m \in 1..Len(s)
      BY <1>1, <3>1, <3>2
    <3>4. \A m \in 1..l : r[a + m] = k[m]
      BY <1>1, <3>1, <3>3
    <3> QED
      BY <3>3, <3>4 DEF Copy, l
  <2> QED
    BY <2>1, <2>2, <2>4
<1>3. CASE Len(s) < i
  <2> DEFINE j == i - Len(s)
  <2>1. j \in 1..Len(t) /\ i = Len(s) + j
    BY <1>1, <1>3
  <2> HIDE DEF j
  <2>2. r[i] = t[j]
    BY <1>1, <2>1
  <2>3. PICK e \in 0..(j - 1) : Copy(sh, t, e, t[j].pkg) /\ j <= e + L(t[j].pkg)
    BY <2>1 DEF Whole
  <2>4. L(t[j].pkg) \in Nat
    BY <2>1 DEF Cells
  <2>5. Copy(sh, r, Len(s) + e, t[j].pkg)
    <3> DEFINE l == L(t[j].pkg)
               k == Package(sh[t[j].pkg], t[j].pkg)
    <3>1. e + l <= Len(t) /\ \A m \in 1..l : t[e + m] = k[m]
      BY <2>3 DEF Copy
    <3> HIDE DEF l
    <3>2. l \in Nat
      BY <2>4 DEF l
    <3>3. /\ Len(s) + e + l <= Len(r)
          /\ \A m \in 1..l : e + m \in 1..Len(t) /\ Len(s) + e + m = Len(s) + (e + m)
      BY <1>1, <2>1, <3>1, <3>2
    <3>4. \A m \in 1..l : r[Len(s) + e + m] = k[m]
      BY <1>1, <3>1, <3>3
    <3> QED
      BY <3>3, <3>4 DEF Copy, l
  <2>6. Len(s) + e \in c..(i - 1) /\ i <= Len(s) + e + L(t[j].pkg)
    <3> HIDE DEF L
    <3> QED
      BY SMTT(60), <1>1, <2>1, <2>3, <2>4
  <2> QED
    BY <2>2, <2>5, <2>6
<1> QED
  BY <1>1, <1>2, <1>3

\* The shapes of the packages that cells of s belong to are known, and ...
Known(sh, s) ==
  \A x \in Cells(s) :
    LET k == Package(sh[x.pkg], x.pkg) IN
      Len(k) \in Nat /\ \A m \in 1..Len(k) : k[m].pkg = x.pkg

\* ... a cut between two packages leaves whole packages on its two sides.
LEMMA WholeCut ==
  ASSUME NEW sh, NEW s \in Seq(Cell), NEW n \in 0..Len(s), Whole(sh, s, 0), Known(sh, s),
         n \in 1..(Len(s) - 1) => s[n + 1].pkg # s[n].pkg
  PROVE  Whole(sh, SubSeq(s, 1, n), 0) /\ Whole(sh, SubSeq(s, n + 1, Len(s)), 0)
<1> DEFINE f == SubSeq(s, 1, n)
           r == SubSeq(s, n + 1, Len(s))
           L(p) == Len(Package(sh[p], p))
<1>1. Len(s) \in Nat /\ n \in Nat /\ n <= Len(s) /\ n + 1 \in Nat \ {0} /\ Len(s) \in 0..Len(s)
  BY LenProperties
<1>2. Len(f) = n /\ \A i \in 1..n : f[i] = s[i]
  <2>1. /\ Len(f) = (IF 1 <= n THEN n - 1 + 1 ELSE 0)
        /\ \A i \in 1..Len(f) : f[i] = s[i + 1 - 1]
    BY Part
  <2>2. (IF 1 <= n THEN n - 1 + 1 ELSE 0) = n /\ \A i \in 1..n : i + 1 - 1 = i
    BY <1>1
  <2> QED
    BY <2>1, <2>2
<1>3. Len(r) = Len(s) - n /\ \A i \in 1..Len(r) : r[i] = s[n + i]
  <2>1. /\ Len(r) = (IF n + 1 <= Len(s) THEN Len(s) - (n + 1) + 1 ELSE 0)
        /\ \A i \in 1..Len(r) : r[i] = s[i + (n + 1) - 1]
    BY <1>1, Part
  <2>2. (IF n + 1 <= Len(s) THEN Len(s) - (n + 1) + 1 ELSE 0) = Len(s) - n
    BY <1>1
  <2>3. \A i \in 1..(Len(s) - n) : i + (n + 1) - 1 = n + i
    BY <1>1
  <2> QED
    BY <2>1, <2>2, <2>3
<1> HIDE DEF f, r
<1>4. ASSUME NEW i \in 1..Len(s)
      PROVE  \E a \in 0..(i - 1) : /\ Copy(sh, s, a, s[i].pkg) /\ i <= a + L(s[i].pkg)
                                   /\ a + L(s[i].pkg) <= n \/ n <= a
  <2>1. PICK a \in 0..(i - 1) : Copy(sh, s, a, s[i].pkg) /\ i <= a + L(s[i].pkg)
    BY <1>1, <1>4 DEF Whole
  <2> DEFINE p == s[i].pkg
             l == L(p)
             k == Package(sh[p], p)
  <2>2. l \in Nat /\ \A m \in 1..l : k[m].pkg = p
    BY DEF Known, Cells
  <2>3. a + l <= Len(s) /\ \A m \in 1..l : s[a + m] = k[m]
    BY <2>1 DEF Copy
  <2>4. ASSUME a < n, n < a + l
        PROVE  FALSE
    <3> HIDE DEF p, l, k
    <3>1. n - a \in 1..l /\ n + 1 - a \in 1..l /\ a + (n - a) = n /\ a + (n + 1 - a) = n + 1
      BY <1>1, <2>2, <2>4
    <3>2. s[n].pkg = p /\ s[n + 1].pkg = p
      <4>1. s[n] = k[n - a] /\ s[n + 1] = k[n + 1 - a]
        BY <2>3, <3>1
      <4>2. k[n - a].pkg = p /\ k[n + 1 - a].pkg = p
        BY <2>2, <3>1
      <4> QED
        BY <4>1, <4>2
    <3>3. n \in 1..(Len(s) - 1)
      BY <1>1, <2>2, <2>3, <2>4
    <3> QED
      BY <3>2, <3>3
  <2>5. a + l <= n \/ n <= a
    <3> HIDE DEF l
    <3> QED
      BY <1>1, <2>2, <2>4
  <2> QED
    BY <2>1, <2>5
<1>5. Whole(sh, f, 0)
  <2> SUFFICES ASSUME NEW i \in 1..Len(f)
               PROVE  \E a \in 0..(i - 1) : Copy(sh, f, a, f[i].pkg) /\ i <= a + L(f[i].pkg)
    BY DEF Whole
  <2>1. i \in 1..Len(s) /\ f[i] = s[i]
    BY <1>1, <1>2
  <2>2. PICK a \in 0..(i - 1) : /\ Copy(sh, s, a, s[i].pkg) /\ i <= a + L(s[i].pkg)
                                /\ a + L(s[i].pkg) <= n \/ n <= a
    BY <1>4, <2>1
  <2> DEFINE p == s[i].pkg
             l == L(p)
             k == Package(sh[p], p)
  <2>3. l \in Nat
    BY <2>1 DEF Known, Cells
  <2>4. \A m \in 1..l : s[a + m] = k[m]
    BY <2>2 DEF Copy
  <2>4a. a + l <= n \/ n <= a
    BY <2>2
  <2> HIDE DEF p, l, k
  <2>5. a + l <= n
    <3>1. i \in 1..n
      BY <1>2
    <3> QED
      BY <1>1, <2>4a, <3>1
  <2>6. \A m \in 1..l : a + m \in 1..n
    BY <1>1, <2>3, <2>5
  <2>7. a + l <= Len(f) /\ \A m \in 1..l : f[a + m] = k[m]
    BY <1>2, <2>4, <2>5, <2>6
  <2>8. Copy(sh, f, a, p)
    BY <2>7 DEF Copy, l, k
  <2> QED
    BY <2>1, <2>2, <2>8 DEF p
<1>6. Whole(sh, r, 0)
  <2> SUFFICES ASSUME NEW j \in 1..Len(r)
               PROVE  \E e \in 0..(j - 1) : Copy(sh, r, e, r[j].pkg) /\ j <= e + L(r[j].pkg)
    BY DEF Whole
  <2>1. n + j \in 1..Len(s) /\ r[j] = s[n + j]
    BY <1>1, <1>3
  <2>2. PICK a \in 0..((n + j) - 1) : /\ Copy(sh, s, a, s[n + j].pkg) /\ n + j <= a + L(s[n + j].pkg)
                                      /\ a + L(s[n + j].pkg) <= n \/ n <= a
    BY <1>4, <2>1
  <2> DEFINE p == s[n + j].pkg
             l == L(p)
             k == Package(sh[p], p)
  <2>3. l \in Nat
    BY <2>1 DEF Known, Cells
  <2>4. a + l <= Len(s) /\ \A m \in 1..l : s[a + m] = k[m]
    BY <2>2 DEF Copy
  <2>5. n + j <= a + l /\ (a + l <= n \/ n <= a)
    BY <2>2
  <2> HIDE DEF p, l, k
  <2>6. n <= a /\ a - n \in 0..(j - 1) /\ j <= (a - n) + l /\ (a - n) + l <= Len(r)
    BY <1>1, <1>3, <2>3, <2>4, <2>5
  <2>7. \A m \in 1..l : (a - n) + m \in 1..Len(r) /\ n + ((a - n) + m) = a + m
    BY <1>1, <1>3, <2>3, <2>4, <2>6
  <2>8. \A m \in 1..l : r[(a - n) + m] = k[m]
    BY <1>3, <2>4, <2>7
  <2>9. Copy(sh, r, a - n, p)
    BY <2>6, <2>8 DEF Copy, l, k
  <2> QED
    BY <2>1, <2>6, <2>9 DEF p, l
<1> QED
  BY <1>5, <1>6 DEF f, r

\* Whole packages remain whole when more shapes are known.
LEMMA WholeGrows ==
  ASSUME NEW sh, NEW th, NEW s \in Seq(Cell), NEW c \in Nat, Whole(sh, s, c),
         \A x \in Cells(s) : th[x.pkg] = sh[x.pkg]
  PROVE  Whole(th, s, c)
<1> SUFFICES ASSUME NEW i \in (c + 1)..Len(s)
             PROVE  \E a \in c..(i - 1) :
                      Copy(th, s, a, s[i].pkg) /\ i <= a + Len(Package(th[s[i].pkg], s[i].pkg))
  BY DEF Whole
<1>1. i \in 1..Len(s)
  BY LenProperties
<1>2. th[s[i].pkg] = sh[s[i].pkg]
  BY <1>1 DEF Cells
<1> QED
  <2>1. PICK a \in c..(i - 1) :
               Copy(sh, s, a, s[i].pkg) /\ i <= a + Len(Package(sh[s[i].pkg], s[i].pkg))
    BY DEF Whole
  <2>2. Copy(th, s, a, s[i].pkg)
    BY <1>2, <2>1 DEF Copy
  <2> QED
    BY <1>2, <2>1, <2>2

\* All cells are of packages of a known and sound shape.
LEMMA CellsKnown ==
  ASSUME IInv, Calm
  PROVE  /\ \A x \in Cells(buffer) \cup Cells(input) \cup Cells(wire) :
              /\ x.pkg \in 1..Len(sent) /\ x.pkg \in 1..MaxPackages
              /\ sent[x.pkg] \in Shape /\ Sound(sent[x.pkg])
         /\ Known(sent, buffer) /\ Known(sent, input) /\ Known(sent, wire)
<1>1. /\ sent \in Seq(Shape) /\ Len(sent) \in Nat
      /\ buffer \in Seq(Cell) /\ input \in Seq(Cell) /\ wire \in Seq(Cell)
  BY LenProperties DEF IInv, TypeOK
<1>2. ASSUME NEW x \in Cells(buffer) \cup Cells(input) \cup Cells(wire)
      PROVE  /\ x.pkg \in 1..Len(sent) /\ x.pkg \in 1..MaxPackages
             /\ sent[x.pkg] \in Shape /\ Sound(sent[x.pkg])
             /\ LET k == Package(sent[x.pkg], x.pkg) IN
                  Len(k) \in Nat /\ \A m \in 1..Len(k) : k[m].pkg = x.pkg
  <2>1. x.pkg \in 1..MaxPackages
    BY <1>1, CellTypes
  <2>2. x.pkg <= Len(sent)
    BY DEF IInv, Traced
  <2>3. x.pkg \in 1..Len(sent)
    BY <1>1, <2>1, <2>2
  <2>4. sent[x.pkg] \in Shape /\ Sound(sent[x.pkg])
    BY <1>1, <2>3, ElementOfSeq
  <2>5. LET k == Package(sent[x.pkg], x.pkg) IN
          k \in Seq(Cell) /\ \A m \in 1..Len(k) : k[m].pkg = x.pkg
    BY <2>1, <2>4, PackageParts
  <2> QED
    BY <2>1, <2>3, <2>4, <2>5, LenProperties
<1> QED
  BY <1>2 DEF Known

\* The first of several packages, and what follows it.
LEMMA WholeFirst ==
  ASSUME NEW sh, NEW s \in Seq(Cell), NEW b \in Nat, b < Len(s), Whole(sh, s, b), Known(sh, s),
         \A x \in Cells(s) :
           LET k == Package(sh[x.pkg], x.pkg) IN
             k[1].kind = "start" /\ \A m \in 2..Len(k) : k[m].kind # "start"
  PROVE  LET p == s[b + 1].pkg
             l == Len(Package(sh[p], p))
         IN Copy(sh, s, b, p) /\ l \in Nat /\ b + l <= Len(s) /\ Whole(sh, s, b + l)
<1> DEFINE L(q) == Len(Package(sh[q], q))
           p == s[b + 1].pkg
           l == L(p)
           k == Package(sh[p], p)
<1>1. Len(s) \in Nat /\ b + 1 \in (b + 1)..Len(s) /\ b + 1 \in 1..Len(s)
  BY LenProperties
<1>2. Copy(sh, s, b, p)
  <2>1. PICK a \in b..((b + 1) - 1) : Copy(sh, s, a, s[b + 1].pkg)
    BY <1>1 DEF Whole
  <2>2. a = b
    OBVIOUS
  <2> QED
    BY <2>1, <2>2
<1>3. /\ l \in Nat /\ b + l <= Len(s) /\ \A m \in 1..l : s[b + m] = k[m]
      /\ \A m \in 1..l : k[m].pkg = p /\ \A m1 \in 2..l : k[m1].kind # "start"
  <2>1. s[b + 1] \in Cells(s)
    BY <1>1 DEF Cells
  <2> QED
    BY <1>2, <2>1 DEF Copy, Known
<1> HIDE DEF p, l, k
<1>4. ASSUME NEW i \in (b + l + 1)..Len(s)
      PROVE  \E a \in (b + l)..(i - 1) : Copy(sh, s, a, s[i].pkg) /\ i <= a + L(s[i].pkg)
  <2>1. i \in (b + 1)..Len(s) /\ i \in 1..Len(s)
    BY <1>1, <1>3
  <2>2. PICK a \in b..(i - 1) : Copy(sh, s, a, s[i].pkg) /\ i <= a + L(s[i].pkg)
    BY <2>1 DEF Whole
  <2> DEFINE q == s[i].pkg
             h == Package(sh[q], q)
             g == L(q)
  <2>3. /\ g \in Nat /\ \A m \in 1..g : h[m].pkg = q /\ s[a + m] = h[m]
        /\ h[1].kind = "start" /\ i <= a + g
    <3>1. s[i] \in Cells(s)
      BY <2>1 DEF Cells
    <3> QED
      BY <2>2, <3>1 DEF Copy, Known
  <2> HIDE DEF q, h, g
  <2>4. ASSUME a < b + l
        PROVE  FALSE
    <3>1. 1 \in 1..g /\ a + 1 - b \in 1..l /\ b + (a + 1 - b) = a + 1 /\ a \in Nat /\ i \in Nat
      BY <1>1, <1>3, <2>1, <2>3, <2>4
    <3>2. s[a + 1] = h[1] /\ s[a + 1] = k[a + 1 - b]
      BY <1>3, <2>3, <3>1
    <3>3. a = b
      <4>1. a + 1 - b \notin 2..l
        BY <1>3, <2>3, <3>2
      <4> QED
        BY <1>3, <3>1, <4>1
    <3>4. q = p
      <4>1. s[a + 1].pkg = q /\ s[b + 1].pkg = p
        BY <2>3, <3>1, <3>2 DEF p
      <4> QED
        BY <3>3, <4>1
    <3>5. g = l
      BY <3>4 DEF g, l
    <3>6. i <= b + l /\ b + l + 1 <= i
      BY <2>3, <3>3, <3>5
    <3> QED
      BY <1>3, <3>1, <3>6
  <2>5. a \in (b + l)..(i - 1)
    BY <1>3, <2>1, <2>4
  <2> QED
    BY <2>2, <2>5
<1>5. Whole(sh, s, b + l)
  BY <1>4 DEF Whole
<1> QED
  BY <1>2, <1>3, <1>5 DEF p, l

-----------------------------------------------------------------------------
(* Lemmas about parsing *)

\* The first line of a kind is where no other of that kind comes before it.
LEMMA FirstLineIs ==
  ASSUME NEW kind, NEW c \in Nat, NEW m \in Nat, length \in Nat, c < m, m <= length,
         buffer[m].kind = kind, \A i \in (c + 1)..(m - 1) : buffer[i].kind # kind
  PROVE  FirstLine(kind, c) = m
<1> DEFINE S == Lines(kind, c)
<1>1. m \in S /\ S \in SUBSET Nat
  BY DEF Lines
<1>2. \A i \in S : i \in (c + 1)..length /\ buffer[i].kind = kind
  BY DEF Lines
<1>3. FirstLine(kind, c) = Min(S)
  <2>1. S # {}
    BY <1>1
  <2> HIDE DEF S
  <2>2. (IF S = {} THEN 0 ELSE Min(S)) = Min(S)
    BY <2>1
  <2> QED
    BY <2>2, Zenon DEF FirstLine, S
<1> HIDE DEF S
<1>4. Min(S) \in S /\ Min(S) <= m
  BY <1>1, MinOfNumbers
<1>5. Min(S) \notin (c + 1)..(m - 1)
  BY <1>2, <1>4
<1>6. Min(S) \in (c + 1)..length
  BY <1>2, <1>4
<1> QED
  <2>1. \A k \in (c + 1)..length : k <= m /\ k \notin (c + 1)..(m - 1) => k = m
    OBVIOUS
  <2>2. Min(S) = m
    BY <1>4, <1>5, <1>6, <2>1
  <2> QED
    BY <1>3, <2>2

\* Behind scraps, ParseProtocolHeader finds the lines of the next package, and rejects its
\* header if and only if it has more than one size.
LEMMA FirstPackage ==
  ASSUME IInv, Calm, pc = "parse", NEW b \in Nat, cursor <= b, b < Len(buffer),
         Scraps(buffer, cursor, b), Whole(sent, buffer, b)
  PROVE  LET p == buffer[b + 1].pkg
             n == Len(sent[p].lines)
             l == sent[p].body
         IN
         /\ p \in 1..Len(sent) /\ sent[p] \in Shape /\ sent[p].size = l
         /\ n \in Nat /\ n >= 3 /\ l \in Nat /\ b + n + l <= Len(buffer)
         /\ HeaderEnd = b + n /\ Start = b + 1 /\ SizeLine = b + 2 /\ buffer[b + 2].num = l
         /\ LegalHeader <=> n = 3
         /\ n # 3 => ~WellFormed(sent[p])
         /\ \A i \in 1..l : buffer[b + n + i] = Body(sent[p], p)[i]
         /\ Scraps(buffer, b + n, b + n + l) /\ Whole(sent, buffer, b + n + l)
         /\ \A q : StartIn(buffer, cursor, q) => q = p \/ StartIn(buffer, b + n + l, q)
<1> DEFINE p == buffer[b + 1].pkg
           n == Len(sent[p].lines)
           l == sent[p].body
           k == Package(sent[p], p)
<1>1. /\ buffer \in Seq(Cell) /\ Len(buffer) \in Nat /\ cursor \in Nat
      /\ length = Len(buffer)
  BY LenProperties DEF IInv, TypeOK, Kept, Parsing
<1>2. b + 1 \in 1..Len(buffer) /\ buffer[b + 1] \in Cells(buffer)
  BY <1>1 DEF Cells
<1>3. /\ p \in 1..Len(sent) /\ p \in 1..MaxPackages /\ sent[p] \in Shape /\ Sound(sent[p])
  BY <1>2, CellsKnown
<1>4. /\ n \in Nat /\ n >= 3 /\ l \in Nat /\ sent[p].size = l
      /\ k \in Seq(Cell) /\ Len(k) = n + l
      /\ k[1].kind = "start" /\ k[n].kind = "end" /\ k[2].kind = "size"
      /\ \A i \in 2..(n - 1) : k[i].kind = "size"
      /\ \A i \in (n + 1)..(n + l) : k[i].kind = "body"
      /\ \A i \in 1..n : k[i].num = l
      /\ \A i \in 1..l : k[n + i] = Body(sent[p], p)[i]
      /\ n # 3 => ~WellFormed(sent[p])
  <2> HIDE DEF p
  <2>1. /\ n \in Nat /\ n >= 3 /\ l \in Nat /\ sent[p].size = l
        /\ k \in Seq(Cell) /\ Len(k) = n + l
        /\ k[1].kind = "start" /\ k[n].kind = "end" /\ k[2].kind = "size"
        /\ \A i \in 2..(n - 1) : k[i].kind = "size"
        /\ \A i \in (n + 1)..Len(k) : k[i].kind = "body"
        /\ \A i \in 1..n : k[i].num = sent[p].size
        /\ \A i \in 1..l : k[n + i] = Body(sent[p], p)[i]
        /\ n # 3 => ~WellFormed(sent[p])
    <3> DEFINE s == sent[p]
    <3>1. s \in Shape /\ Sound(s) /\ p \in 1..MaxPackages
      BY <1>3
    <3> HIDE DEF s
    <3>2. LET h == Package(s, p)
              j == Len(s.lines)
          IN /\ j \in Nat /\ j >= 3 /\ s.body \in Nat /\ s.size = s.body
             /\ h \in Seq(Cell) /\ Len(h) = j + s.body
             /\ h[1].kind = "start" /\ h[j].kind = "end" /\ h[2].kind = "size"
             /\ \A i \in 2..(j - 1) : h[i].kind = "size"
             /\ \A i \in (j + 1)..Len(h) : h[i].kind = "body"
             /\ \A i \in 1..j : h[i].num = s.size
             /\ \A i \in 1..s.body : h[j + i] = Body(s, p)[i]
             /\ j # 3 => ~WellFormed(s)
      BY <3>1, PackageParts
    <3> QED
      BY <3>2 DEF s
  <2> HIDE DEF n, l, k
  <2> QED
    BY <2>1
<1>5. Copy(sent, buffer, b, p) /\ b + (n + l) <= Len(buffer) /\ Whole(sent, buffer, b + (n + l))
  <2>1. ASSUME NEW x \in Cells(buffer)
        PROVE  LET h == Package(sent[x.pkg], x.pkg) IN
                 h[1].kind = "start" /\ \A m \in 2..Len(h) : h[m].kind # "start"
    <3> DEFINE q == x.pkg
               s == sent[q]
               h == Package(s, q)
    <3>1. s \in Shape /\ Sound(s) /\ q \in 1..MaxPackages
      BY CellsKnown
    <3> HIDE DEF s, q
    <3>2. /\ Len(s.lines) \in Nat /\ Len(s.lines) >= 3 /\ s.body \in Nat
          /\ Len(h) = Len(s.lines) + s.body
          /\ h[1].kind = "start" /\ h[Len(s.lines)].kind = "end"
          /\ \A i \in 2..(Len(s.lines) - 1) : h[i].kind = "size"
          /\ \A i \in (Len(s.lines) + 1)..Len(h) : h[i].kind = "body"
      BY <3>1, PackageParts
    <3> DEFINE j == Len(s.lines)
    <3>3. \A m \in 2..Len(h) : m \in 2..(j - 1) \/ m = j \/ m \in (j + 1)..Len(h)
      <4>1. j \in Nat
        BY <3>2
      <4> HIDE DEF j, h
      <4> QED
        BY <4>1
    <3>4. h[1].kind = "start" /\ \A m \in 2..Len(h) : h[m].kind # "start"
      <4>1. h[1].kind = "start"
        BY <3>2
      <4>2. ASSUME NEW m \in 2..Len(h)
            PROVE  h[m].kind # "start"
        BY <3>2, <3>3, <4>2
      <4> HIDE DEF h
      <4> QED
        BY <4>1, <4>2
    <3> QED
      BY <3>4 DEF s, q
  <2>2. Known(sent, buffer)
    BY CellsKnown
  <2> QED
    <3>1. b + 1 \in 1..Len(buffer)
      BY <1>2
    <3>2. /\ Copy(sent, buffer, b, p) /\ b + Len(k) <= Len(buffer)
          /\ Whole(sent, buffer, b + Len(k))
      BY <1>1, <2>1, <2>2, WholeFirst
    <3>3. Len(k) = n + l
      BY <1>4
    <3> HIDE DEF n, l, p, k
    <3> QED
      BY <3>2, <3>3
<1>6. \A m \in 1..(n + l) : buffer[b + m] = k[m]
  BY ZenonT(60), <1>4, <1>5 DEF Copy
<1> HIDE DEF k, n, l, p
<1>7. /\ n \in Nat /\ n >= 3 /\ l \in Nat /\ b \in Nat /\ cursor \in Nat /\ cursor <= b
      /\ b + n + l <= length /\ b + n + l = b + (n + l) /\ length \in Nat /\ length = Len(buffer)
  BY <1>1, <1>4, <1>5
<1>8. /\ buffer[b + 1].kind = "start" /\ buffer[b + n].kind = "end" /\ buffer[b + 2].kind = "size"
      /\ buffer[b + 2].num = l
  <2>1. 1 \in 1..(n + l) /\ n \in 1..(n + l) /\ 2 \in 1..(n + l) /\ 2 \in 1..n
    BY <1>7
  <2> QED
    BY SMTT(60), <1>4, <1>6, <2>1
<1>9. \A i \in (b + 2)..(b + n - 1) : buffer[i].kind = "size"
  <2> TAKE i \in (b + 2)..(b + n - 1)
  <2>1. i - b \in 1..(n + l) /\ i - b \in 2..(n - 1) /\ b + (i - b) = i
    BY <1>7
  <2>2. buffer[i] = k[i - b]
    BY <1>6, <2>1
  <2> QED
    BY ZenonT(60), <1>4, <2>1, <2>2
<1>10. \A i \in (b + n + 1)..(b + n + l) : buffer[i].kind = "body"
  <2> TAKE i \in (b + n + 1)..(b + n + l)
  <2>1. i - b \in 1..(n + l) /\ i - b \in (n + 1)..(n + l) /\ b + (i - b) = i
    BY <1>7
  <2>2. buffer[i] = k[i - b]
    BY <1>6, <2>1
  <2> QED
    BY ZenonT(60), <1>4, <2>1, <2>2
<1>11. \A i \in 1..l : buffer[b + n + i] = Body(sent[p], p)[i]
  <2>1. \A i \in 1..l : n + i \in 1..(n + l) /\ b + n + i = b + (n + i)
    BY <1>7
  <2> QED
    BY SMTT(60), <1>4, <1>6, <2>1
<1>12. \A i \in (cursor + 1)..b : buffer[i].kind = "body"
  BY DEF Scraps
<1>13. HeaderEnd = b + n
  <2>1. \A i \in (cursor + 1)..(b + n - 1) :
          i \in (cursor + 1)..b \/ i = b + 1 \/ i \in (b + 2)..(b + n - 1)
    BY <1>7
  <2>2. \A i \in (cursor + 1)..(b + n - 1) : buffer[i].kind # "end"
    BY <1>8, <1>9, <1>12, <2>1
  <2>3. b + n \in Nat /\ cursor < b + n /\ b + n <= length
    BY <1>7
  <2>4. cursor \in Nat /\ length \in Nat /\ buffer[b + n].kind = "end"
    BY <1>7, <1>8
  <2>5. FirstLine("end", cursor) = b + n
    <3>1. PICK m : m = b + n
      OBVIOUS
    <3>2. m \in Nat /\ cursor < m /\ m <= length
      BY <2>3, <3>1
    <3>3. buffer[m].kind = "end"
      BY <2>4, <3>1, Zenon
    <3>4. \A i \in (cursor + 1)..(m - 1) : buffer[i].kind # "end"
      <4>1. (cursor + 1)..(m - 1) = (cursor + 1)..(b + n - 1)
        BY <1>7, <3>1
      <4> QED
        BY <2>2, <4>1
    <3>5. FirstLine("end", cursor) = m
      BY <2>4, <3>2, <3>3, <3>4, FirstLineIs
    <3> QED
      BY <3>1, <3>5
  <2> QED
    BY <2>5 DEF HeaderEnd
<1>14. Start = b + 1
  <2>1. b + 1 \in Nat /\ cursor < b + 1 /\ b + 1 <= length /\ (b + 1) - 1 = b
    BY <1>7
  <2>2. \A i \in (cursor + 1)..((b + 1) - 1) : buffer[i].kind # "start"
    BY <1>12, <2>1
  <2> QED
    BY <1>7, <1>8, <2>1, <2>2, FirstLineIs DEF Start
<1>15. SizeLine = b + 2
  <2>1. b + 1 \in Nat /\ b + 2 \in Nat /\ b + 1 < b + 2 /\ b + 2 <= length
    BY <1>7
  <2>2. \A i \in (b + 1 + 1)..(b + 2 - 1) : buffer[i].kind # "size"
    BY <1>7
  <2> QED
    BY <1>7, <1>8, <1>14, <2>1, <2>2, FirstLineIs DEF SizeLine
<1>16. LegalHeader <=> n = 3
  <2>1. LegalHeader <=> ~ \E i \in Lines("size", b + 2) : i < b + n
    <3>1. b + 1 > 0 /\ b + 2 > 0
      BY <1>7
    <3> QED
      BY <1>13, <1>14, <1>15, <3>1 DEF LegalHeader
  <2>2. CASE n = 3
    <3>1. \A i \in Lines("size", b + 2) : ~(i < b + n)
      BY <1>7, <2>2 DEF Lines
    <3> QED
      BY <2>1, <2>2, <3>1
  <2>3. CASE n # 3
    <3>1. b + 3 \in (b + 2)..(b + n - 1) /\ b + 3 \in (b + 2 + 1)..length /\ b + 3 < b + n
      BY <1>7, <2>3
    <3>2. b + 3 \in Lines("size", b + 2)
      BY <1>9, <3>1 DEF Lines
    <3> QED
      BY <2>1, <2>3, <3>1, <3>2
  <2> QED
    BY <2>2, <2>3
<1>17. ASSUME NEW q, StartIn(buffer, cursor, q)
       PROVE  q = p \/ StartIn(buffer, b + n + l, q)
  <2>1. PICK i \in (cursor + 1)..Len(buffer) : buffer[i].kind = "start" /\ buffer[i].pkg = q
    BY <1>17 DEF StartIn
  <2>2. \/ i \in (cursor + 1)..b \/ i = b + 1 \/ i \in (b + 2)..(b + n - 1) \/ i = b + n
        \/ i \in (b + n + 1)..(b + n + l) \/ i \in (b + n + l + 1)..Len(buffer)
    BY <1>7
  <2>3. i = b + 1 \/ i \in (b + n + l + 1)..Len(buffer)
    BY <1>8, <1>9, <1>10, <1>12, <2>1, <2>2
  <2>4. i = b + 1 => q = p
    BY <2>1 DEF p
  <2> QED
    BY <2>1, <2>3, <2>4 DEF StartIn
<1>18. Scraps(buffer, b + n, b + n + l) /\ Whole(sent, buffer, b + n + l)
  BY <1>5, <1>7, <1>10 DEF Scraps
<1> QED
  BY ZenonT(60), <1>3, <1>4, <1>7, <1>8, <1>11, <1>13, <1>14, <1>15, <1>16, <1>17, <1>18 DEF n, l, p

-----------------------------------------------------------------------------
(* Lemmas about where packages start *)

\* Packages that start in one of two sequences start in both together.
LEMMA StartInCatenation ==
  ASSUME NEW s \in Seq(Cell), NEW t \in Seq(Cell), NEW c \in 0..Len(s), NEW q,
         StartIn(s, c, q) \/ StartIn(t, 0, q)
  PROVE  StartIn(s \o t, c, q)
<1> DEFINE r == s \o t
<1>1. /\ Len(s) \in Nat /\ Len(t) \in Nat /\ Len(r) = Len(s) + Len(t)
      /\ \A i \in 1..Len(s) : r[i] = s[i]
      /\ \A i \in 1..Len(t) : r[Len(s) + i] = t[i]
  BY Catenation, LenProperties
<1> HIDE DEF r
<1>2. CASE StartIn(s, c, q)
  <2>1. PICK i \in (c + 1)..Len(s) : s[i].kind = "start" /\ s[i].pkg = q
    BY <1>2 DEF StartIn
  <2>2. i \in 1..Len(s) /\ i \in (c + 1)..Len(r)
    BY <1>1
  <2>3. r[i].kind = "start" /\ r[i].pkg = q
    BY <1>1, <2>1, <2>2
  <2> QED
    BY <2>2, <2>3 DEF StartIn, r
<1>3. CASE StartIn(t, 0, q)
  <2>1. PICK i \in 1..Len(t) : t[i].kind = "start" /\ t[i].pkg = q
    BY <1>3 DEF StartIn
  <2>2. Len(s) + i \in (c + 1)..Len(r)
    BY <1>1
  <2>3. r[Len(s) + i].kind = "start" /\ r[Len(s) + i].pkg = q
    BY <1>1, <2>1
  <2> QED
    BY <2>2, <2>3 DEF StartIn, r
<1> QED
  BY <1>2, <1>3

\* Packages that start in a sequence start in one of its two parts.
LEMMA StartInCut ==
  ASSUME NEW s \in Seq(Cell), NEW n \in 0..Len(s), NEW q, StartIn(s, 0, q)
  PROVE  StartIn(SubSeq(s, 1, n), 0, q) \/ StartIn(SubSeq(s, n + 1, Len(s)), 0, q)
<1> DEFINE f == SubSeq(s, 1, n)
           r == SubSeq(s, n + 1, Len(s))
<1>1. Len(s) \in Nat /\ n \in Nat /\ n <= Len(s) /\ n + 1 \in Nat \ {0} /\ Len(s) \in 0..Len(s)
  BY LenProperties
<1>2. /\ Len(f) = (IF 1 <= n THEN n - 1 + 1 ELSE 0)
      /\ \A i \in 1..Len(f) : f[i] = s[i + 1 - 1]
  BY Part
<1>3. /\ Len(r) = (IF n + 1 <= Len(s) THEN Len(s) - (n + 1) + 1 ELSE 0)
      /\ \A i \in 1..Len(r) : r[i] = s[i + (n + 1) - 1]
  BY <1>1, Part
<1> HIDE DEF f, r
<1>4. PICK i \in 1..Len(s) : s[i].kind = "start" /\ s[i].pkg = q
  BY DEF StartIn
<1>5. CASE i <= n
  <2>1. i \in (0 + 1)..Len(f) /\ i + 1 - 1 = i /\ i \in 1..Len(f)
    BY <1>1, <1>2, <1>5
  <2>2. f[i] = s[i]
    BY <1>2, <2>1
  <2> QED
    BY <1>4, <2>1, <2>2 DEF StartIn, f
<1>6. CASE n < i
  <2>1. i - n \in (0 + 1)..Len(r) /\ i - n \in 1..Len(r) /\ (i - n) + (n + 1) - 1 = i
    BY <1>1, <1>3, <1>6
  <2>2. r[i - n] = s[i]
    BY <1>3, <2>1
  <2> QED
    BY <1>4, <2>1, <2>2 DEF StartIn, r
<1> QED
  BY <1>1, <1>5, <1>6

-----------------------------------------------------------------------------
(* The steps *)

\* The new package goes whole to the end of the wire.
LEMMA SendWhole ==
  ASSUME IInv, WholeInv, NEW s \in Shape, Send(s), Calm'
  PROVE  Contents'
<1> DEFINE new == Package(s, Len(sent'))
<1>1. /\ sent \in Seq(Shape) /\ Len(sent) \in Nat /\ Len(sent) < MaxPackages
      /\ sent' = Append(sent, s) /\ wire' = wire \o new
      /\ UNCHANGED segmented /\ UNCHANGED input /\ UNCHANGED pending /\ UNCHANGED withdrawn
      /\ UNCHANGED buffer /\ UNCHANGED offset /\ UNCHANGED headerGot /\ UNCHANGED size
      /\ UNCHANGED pc /\ UNCHANGED cursor /\ UNCHANGED executed
  BY LenProperties DEF IInv, TypeOK, Send
<1>2. /\ Len(sent') = Len(sent) + 1 /\ sent'[Len(sent')] = s
      /\ \A p \in 1..Len(sent) : sent'[p] = sent[p]
  BY <1>1
<1>3. /\ Len(sent) \in Nat /\ Len(sent') = Len(sent) + 1
      /\ \A p \in 1..Len(sent') : p \in 1..Len(sent) \/ p = Len(sent')
      /\ Len(sent') \in 1..Len(sent') /\ \A p \in 1..Len(sent) : p \in 1..Len(sent')
  BY <1>1, <1>2
<1>4. Len(sent') \in 1..MaxPackages
  BY <1>1, <1>3, ShapeAssumption
<1>5. Calm /\ Sound(s)
  BY <1>1, <1>2, <1>3
<1>6. Contents
  BY <1>5 DEF WholeInv
<1>7. wire \in Seq(Cell) /\ buffer \in Seq(Cell) /\ input \in Seq(Cell) /\ cursor \in Nat /\ size \in Int
  BY DEF IInv, TypeOK
<1>8. \A x \in Cells(buffer) \cup Cells(input) \cup Cells(wire) :
        sent'[x.pkg] = sent[x.pkg] /\ Len(Package(sent'[x.pkg], x.pkg)) \in Nat
  <2> TAKE x \in Cells(buffer) \cup Cells(input) \cup Cells(wire)
  <2>1. x.pkg \in 1..Len(sent) /\ Len(Package(sent[x.pkg], x.pkg)) \in Nat
    BY <1>5, CellsKnown DEF Known
  <2> QED
    BY <1>2, <2>1
<1>9. /\ new \in Seq(Cell) /\ Len(new) \in Nat /\ Len(new) >= 3 /\ new[1].kind = "start"
      /\ \A i \in 1..Len(new) : new[i].pkg = Len(sent')
  <2>1. LET k == Package(s, Len(sent'))
            n == Len(s.lines)
        IN /\ n \in Nat /\ n >= 3 /\ s.body \in Nat
           /\ k \in Seq(Cell) /\ Len(k) = n + s.body /\ k[1].kind = "start"
           /\ \A i \in 1..Len(k) : k[i].pkg = Len(sent')
    BY <1>4, <1>5, PackageParts
  <2>2. Len(s.lines) + s.body \in Nat /\ Len(s.lines) + s.body >= 3
    BY <2>1
  <2> QED
    BY <2>1, <2>2
<1>10. Whole(sent', new, 0)
  BY <1>2, <1>9, PackageWhole
<1> HIDE DEF new
<1>11. Whole(sent', wire, 0) /\ Whole(sent', input, 0)
  BY <1>6, <1>7, <1>8, WholeGrows DEF Contents, Segments
<1>12. Whole(sent', wire', 0)
  <2>1. \A x \in Cells(new) : Len(Package(sent'[x.pkg], x.pkg)) \in Nat
    BY <1>2, <1>9 DEF Cells, new
  <2>2. 0 \in 0..Len(wire)
    BY <1>7, LenProperties
  <2> QED
    BY <1>1, <1>7, <1>8, <1>9, <1>10, <1>11, <2>1, <2>2, WholeCatenation
<1>13. Segments'
  BY <1>1, <1>6, <1>11, <1>12 DEF Contents, Segments
<1>14. Memo'
  <2>1. CASE pc = "parse"
    <3>1. PICK b \in cursor..Len(buffer) : Scraps(buffer, cursor, b) /\ Whole(sent, buffer, b)
      BY <1>6, <2>1 DEF Contents, Memo
    <3>2. b \in Nat
      BY <1>7, LenProperties
    <3>3. Whole(sent', buffer, b)
      BY <1>7, <1>8, <3>1, <3>2, WholeGrows
    <3> QED
      BY <1>1, <1>6, <2>1, <3>1, <3>3 DEF Contents, Memo
  <2>2. CASE pc = "body"
    <3>1. PICK p \in 1..Len(sent) : BodyAt(p)
      BY <1>6, <2>2 DEF Contents, Memo
    <3>2. size \in Nat
      <4>1. sent[p] \in Shape
        BY <1>1, ElementOfSeq
      <4> QED
        BY <3>1, <4>1, ShapeFields DEF BodyAt
    <3>3. Whole(sent', buffer, cursor + size)
      <4>1. cursor + size \in Nat
        BY <1>7, <3>2
      <4> QED
        BY SMTT(60), <1>6, <1>7, <1>8, <2>2, <4>1, WholeGrows DEF Contents, Memo
    <3>4. p \in 1..Len(sent') /\ BodyAt(p)'
      BY <1>1, <1>2, <1>3, <3>1 DEF BodyAt
    <3> QED
      BY <1>1, <1>6, <2>2, <3>3, <3>4 DEF Contents, Memo
  <2>3. CASE pc \notin {"parse", "body"}
    BY <1>1, <1>6, <2>3 DEF Contents, Memo
  <2> QED
    BY <2>1, <2>2, <2>3
<1>15. NothingLost'
  <2>1. ASSUME NEW p \in 1..Len(sent'), WellFormed(sent'[p]), sent'[p].size > 0
        PROVE  Due(p)'
    <3>1. CASE p \in 1..Len(sent)
      <4>1. Due(p)
        BY <1>2, <1>6, <2>1, <3>1 DEF Contents, NothingLost
      <4>2. StartIn(wire, 0, p) => StartIn(wire', 0, p)
        <5>1. 0 \in 0..Len(wire)
          BY <1>7, LenProperties
        <5> QED
          BY <1>1, <1>7, <1>9, <5>1, StartInCatenation
      <4>3. BodyAt(p) => BodyAt(p)'
        BY <1>1, <1>2, <3>1 DEF BodyAt
      <4> QED
        BY <1>1, <4>1, <4>2, <4>3 DEF Due
    <3>2. CASE p = Len(sent')
      <4>1. 1 \in 1..Len(new) /\ 0 \in 0..Len(wire)
        BY <1>7, <1>9, LenProperties
      <4>2. StartIn(new, 0, p)
        BY <1>9, <3>2, <4>1 DEF StartIn
      <4>3. StartIn(wire', 0, p)
        BY <1>1, <1>7, <1>9, <4>1, <4>2, StartInCatenation
      <4> QED
        BY <4>3 DEF Due
    <3> QED
      BY <1>3, <3>1, <3>2
  <2> QED
    BY <2>1 DEF NothingLost
<1> QED
  BY <1>13, <1>14, <1>15 DEF Contents

\* A segment of whole packages reaches the low watermark.
LEMMA ArriveWhole ==
  ASSUME IInv, WholeInv, NEW n \in 1..Len(wire), Arrive(n), Calm', LowMark <= 3
  PROVE  Contents'
<1> DEFINE front == SubSeq(wire, 1, n)
           rest  == SubSeq(wire, n + 1, Len(wire))
<1>1. /\ pc = "idle" /\ SegmentEnds(n)
      /\ input' = input \o front /\ wire' = rest /\ pending' = (Len(input') >= LowMark)
      /\ UNCHANGED segmented /\ UNCHANGED sent /\ UNCHANGED withdrawn
      /\ UNCHANGED buffer /\ UNCHANGED offset /\ UNCHANGED headerGot /\ UNCHANGED size
      /\ UNCHANGED pc /\ UNCHANGED cursor /\ UNCHANGED executed
  BY DEF Arrive
<1>2. Calm
  BY <1>1
<1>3. Contents
  BY <1>2 DEF WholeInv
<1>4. /\ wire \in Seq(Cell) /\ input \in Seq(Cell) /\ Len(wire) \in Nat /\ Len(input) \in Nat
      /\ offset \in Nat
  BY LenProperties DEF IInv, TypeOK
<1>5. /\ front \in Seq(Cell) /\ rest \in Seq(Cell) /\ Len(front) = n
      /\ Cells(front) \subseteq Cells(wire) /\ n \in 0..Len(wire)
  <2>1. n \in 0..Len(wire) /\ Ordered(wire)
    BY <1>4 DEF IInv, InOrder
  <2> QED
    BY <1>4, <2>1, Cut
<1>6. n < Len(wire) => wire[n + 1].pkg # wire[n].pkg
  BY <1>1, <1>2 DEF SegmentEnds
<1>7. offset + Len(input) + n <= MaxBuffer
  BY <1>1, <1>2 DEF SegmentEnds
<1>8. Whole(sent, front, 0) /\ Whole(sent, rest, 0)
  <2>1. n \in 1..(Len(wire) - 1) => n < Len(wire)
    BY <1>4
  <2>2. Known(sent, wire) /\ Whole(sent, wire, 0)
    BY <1>2, <1>3, CellsKnown DEF Contents, Segments
  <2> QED
    BY <1>4, <1>5, <1>6, <2>1, <2>2, WholeCut
<1>9. \A q : StartIn(wire, 0, q) => StartIn(front, 0, q) \/ StartIn(rest, 0, q)
  BY <1>4, <1>5, StartInCut
<1> HIDE DEF front, rest
<1>10. Len(input') = Len(input) + n /\ input' \in Seq(Cell) /\ 0 \in 0..Len(input)
  <2>1. 0 \in 0..Len(input)
    BY <1>4
  <2>2. input \o front \in Seq(Cell) /\ Len(input \o front) = Len(input) + Len(front)
    BY <1>4, <1>5, Catenation
  <2> QED
    BY <1>1, <1>5, <2>1, <2>2
<1>11. Whole(sent, input', 0)
  <2>1. \A x \in Cells(input) \cup Cells(front) : Len(Package(sent[x.pkg], x.pkg)) \in Nat
    BY <1>2, <1>5, CellsKnown DEF Known
  <2>2. Whole(sent, input, 0)
    BY <1>3 DEF Contents, Segments
  <2> QED
    BY <1>1, <1>4, <1>5, <1>8, <1>10, <2>1, <2>2, WholeCatenation
<1>12. pending' = TRUE
  <2> DEFINE p == input'[1].pkg
             l == Len(Package(sent[p], p))
  <2>1. 1 \in (0 + 1)..Len(input') /\ 1 \in 1..Len(input')
    BY <1>4, <1>10
  <2>2. PICK a \in 0..(1 - 1) : Copy(sent, input', a, p)
    BY <1>11, <2>1 DEF Whole
  <2>3. a = 0 /\ a + l <= Len(input')
    BY <2>2 DEF Copy
  <2>4. l \in Nat /\ l >= 3
    <3>1. input'[1] \in Cells(input) \cup Cells(wire)
      <4>1. input'[1] \in Cells(input')
        BY <2>1 DEF Cells
      <4>2. Cells(input \o front) \subseteq Cells(input) \cup Cells(front)
        BY <1>4, <1>5, Catenation
      <4> QED
        BY <1>1, <1>5, <4>1, <4>2
    <3>2. p \in 1..MaxPackages /\ sent[p] \in Shape /\ Sound(sent[p])
      BY <1>2, <3>1, CellsKnown
    <3> DEFINE s == sent[p]
    <3> HIDE DEF p
    <3>3. /\ Len(s.lines) \in Nat /\ Len(s.lines) >= 3 /\ s.body \in Nat
          /\ Len(Package(s, p)) = Len(s.lines) + s.body
      BY <3>2, PackageParts
    <3> QED
      BY <3>3
  <2> HIDE DEF l
  <2>5. Len(input') >= LowMark
    <3>1. LowMark \in Nat /\ Len(input') \in Nat
      BY <1>4, <1>10, Lengths
    <3> QED
      BY <2>3, <2>4, <3>1
  <2> QED
    BY <1>1, <2>5
<1>13. Segments'
  <2>1. offset' + Len(input') <= MaxBuffer
    BY <1>1, <1>4, <1>7, <1>10
  <2> QED
    BY <1>1, <1>8, <1>11, <1>12, <2>1 DEF Segments
<1>14. Memo'
  BY <1>1, <1>3 DEF Contents, Memo
<1>15. NothingLost'
  <2>1. ASSUME NEW p \in 1..Len(sent), WellFormed(sent[p]), sent[p].size > 0
        PROVE  Due(p)'
    <3>1. Due(p)
      BY <1>3, <2>1 DEF Contents, NothingLost
    <3>2. StartIn(input, 0, p) \/ StartIn(front, 0, p) => StartIn(input', 0, p)
      BY <1>1, <1>4, <1>5, <1>10, StartInCatenation
    <3> QED
      BY <1>1, <1>9, <3>1, <3>2 DEF Due
  <2> QED
    BY <1>1, <2>1 DEF NothingLost
<1> QED
  BY <1>13, <1>14, <1>15 DEF Contents

\* Making room moves nothing.
LEMMA PrepareCapacityWhole ==
  ASSUME IInv, WholeInv, PrepareCapacity, Calm'
  PROVE  Contents'
<1>1. /\ pc = "idle" /\ pc' = "read"
      /\ UNCHANGED segmented /\ UNCHANGED sent /\ UNCHANGED wire /\ UNCHANGED input
      /\ UNCHANGED withdrawn /\ UNCHANGED buffer /\ UNCHANGED offset /\ UNCHANGED headerGot
      /\ UNCHANGED size /\ UNCHANGED cursor /\ UNCHANGED executed
  BY DEF PrepareCapacity
<1>2. Contents
  BY <1>1 DEF WholeInv
<1>3. Segments' /\ Memo'
  BY <1>1, <1>2 DEF Contents, Segments, Memo
<1>4. NothingLost'
  BY <1>1, <1>2 DEF Contents, NothingLost, Due
<1> QED
  BY <1>3, <1>4 DEF Contents

\* All that has arrived fits into the memo, behind the scraps that it has kept.
LEMMA ReadMassageWhole ==
  ASSUME IInv, WholeInv, ReadMassage, Calm'
  PROVE  Contents'
<1> DEFINE n == Lesser(capacity - offset, Len(input))
<1>1. /\ pc = "read" /\ buffer' = SubSeq(buffer, 1, at) \o SubSeq(input, 1, n)
      /\ input' = SubSeq(input, n + 1, Len(input)) /\ cursor' = 0 /\ pc' = "parse"
      /\ UNCHANGED segmented /\ UNCHANGED sent /\ UNCHANGED wire /\ UNCHANGED withdrawn
      /\ UNCHANGED headerGot /\ UNCHANGED size /\ UNCHANGED executed
  BY DEF ReadMassage, Room
<1>2. Calm
  BY <1>1
<1>3. Contents
  BY <1>2 DEF WholeInv
<1>4. /\ buffer \in Seq(Cell) /\ input \in Seq(Cell) /\ Len(buffer) \in Nat /\ Len(input) \in Nat
      /\ offset \in Nat /\ capacity \in Nat /\ at = Len(buffer) /\ offset = at
      /\ capacity = MaxBuffer \/ at + Len(input) <= capacity
      /\ offset + Len(input) <= MaxBuffer
  <2>1. /\ buffer \in Seq(Cell) /\ input \in Seq(Cell) /\ offset \in Nat /\ capacity \in Nat
    BY DEF IInv, TypeOK
  <2>2. at = Len(buffer) /\ offset = at /\ (capacity = MaxBuffer \/ at + Len(input) <= capacity)
    BY <1>1, <1>2 DEF IInv, Kept, Reading
  <2>3. offset + Len(input) <= MaxBuffer
    BY <1>1, <1>3 DEF Contents, Segments
  <2> QED
    BY <2>1, <2>2, <2>3, LenProperties
<1>5. n = Len(input)
  <2>1. ~(capacity - offset < Len(input))
    BY <1>4
  <2> QED
    BY <2>1 DEF Lesser
<1> HIDE DEF n
<1>6. buffer' = buffer \o input /\ input' = <<>>
  <2>1. SubSeq(buffer, 1, at) = buffer /\ SubSeq(input, 1, n) = input
    BY <1>4, <1>5, SubSeqFull
  <2>2. SubSeq(input, Len(input) + 1, Len(input)) = <<>>
    BY <1>4, SubSeqEmpty
  <2> QED
    BY <1>1, <1>5, <2>1, <2>2
<1>7. /\ Len(buffer') = Len(buffer) + Len(input) /\ Len(buffer) \in 0..Len(buffer)
      /\ \A i \in 1..Len(buffer) : buffer'[i] = buffer[i]
  BY <1>4, <1>6, Catenation
<1>8. Whole(sent, buffer', Len(buffer))
  <2>1. \A x \in Cells(buffer) \cup Cells(input) : Len(Package(sent[x.pkg], x.pkg)) \in Nat
    BY <1>2, CellsKnown DEF Known
  <2>2. Whole(sent, input, 0)
    BY <1>3 DEF Contents, Segments
  <2>3. Whole(sent, buffer, Len(buffer))
    BY <1>4 DEF Whole
  <2> QED
    BY <1>4, <1>6, <1>7, <2>1, <2>2, <2>3, WholeCatenation
<1>9. Scraps(buffer', 0, Len(buffer))
  <2>1. Scraps(buffer, 0, Len(buffer))
    BY <1>1, <1>3 DEF Contents, Memo
  <2> QED
    BY <1>7, <2>1 DEF Scraps
<1>10. Segments'
  <2>1. Whole(sent, <<>>, 0)
    BY DEF Whole
  <2> QED
    BY <1>1, <1>3, <1>6, <2>1 DEF Contents, Segments
<1>11. Memo'
  <2>1. Len(buffer) \in 0..Len(buffer')
    BY <1>4, <1>7
  <2>2. ~headerGot
    BY <1>1, <1>3 DEF Contents, Memo
  <2> QED
    BY <1>1, <1>8, <1>9, <2>1, <2>2 DEF Memo
<1>12. NothingLost'
  <2>1. ASSUME NEW p \in 1..Len(sent), WellFormed(sent[p]), sent[p].size > 0
        PROVE  Due(p)'
    <3>1. Due(p)
      BY <1>3, <2>1 DEF Contents, NothingLost
    <3>2. StartIn(input, 0, p) => StartIn(buffer', 0, p)
      <4>1. 0 \in 0..Len(buffer)
        BY <1>4
      <4> QED
        BY <1>4, <1>6, <4>1, StartInCatenation
    <3> QED
      BY <1>1, <3>1, <3>2 DEF Due
  <2> QED
    BY <1>1, <2>1 DEF NothingLost
<1> QED
  BY <1>10, <1>11, <1>12 DEF Contents

\* The end of a header is not among scraps.
LEMMA ScrapsHaveNoEnd ==
  ASSUME NEW b \in Nat, cursor \in Nat, length \in Nat, cursor <= b, HeaderEnd > 0,
         Scraps(buffer, cursor, b)
  PROVE  b < length
<1>1. HeaderEnd \in (cursor + 1)..length /\ HeaderEnd \in Lines("end", cursor)
  <2>1. Lines("end", cursor) # {}
    BY DEF HeaderEnd, FirstLine
  <2>2. HeaderEnd = Min(Lines("end", cursor)) /\ Lines("end", cursor) \in SUBSET Nat
    BY <2>1 DEF HeaderEnd, FirstLine, Lines
  <2>3. HeaderEnd \in Lines("end", cursor)
    BY <2>1, <2>2, MinOfNumbers
  <2> QED
    BY <2>3 DEF Lines
<1>2. HeaderEnd \notin (cursor + 1)..b
  BY <1>1 DEF Lines, Scraps
<1> QED
  BY <1>1, <1>2

\* What ParseStep leaves alone, and that nothing is unread while it runs.
LEMMA ParseFrame ==
  ASSUME IInv, WholeInv, ParseStep, Calm'
  PROVE  /\ UNCHANGED segmented /\ UNCHANGED sent /\ UNCHANGED wire /\ UNCHANGED input
         /\ UNCHANGED withdrawn /\ UNCHANGED buffer /\ UNCHANGED offset /\ UNCHANGED length
         /\ Calm /\ Contents /\ pc \in {"parse", "body"} /\ pc' \in Parsing
         /\ length = Len(buffer) /\ Len(buffer) \in Nat /\ cursor \in Nat /\ cursor <= length
         /\ cursor' \in Nat /\ cursor <= cursor' /\ cursor' <= length
         /\ Segments'
<1>1. /\ UNCHANGED segmented /\ UNCHANGED sent /\ UNCHANGED wire /\ UNCHANGED input
      /\ UNCHANGED withdrawn /\ UNCHANGED buffer /\ UNCHANGED offset /\ UNCHANGED length
  BY DEF ParseStep
<1>2. Calm /\ Contents
  BY <1>1 DEF WholeInv
<1>3. pc \in {"parse", "body"} /\ pc' \in Parsing /\ cursor \in Nat /\ cursor <= cursor' /\ cursor' <= length
      /\ cursor' \in Nat
  BY ParseMoves
<1>4. length = Len(buffer) /\ cursor <= length
  BY <1>2, <1>3 DEF IInv, Kept
<1>5. Len(buffer) \in Nat
  BY LenProperties DEF IInv, TypeOK
<1>6. Segments'
  BY <1>1, <1>2, <1>3 DEF Contents, Segments
<1> QED
  BY <1>1, <1>2, <1>3, <1>4, <1>5, <1>6

\* Without the end of a header there are scraps only, of which some may be skipped.
LEMMA HeaderMissingWhole ==
  ASSUME IInv, WholeInv, ParseStep, HeaderMissing, Calm'
  PROVE  Contents'
<1>1. /\ pc = "parse" /\ HeaderEnd = 0 /\ pc' = "drain"
      /\ UNCHANGED headerGot /\ UNCHANGED size /\ UNCHANGED executed
  BY DEF HeaderMissing, InHeader
<1>2. PICK b \in cursor..Len(buffer) : Scraps(buffer, cursor, b) /\ Whole(sent, buffer, b)
  BY <1>1, ParseFrame DEF Contents, Memo
<1>3. cursor \in Nat /\ Len(buffer) \in Nat /\ b \in Nat /\ cursor <= b /\ cursor' \in Nat /\ cursor <= cursor'
  BY <1>2, ParseFrame
<1>4. b = Len(buffer)
  <2>1. CASE b < Len(buffer)
    <3> DEFINE n == Len(sent[buffer[b + 1].pkg].lines)
    <3>1. n \in Nat /\ n >= 3 /\ HeaderEnd = b + n
      BY <1>1, <1>2, <1>3, <2>1, ParseFrame, FirstPackage
    <3> HIDE DEF n
    <3> QED
      BY <1>1, <1>3, <3>1
  <2> QED
    BY <1>2, <1>3, <2>1
<1>5. Scraps(buffer, cursor', Len(buffer))
  <2> SUFFICES ASSUME NEW i \in (cursor' + 1)..Len(buffer)
               PROVE  buffer[i].kind = "body"
    BY DEF Scraps
  <2>1. i \in (cursor + 1)..Len(buffer)
    <3>1. \A c, d, e \in Nat : c <= d => (d + 1)..e \subseteq (c + 1)..e
      OBVIOUS
    <3> QED
      BY <1>3, <3>1
  <2> QED
    BY <1>2, <1>4, <2>1 DEF Scraps
<1>6. Memo'
  BY <1>1, <1>5, ParseFrame DEF Contents, Memo
<1>7. \A q : ~StartIn(buffer, cursor, q)
  BY <1>2, <1>4 DEF Scraps, StartIn
<1>8. NothingLost'
  BY <1>1, <1>7, ParseFrame DEF Contents, NothingLost, Due
<1> QED
  BY <1>6, <1>8, ParseFrame DEF Contents

\* An illegal header is skipped: the body behind it remains as scraps.
LEMMA HeaderIllegalWhole ==
  ASSUME IInv, WholeInv, ParseStep, HeaderIllegal, Calm'
  PROVE  Contents'
<1>1. /\ pc = "parse" /\ HeaderEnd > 0 /\ ~LegalHeader /\ pc' = "parse" /\ cursor' = HeaderEnd
      /\ UNCHANGED headerGot /\ UNCHANGED size /\ UNCHANGED executed
  BY DEF HeaderIllegal, InHeader, AfterIllegal
<1>2. PICK b \in cursor..Len(buffer) : Scraps(buffer, cursor, b) /\ Whole(sent, buffer, b)
  BY <1>1, ParseFrame DEF Contents, Memo
<1>3. cursor \in Nat /\ Len(buffer) \in Nat /\ b \in Nat /\ cursor <= b
  BY <1>2, ParseFrame
<1>4. b < Len(buffer)
  BY <1>1, <1>2, <1>3, ScrapsHaveNoEnd, ParseFrame
<1> DEFINE p == buffer[b + 1].pkg
           n == Len(sent[p].lines)
           l == sent[p].body
<1>5. /\ p \in 1..Len(sent) /\ n \in Nat /\ n >= 3 /\ l \in Nat /\ b + n + l <= Len(buffer)
      /\ HeaderEnd = b + n /\ (LegalHeader <=> n = 3) /\ (n # 3 => ~WellFormed(sent[p]))
      /\ Scraps(buffer, b + n, b + n + l) /\ Whole(sent, buffer, b + n + l)
      /\ \A q : StartIn(buffer, cursor, q) => q = p \/ StartIn(buffer, b + n + l, q)
  BY <1>1, <1>2, <1>3, <1>4, ParseFrame, FirstPackage
<1> HIDE DEF p, n, l
<1>6. cursor' = b + n /\ b + n + l \in (b + n)..Len(buffer) /\ ~WellFormed(sent[p])
  BY <1>1, <1>3, <1>5
<1>7. Memo'
  BY <1>1, <1>5, <1>6, ParseFrame DEF Contents, Memo
<1>8. NothingLost'
  <2>1. ASSUME NEW q \in 1..Len(sent), WellFormed(sent[q]), sent[q].size > 0
        PROVE  Due(q)'
    <3>1. Due(q)
      BY <2>1, ParseFrame DEF Contents, NothingLost
    <3>2. StartIn(buffer, cursor, q) => StartIn(buffer, cursor', q)
      <4>1. q # p
        BY <1>6, <2>1
      <4>2. StartIn(buffer, b + n + l, q) => StartIn(buffer, b + n, q)
        <5>1. \A i \in (b + n + l + 1)..Len(buffer) : i \in (b + n + 1)..Len(buffer)
          BY <1>3, <1>5
        <5> QED
          BY <5>1 DEF StartIn
      <4> QED
        BY <1>5, <1>6, <4>1, <4>2
    <3> QED
      BY <1>1, <3>1, <3>2, ParseFrame DEF Due
  <2> QED
    BY <2>1, ParseFrame DEF NothingLost
<1> QED
  BY <1>7, <1>8, ParseFrame DEF Contents

\* Behind a legal header the memo has the whole body.
LEMMA HeaderFoundWhole ==
  ASSUME IInv, WholeInv, ParseStep, HeaderFound, Calm'
  PROVE  Contents'
<1>1. /\ pc = "parse" /\ HeaderEnd > 0 /\ LegalHeader /\ pc' = "body" /\ cursor' = HeaderEnd
      /\ size' = buffer[SizeLine].num /\ UNCHANGED executed
  BY DEF HeaderFound, InHeader
<1>2. PICK b \in cursor..Len(buffer) : Scraps(buffer, cursor, b) /\ Whole(sent, buffer, b)
  BY <1>1, ParseFrame DEF Contents, Memo
<1>3. cursor \in Nat /\ Len(buffer) \in Nat /\ b \in Nat /\ cursor <= b
  BY <1>2, ParseFrame
<1>4. b < Len(buffer)
  BY <1>1, <1>2, <1>3, ScrapsHaveNoEnd, ParseFrame
<1> DEFINE p == buffer[b + 1].pkg
           n == Len(sent[p].lines)
           l == sent[p].body
<1>5. /\ p \in 1..Len(sent) /\ n \in Nat /\ n >= 3 /\ l \in Nat /\ b + n + l <= Len(buffer)
      /\ HeaderEnd = b + n /\ SizeLine = b + 2 /\ buffer[b + 2].num = l
      /\ \A i \in 1..l : buffer[b + n + i] = Body(sent[p], p)[i]
      /\ Whole(sent, buffer, b + n + l)
      /\ \A q : StartIn(buffer, cursor, q) => q = p \/ StartIn(buffer, b + n + l, q)
  BY <1>1, <1>2, <1>3, <1>4, ParseFrame, FirstPackage
<1>6. cursor' = b + n /\ size' = l
  BY <1>1, <1>5
<1>7. PICK d \in 1..Len(sent) : d = p
  BY <1>5
<1>8. BodyAt(d)'
  <2>1. UNCHANGED sent /\ UNCHANGED buffer
    BY ParseFrame
  <2>2. /\ size' = sent[d].body /\ cursor' + size' <= Len(buffer)
        /\ \A i \in 1..size' : buffer[cursor' + i] = Body(sent[d], d)[i]
    BY <1>5, <1>6, <1>7
  <2> QED
    BY <2>1, <2>2 DEF BodyAt
<1> HIDE DEF p, n, l
<1>9. cursor' + size' = b + n + l /\ UNCHANGED buffer /\ UNCHANGED sent /\ pc' = "body"
  BY <1>1, <1>6, ParseFrame
<1>10. Memo'
  <2>1. Whole(sent', buffer', cursor' + size')
    BY <1>5, <1>9
  <2>2. \E q \in 1..Len(sent') : BodyAt(q)'
    BY <1>5, <1>8, <1>9
  <2> QED
    BY <1>9, <2>1, <2>2 DEF Memo
<1>11. NothingLost'
  <2>1. ASSUME NEW q \in 1..Len(sent), Due(q)
        PROVE  Due(q)'
    <3>1. StartIn(buffer, cursor, q) => q = d \/ StartIn(buffer', cursor' + size', q)
      BY <1>5, <1>7, <1>9
    <3>2. q = d => BodyAt(q)'
      BY <1>8
    <3>3. UNCHANGED executed /\ UNCHANGED wire /\ UNCHANGED input /\ pc = "parse"
      BY <1>1, ParseFrame
    <3> QED
      BY <1>9, <2>1, <3>1, <3>2, <3>3 DEF Due
  <2> QED
    BY <2>1, ParseFrame DEF Contents, NothingLost
<1> QED
  BY <1>10, <1>11, ParseFrame DEF Contents

\* Where a header has been found, its whole body follows.
LEMMA BodyIsThere ==
  ASSUME IInv, Calm, Contents, pc = "body"
  PROVE  size \in Nat /\ cursor \in Nat /\ Len(buffer) \in Nat /\ cursor + size <= Len(buffer)
         /\ BodyComplete
<1>1. PICK p \in 1..Len(sent) : BodyAt(p)
  BY DEF Contents, Memo
<1>2. size \in Nat
  <2>1. sent \in Seq(Shape)
    BY DEF IInv, TypeOK
  <2>2. sent[p] \in Shape
    BY <2>1, ElementOfSeq
  <2> QED
    BY <1>1, <2>2, ShapeFields DEF BodyAt
<1>3. cursor \in Nat /\ Len(buffer) \in Nat
  BY LenProperties DEF IInv, TypeOK
<1>4. cursor + size <= Len(buffer)
  BY <1>1 DEF BodyAt
<1>5. length = Len(buffer)
  BY DEF IInv, Kept
<1>6. size >= 0 /\ size <= length - cursor
  BY <1>2, <1>3, <1>4, <1>5
<1> QED
  BY <1>2, <1>3, <1>4, <1>6 DEF BodyComplete

\* ParseCommand finds the command of a body that the memo has, and Dispatch executes it.
LEMMA BodyExecuted ==
  ASSUME IInv, Calm, Contents, Dispatch, pc = "body",
         NEW p \in 1..Len(sent), BodyAt(p), sent[p].size > 0, sent[p].size = sent[p].body
  PROVE  \E i \in 1..Len(executed') : executed'[i] = p
<1> DEFINE text == SubSeq(buffer, cursor + 1, cursor + size)
           body == Body(sent[p], p)
<1>1. /\ sent \in Seq(Shape) /\ buffer \in Seq(Cell) /\ executed \in Seq(1..MaxPackages)
      /\ Len(sent) \in Nat /\ Len(sent) <= MaxPackages
  BY LenProperties DEF IInv, TypeOK
<1>2. /\ size \in Nat /\ cursor \in Nat /\ Len(buffer) \in Nat /\ cursor + size <= Len(buffer)
      /\ size > 0
  <2>1. size = sent[p].body
    BY DEF BodyAt
  <2> QED
    BY <2>1, BodyIsThere
<1>3. p \in 1..MaxPackages
  BY <1>1, ShapeAssumption
<1>4. body \in Seq(Cell) /\ Len(body) = size /\ \A i \in 1..size : body[i].kind = "body" /\ body[i].pkg = p
  <2>1. \A i \in 1..size : [kind |-> "body", num |-> i, pkg |-> p] \in Cell
    BY <1>2, <1>3 DEF Cell
  <2>2. body = [i \in 1..size |-> [kind |-> "body", num |-> i, pkg |-> p]]
    BY DEF Body, BodyAt
  <2> HIDE DEF body
  <2> QED
    BY <1>2, <2>1, <2>2
<1>5. text \in Seq(Cell) /\ Len(text) = size /\ \A i \in 1..size : text[i] = buffer[cursor + i]
  <2>1. cursor + 1 \in Nat \ {0} /\ cursor + size \in 0..Len(buffer) /\ cursor + 1 <= cursor + size
        /\ (cursor + size) - (cursor + 1) + 1 = size
        /\ \A i \in 1..size : i + (cursor + 1) - 1 = cursor + i
    BY <1>2
  <2>2. /\ text \in Seq(Cell) /\ Len(text) = (cursor + size) - (cursor + 1) + 1
        /\ \A i \in 1..Len(text) : text[i] = buffer[i + (cursor + 1) - 1]
    BY <1>1, <2>1, Part
  <2> QED
    BY <2>1, <2>2
<1>6. \A i \in 1..size : buffer[cursor + i] = body[i]
  BY DEF BodyAt
<1>7. /\ executed' = IF HoldsCommand(text) THEN Append(executed, text[1].pkg) ELSE executed
  BY DEF Dispatch
<1> HIDE DEF text, body
<1>8. text = body
  BY <1>4, <1>5, <1>6, SeqEqual
<1>9. text[1].kind = "body" /\ text[1].pkg = p /\ text # <<>>
  <2>1. 1 \in 1..size
    BY <1>2
  <2> QED
    BY <1>4, <1>8, <2>1, EmptySeq
<1>10. SubSeq(text, 1, Len(body)) = body
  BY <1>4, <1>8, SubSeqFull
<1>11. HoldsCommand(text)
  <2>1. Len(body) <= Len(text)
    BY <1>2, <1>4, <1>8
  <2> QED
    BY <1>9, <1>10, <2>1 DEF HoldsCommand, body
<1>12. executed' = Append(executed, p)
  BY <1>7, <1>9, <1>11
<1>13. Len(executed') = Len(executed) + 1 /\ executed'[Len(executed) + 1] = p /\ Len(executed) \in Nat
  BY <1>1, <1>3, <1>12, AppendProperties, LenProperties
<1>14. Len(executed) + 1 \in 1..Len(executed')
  BY <1>13
<1> QED
  BY <1>13, <1>14

\* A body is executed, and the next package follows it.
LEMMA DispatchWhole ==
  ASSUME IInv, WholeInv, ParseStep, Dispatch, Calm'
  PROVE  Contents'
<1>1. /\ pc = "body" /\ pc' = "parse" /\ cursor' = cursor + size /\ headerGot' = FALSE
  <2>1. pc # "body" => ~headerGot
    BY ParseFrame DEF Contents, Memo
  <2> QED
    BY <2>1 DEF Dispatch, InBody
<1>2. /\ size \in Nat /\ cursor \in Nat /\ Len(buffer) \in Nat /\ cursor + size <= Len(buffer)
  BY <1>1, ParseFrame, BodyIsThere
<1>3. Memo'
  <2>1. cursor' \in cursor'..Len(buffer)
    BY <1>1, <1>2
  <2>2. Scraps(buffer, cursor', cursor')
    <3>1. \A c \in Nat : (c + 1)..c = {}
      OBVIOUS
    <3>2. cursor' \in Nat
      BY <1>1, <1>2
    <3> QED
      BY <3>1, <3>2 DEF Scraps
  <2>3. Whole(sent, buffer, cursor')
    BY <1>1, ParseFrame DEF Contents, Memo
  <2> QED
    BY <1>1, <2>1, <2>2, <2>3, ParseFrame DEF Memo
<1>4. NothingLost'
  <2>1. ASSUME NEW q \in 1..Len(sent), WellFormed(sent[q]), sent[q].size > 0
        PROVE  Due(q)'
    <3>1. Due(q)
      BY <2>1, ParseFrame DEF Contents, NothingLost
    <3>2. CASE \E i \in 1..Len(executed) : executed[i] = q
      <4>1. executed' = executed \/ \E x \in 1..MaxPackages : executed' = Append(executed, x)
        <5>1. CASE UNCHANGED executed
          BY <5>1
        <5>2. CASE /\ cursor + 1 \in 1..Len(buffer)
                   /\ executed' = Append(executed, buffer[cursor + 1].pkg)
          <6>1. buffer[cursor + 1] \in Cells(buffer) /\ buffer \in Seq(Cell)
            BY <5>2 DEF Cells, IInv, TypeOK
          <6> QED
            BY <5>2, <6>1, CellTypes
        <5> QED
          BY <5>1, <5>2, Commands
      <4>2. executed \in Seq(1..MaxPackages)
        BY DEF IInv, TypeOK
      <4>3. \A i \in 1..Len(executed) : i \in 1..Len(executed') /\ executed'[i] = executed[i]
        BY <4>1, <4>2, AppendProperties, LenProperties
      <4> QED
        BY <3>2, <4>3 DEF Due
    <3>3. CASE BodyAt(q)
      <4>1. sent[q].size = sent[q].body
        BY <2>1 DEF WellFormed
      <4>2. \E i \in 1..Len(executed') : executed'[i] = q
        BY <1>1, <2>1, <3>3, <4>1, ParseFrame, BodyExecuted
      <4> QED
        BY <4>2 DEF Due
    <3>4. CASE StartIn(wire, 0, q) \/ StartIn(input, 0, q) \/ StartIn(buffer, cursor + size, q)
      BY <1>1, <3>4, ParseFrame DEF Due
    <3> QED
      BY <1>1, <3>1, <3>2, <3>3, <3>4 DEF Due
  <2> QED
    BY <2>1, ParseFrame DEF NothingLost
<1> QED
  BY <1>3, <1>4, ParseFrame DEF Contents

\* Whichever way the loop takes, it leaves no command behind.
LEMMA ParseWhole ==
  ASSUME IInv, WholeInv, ParseStep, Calm'
  PROVE  Contents'
<1>1. CASE HeaderMissing
  BY <1>1, HeaderMissingWhole
<1>2. CASE HeaderIllegal
  BY <1>2, HeaderIllegalWhole
<1>3. CASE HeaderFound
  BY <1>3, HeaderFoundWhole
<1>4. CASE Dispatch
  BY <1>4, DispatchWhole
<1>5. CASE BodyTooLong \/ BodyIncomplete
  <2>1. InBody /\ ~BodyComplete
    BY <1>5 DEF BodyTooLong, BodyIncomplete
  <2>2. pc = "body"
    BY <2>1, ParseFrame DEF Contents, Memo, InBody
  <2> QED
    BY <2>1, <2>2, ParseFrame, BodyIsThere
<1>6. CASE ParsedAll
  <2>1. /\ pc = "parse" /\ cursor >= length /\ pc' = "drain"
        /\ UNCHANGED cursor /\ UNCHANGED headerGot /\ UNCHANGED size /\ UNCHANGED executed
    BY <1>6 DEF ParsedAll
  <2>2. (cursor + 1)..Len(buffer) = {}
    <3>1. \A c, l \in Nat : c >= l => (c + 1)..l = {}
      OBVIOUS
    <3> QED
      BY <2>1, <3>1, ParseFrame
  <2>3. Scraps(buffer, cursor, Len(buffer)) /\ \A q : ~StartIn(buffer, cursor, q)
    BY <2>2 DEF Scraps, StartIn
  <2>4. Memo'
    BY <2>1, <2>3, ParseFrame DEF Contents, Memo
  <2>5. NothingLost'
    BY <2>1, <2>3, ParseFrame DEF Contents, NothingLost, Due
  <2> QED
    BY <2>4, <2>5, ParseFrame DEF Contents
<1> QED
  BY <1>1, <1>2, <1>3, <1>4, <1>5, <1>6 DEF ParseStep

\* Drain removes or keeps scraps.
LEMMA DrainWhole ==
  ASSUME IInv, WholeInv, DrainStep, Calm'
  PROVE  Contents'
<1>1. /\ UNCHANGED segmented /\ UNCHANGED sent /\ UNCHANGED wire /\ UNCHANGED input
      /\ UNCHANGED withdrawn /\ UNCHANGED headerGot /\ UNCHANGED size /\ UNCHANGED cursor
      /\ UNCHANGED executed /\ pc \in {"drain", "subtract"}
      /\ pc' \in {"idle", "subtract", "crashed"}
  BY DEF DrainStep, DrainAll, DrainSome, Subtract
<1>2. Contents
  BY <1>1 DEF WholeInv
<1>3. /\ input = <<>> /\ ~headerGot /\ Scraps(buffer, cursor, Len(buffer))
  BY <1>1, <1>2 DEF Contents, Segments, Memo
<1>4. NothingLost'
  BY <1>1, <1>2 DEF Contents, NothingLost, Due
<1>5. /\ buffer \in Seq(Cell) /\ Len(buffer) \in Nat /\ cursor \in Nat /\ offset \in Nat
      /\ offset < Word /\ offset <= MaxBuffer
  <2>1. buffer \in Seq(Cell) /\ cursor \in Nat /\ offset \in 0..(Word - 1) /\ capacity \in Nat
    BY DEF IInv, TypeOK
  <2>2. offset <= capacity /\ capacity <= MaxBuffer
    BY <1>1 DEF IInv, Kept
  <2> QED
    BY <2>1, <2>2, Lengths, LenProperties
<1>6. CASE DrainAll
  <2>1. pc' = "idle" /\ offset' = 0 /\ buffer' = <<>>
    BY <1>6 DEF DrainAll
  <2>2. Segments'
    BY <1>1, <1>2, <1>3, <2>1, Lengths DEF Contents, Segments
  <2>3. Memo'
    BY <1>1, <1>3, <2>1 DEF Memo, Scraps
  <2> QED
    BY <1>4, <2>2, <2>3 DEF Contents
<1>7. CASE DrainSome
  <2>1. pc' = "subtract" /\ UNCHANGED offset /\ UNCHANGED buffer
    BY <1>7 DEF DrainSome
  <2>2. Segments' /\ Memo'
    BY <1>1, <1>2, <1>3, <2>1 DEF Contents, Segments, Memo
  <2> QED
    BY <1>4, <2>2 DEF Contents
<1>8. CASE Subtract
  <2>1. /\ pc = "subtract" /\ length = Len(buffer) /\ offset = length
        /\ cursor \in 1..length /\ cursor \in Nat \ {0}
    BY <1>1, <1>5, <1>8 DEF Subtract, IInv, Kept
  <2>2. /\ pc' = "idle" /\ buffer' \in Moved(cursor, offset') /\ cursor + offset' = Len(buffer)
        /\ offset' <= MaxBuffer /\ offset' \in Nat
    <3>1. offset - cursor \in Int /\ 0 <= offset - cursor /\ offset - cursor < Word /\ Word \in Nat \ {0}
      BY <1>5, <2>1, Lengths
    <3>2. offset' = offset - cursor
      <4>1. offset' = (offset - cursor) % Word
        BY <1>8, <2>1 DEF Subtract
      <4> QED
        BY <3>1, <4>1, Remainder
    <3>3. cursor + offset' = Len(buffer) /\ offset' <= MaxBuffer /\ offset' \in Nat
      BY <1>5, <2>1, <3>2, Lengths
    <3>4. cursor + offset' <= Len(buffer)
      BY <1>5, <3>3
    <3> QED
      BY <1>8, <3>3, <3>4 DEF Subtract
  <2>3. Segments'
    <3>1. Len(input) = 0
      BY <1>3
    <3>2. offset' + Len(input) <= MaxBuffer
      <4>1. \A o \in Nat : o + 0 = o
        OBVIOUS
      <4> QED
        BY <2>2, <3>1, <4>1
    <3> QED
      BY <1>1, <1>2, <1>3, <2>2, <3>2 DEF Contents, Segments
  <2>4. Scraps(buffer', 0, Len(buffer'))
    <3>1. cursor + offset' <= Len(buffer)
      BY <1>5, <2>2
    <3>2. /\ Len(buffer') = offset'
          /\ \A i \in 1..offset' : \E j \in (cursor + 1)..Len(buffer) : buffer'[i] = buffer[j]
      BY <1>5, <2>1, <2>2, <3>1, MovedCells
    <3> QED
      BY <1>3, <2>2, <3>2 DEF Scraps
  <2>5. Memo'
    BY <1>1, <1>3, <2>2, <2>4 DEF Memo
  <2> QED
    BY <1>4, <2>3, <2>5 DEF Contents
<1> QED
  BY <1>6, <1>7, <1>8 DEF DrainStep

-----------------------------------------------------------------------------
(* The invariant and the property *)

LEMMA InitWholeInv ==
  ASSUME Init
  PROVE  WholeInv
<1>1. /\ sent = <<>> /\ wire = <<>> /\ input = <<>> /\ buffer = <<>>
      /\ offset = 0 /\ pc = "idle" /\ headerGot = FALSE
  BY DEF Init
<1>2. Segments
  BY <1>1, Lengths DEF Segments, Whole
<1>3. Memo
  BY <1>1 DEF Memo, Scraps
<1>4. NothingLost
  BY <1>1 DEF NothingLost
<1> QED
  BY <1>2, <1>3, <1>4 DEF WholeInv, Contents

LEMMA StepWholeInv ==
  ASSUME IInv, WholeInv, [Next]_vars, LowMark <= 3
  PROVE  WholeInv'
<1> SUFFICES ASSUME Calm'
             PROVE  Contents'
  BY DEF WholeInv
<1>1. ASSUME NEW s \in Shape, Send(s)
      PROVE  Contents'
  BY <1>1, SendWhole
<1>2. ASSUME NEW n \in 1..Len(wire), Arrive(n)
      PROVE  Contents'
  BY <1>2, ArriveWhole
<1>3. CASE PrepareCapacity
  BY <1>3, PrepareCapacityWhole
<1>4. CASE ReadMassage
  BY <1>4, ReadMassageWhole
<1>5. CASE ParseStep
  BY <1>5, ParseWhole
<1>6. CASE DrainStep
  BY <1>6, DrainWhole
<1>7. CASE WithdrawDiplomat
  BY <1>7 DEF WithdrawDiplomat
<1>8. CASE UNCHANGED vars
  <2>1. /\ UNCHANGED segmented /\ UNCHANGED sent /\ UNCHANGED wire /\ UNCHANGED input
        /\ UNCHANGED pending /\ UNCHANGED withdrawn /\ UNCHANGED buffer /\ UNCHANGED offset
        /\ UNCHANGED headerGot /\ UNCHANGED size /\ UNCHANGED pc /\ UNCHANGED cursor
        /\ UNCHANGED executed
    BY <1>8 DEF vars
  <2>2. Contents
    BY <2>1 DEF WholeInv
  <2>3. Segments'
    BY <2>1, <2>2 DEF Contents, Segments
  <2>4. Memo'
    BY <2>1, <2>2 DEF Contents, Memo, BodyAt
  <2>5. NothingLost'
    BY <2>1, <2>2 DEF Contents, NothingLost, Due, BodyAt
  <2> QED
    BY <2>3, <2>4, <2>5 DEF Contents
<1> QED
  BY <1>1, <1>2, <1>3, <1>4, <1>5, <1>6, <1>7, <1>8 DEF Next, RecvSomething, Closed

\* When segments are whole packages and every header is well-formed but for the number of
\* its sizes, nothing that has arrived is left unread, and every well-formed command among
\* it is executed: illegal headers cost nobody but themselves, for any lengths and any
\* number of packages, and whichever way memcpy copies.  The lines of a header reach the low watermark: their keywords and
\* ends alone are 42 characters, and the watermark is 40.
THEOREM WholePackagesAreServed ==
  ASSUME LowMark <= 3
  PROVE  Spec => []WholePackagesServed
<1>1. Init => WholeInv
  BY InitWholeInv
<1>2. IInv /\ WholeInv /\ [Next]_vars => WholeInv'
  BY StepWholeInv
<1>3. WholeInv => WholePackagesServed
  <2> SUFFICES ASSUME WholeInv, Idle, ~segmented, \A p \in 1..Len(sent) : Sound(sent[p])
               PROVE  /\ input = <<>>
                      /\ \A p \in 1..Len(sent) :
                           WellFormed(sent[p]) /\ sent[p].size > 0
                             /\ (\A i \in 1..Len(wire) : wire[i].pkg # p)
                             => \E i \in 1..Len(executed) : executed[i] = p
    BY DEF WholePackagesServed
  <2>1. pc = "idle" /\ ~pending /\ Contents
    BY DEF Idle, WholeInv
  <2>2. input = <<>>
    BY <2>1 DEF Contents, Segments
  <2>3. ASSUME NEW p \in 1..Len(sent), WellFormed(sent[p]), sent[p].size > 0,
               \A i \in 1..Len(wire) : wire[i].pkg # p
        PROVE  \E i \in 1..Len(executed) : executed[i] = p
    <3>1. Due(p)
      BY <2>1, <2>3 DEF Contents, NothingLost
    <3>2. ~StartIn(wire, 0, p) /\ ~StartIn(input, 0, p)
      BY <2>2, <2>3 DEF StartIn
    <3> QED
      BY <2>1, <3>1, <3>2 DEF Due
  <2> QED
    BY <2>2, <2>3
<1> QED
  BY <1>1, <1>2, <1>3, InvariantHolds, PTL DEF Spec
=============================================================================
