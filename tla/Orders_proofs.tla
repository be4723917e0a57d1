--------------------------- MODULE Orders_proofs ---------------------------
(***************************************************************************)
(* Proofs of Orders' safety properties for any loops, application threads, *)
(* connections and packages.                                               *)
(***************************************************************************)
EXTENDS Orders, WellFoundedInduction, TLAPS

(***************************************************************************)
(* The inductive invariant.  A loop with a connection is the only one that *)
(* answers on it, and what has been answered ends where the loop is in the *)
(* last package.                                                           *)
(***************************************************************************)

Sending == {"id", "speek", "count"}

\* The children of a package that get a command executed once the server runs.
Commands(p) ==
  {i \in 1..Len(p) : /\ \E j \in 1..i : p[j].tag = "method"
                     /\ WellFormed(p[i]) /\ p[i].name = "Echo"}

\* What the package's child i deserves.
Result(e) == IF e.params = "echo" THEN "true" ELSE "false"

\* Nobody works before Start has filled s_cmds and started the threads.
Running ==
  /\ cmds = (IF mainPc = "embassy" THEN {} ELSE {"Echo"})
  /\ \A a \in Actor : pc[a] # "idle" => mainPc = "main"

\* A loop has a connection of its own from Serve to ParsedAll, an application thread
\* from Push on.
Places ==
  /\ \A l \in Loop : IF pc[l] = "idle" THEN diplomat[l] = None /\ at[l] = 0
                     ELSE /\ diplomat[l] \in Conn /\ BaseOf[diplomat[l]] = l
                          /\ received[diplomat[l]] # <<>>
  /\ \A a \in App : pc[a] # "child" /\ (pc[a] # "idle" => diplomat[a] \in Conn)

\* An order that is being sent is the answer to the command that the loop has come to.
OrdersRight ==
  /\ \A l \in Loop : pc[l] \in Sending =>
       at[l] \in Commands(Current(l)) /\ order[l] = Result(Current(l)[at[l]])
  /\ \A a \in App : pc[a] \in Sending => order[a] = "push"

\* Who counts an order holds _mutex_speek, and has read what the counter still says.
Speaking ==
  /\ \A a \in Actor, c \in Conn : speeker[c] = a <=> pc[a] = "count" /\ diplomat[a] = c
  /\ \A a \in Actor : pc[a] = "count" =>
       tmp[a] = sendCnt[diplomat[a]] /\ Len(out[diplomat[a]]) = tmp[a] + 1

\* No answer is ahead of the loop.
Behind ==
  \A c \in Conn : \A n \in 1..Len(out[c]) :
    LET x == out[c][n].cmd IN x # None =>
      /\ x[1] <= Len(received[c])
      /\ x[1] = Len(received[c]) => \A l \in Loop : diplomat[l] = c =>
           x[2] < at[l] \/ (x[2] = at[l] /\ pc[l] \in {"child", "count"})

Answered(c, p, i) ==
  (\E r \in ToSet(out[c]) : r.cmd = <<p, i>>) \/ (\E x \in lost : x[1] = c /\ x[2].cmd = <<p, i>>)

\* Everything behind the loop is answered or lost.
Complete ==
  \A c \in Conn : \A p \in 1..Len(received[c]) : \A i \in Commands(received[c][p]) :
    (p = Len(received[c]) => \A l \in Loop : diplomat[l] = c =>
                               i < at[l] \/ (i = at[l] /\ pc[l] \in {"child", "count"}))
    => Answered(c, p, i)

IInv ==
  /\ TypeOK
  /\ Running
  /\ Places
  /\ OrdersRight
  /\ Speaking
  /\ SendCntRight
  /\ AnswersMatch
  /\ Behind
  /\ AnsweredInOrder
  /\ Complete

USE ActorAssumption
USE DEF Actor, Sending, startVars, parseVars, speekVars, Home, Goto, Dip, ThreadsRun

-----------------------------------------------------------------------------
(* Lemmas about the model's operators *)

\* A set of numbers that is not empty has a least element.
LEMMA MinOfNumbers ==
  ASSUME NEW S \in SUBSET Nat, S # {}
  PROVE  Min(S) \in S /\ \A n \in S : Min(S) <= n
<1> DEFINE Less == OpToRel(<, Nat)
<1>1. IsWellFoundedOn(Less, Nat)
  BY NatLessThanWellFounded DEF OpToRel
<1> HIDE DEF Less
<1>2. PICK m \in S : \A n \in S : ~(<<n, m>> \in Less)
  BY <1>1, WFMin
<1>3. \A n \in S : m <= n
  <2> TAKE n \in S
  <2>1. ~(n < m)
    BY <1>2 DEF Less, OpToRel
  <2> QED
    BY <2>1
<1> QED
  BY <1>3 DEF Min

\* A package is a sequence of elements.
LEMMA PackageTypes ==
  ASSUME TypeOK, NEW c \in Conn, NEW n \in 1..Len(received[c])
  PROVE  /\ received[c][n] \in Seq(Element)
         /\ Len(received[c][n]) \in Nat
         /\ Commands(received[c][n]) \subseteq 1..Len(received[c][n])
<1>1. received[c] \in Seq(Package)
  BY DEF TypeOK
<1>2. received[c][n] \in Package
  BY <1>1
<1>3. received[c][n] \in Seq(Element)
  BY <1>2, PackageAssumption
<1> QED
  BY <1>3 DEF Commands

\* The package that a loop works on is the last of its connection.
LEMMA CurrentIsLast ==
  ASSUME IInv, NEW l \in Loop, pc[l] # "idle"
  PROVE  /\ diplomat[l] \in Conn
         /\ Len(received[diplomat[l]]) \in Nat \ {0}
         /\ Len(received[diplomat[l]]) \in 1..Len(received[diplomat[l]])
         /\ Current(l) = received[diplomat[l]][Len(received[diplomat[l]])]
         /\ Commands(Current(l)) \subseteq 1..Len(Current(l)) /\ Len(Current(l)) \in Nat
<1>1. diplomat[l] \in Conn /\ received[diplomat[l]] # <<>>
  BY DEF IInv, Places
<1>2. received[diplomat[l]] \in Seq(Package)
  BY <1>1 DEF IInv, TypeOK
<1>3. Len(received[diplomat[l]]) \in Nat \ {0}
  BY <1>1, <1>2
<1>4. Current(l) = received[diplomat[l]][Len(received[diplomat[l]])]
  BY <1>1, <1>3 DEF Current, Last
<1>5. Commands(Current(l)) \subseteq 1..Len(Current(l)) /\ Len(Current(l)) \in Nat
  <2>1. TypeOK /\ Len(received[diplomat[l]]) \in 1..Len(received[diplomat[l]])
    BY <1>3 DEF IInv
  <2> QED
    BY <1>1, <1>4, <2>1, PackageTypes
<1> QED
  BY <1>1, <1>3, <1>4, <1>5

\* Once the server runs, the commands of a package are those that s_cmds knows.
LEMMA ExecutableCommands ==
  ASSUME Running, mainPc = "main", NEW p
  PROVE  Executable(p) = Commands(p)
BY DEF Running, Executable, Methods, Commands

\* What is left of a package: its next command is the first of them.
LEMMA RestOfPackage ==
  ASSUME IInv, NEW l \in Loop, pc[l] # "idle"
  PROVE  /\ Rest(l) = {i \in Commands(Current(l)) : i > at[l]}
         /\ Rest(l) # {} => Min(Rest(l)) \in Rest(l) /\ \A i \in Rest(l) : Min(Rest(l)) <= i
<1>1. Rest(l) = {i \in Commands(Current(l)) : i > at[l]}
  BY ExecutableCommands DEF IInv, Running, Rest
<1>2. Rest(l) \subseteq Nat
  BY <1>1, CurrentIsLast
<1> QED
  BY <1>1, <1>2, MinOfNumbers

\* Two loops never work on one connection.
LEMMA OneLoopEach ==
  ASSUME IInv, NEW l \in Loop, NEW m \in Loop, diplomat[l] = diplomat[m], diplomat[l] \in Conn
  PROVE  l = m
BY DEF IInv, Places

\* A part of the invariant holds on while nothing that it speaks of changes.
LEMMA Frame ==
  ASSUME IInv
  PROVE  /\ UNCHANGED <<mainPc, cmds, pc>> => Running'
         /\ UNCHANGED <<pc, diplomat, at, received>> => Places'
         /\ UNCHANGED <<pc, at, order, diplomat, received>> => OrdersRight'
         /\ UNCHANGED <<speeker, pc, diplomat, tmp, sendCnt, out>> => Speaking'
         /\ UNCHANGED <<pc, diplomat, sendCnt, out>> => SendCntRight'
         /\ UNCHANGED <<out, received>> => AnswersMatch'
         /\ UNCHANGED <<out, received, diplomat, at, pc>> => Behind'
         /\ UNCHANGED out => AnsweredInOrder'
         /\ UNCHANGED <<received, out, lost, diplomat, at, pc>> => Complete'
<1>1. UNCHANGED <<mainPc, cmds, pc>> => Running'
  BY DEF IInv, Running
<1>2. UNCHANGED <<pc, diplomat, at, received>> => Places'
  BY DEF IInv, Places
<1>3. UNCHANGED <<pc, at, order, diplomat, received>> => OrdersRight'
  BY DEF IInv, OrdersRight, Current
<1>4. UNCHANGED <<speeker, pc, diplomat, tmp, sendCnt, out>> => Speaking'
  BY DEF IInv, Speaking
<1>5. UNCHANGED <<pc, diplomat, sendCnt, out>> => SendCntRight'
  BY DEF IInv, SendCntRight
<1>7. UNCHANGED <<out, received>> => AnswersMatch'
  BY DEF IInv, AnswersMatch
<1>8. UNCHANGED <<out, received, diplomat, at, pc>> => Behind'
  BY DEF IInv, Behind
<1>9. UNCHANGED out => AnsweredInOrder'
  <2> SUFFICES ASSUME UNCHANGED out
               PROVE  AnsweredInOrder'
    OBVIOUS
  <2>1. AnsweredInOrder
    BY DEF IInv
  <2> QED
    BY <2>1 DEF AnsweredInOrder
<1>10. UNCHANGED <<received, out, lost, diplomat, at, pc>> => Complete'
  <2> SUFFICES ASSUME UNCHANGED <<received, out, lost, diplomat, at, pc>>
               PROVE  Complete'
    OBVIOUS
  <2>1. \A c, p, i : Answered(c, p, i)' <=> Answered(c, p, i)
    BY DEF Answered
  <2> QED
    BY <2>1 DEF IInv, Complete
<1> QED
  BY <1>1, <1>2, <1>3, <1>4, <1>5, <1>7, <1>8, <1>9, <1>10

-----------------------------------------------------------------------------
(* NetService::Start *)

\* While Start is under way nobody works.
LEMMA StartInv ==
  ASSUME IInv, StartEmbassy \/ StartThreads
  PROVE  IInv'
<1> USE DEF StartEmbassy, StartThreads
<1>1. TypeOK'
  BY DEF IInv, TypeOK
<1>2. Running'
  BY DEF IInv, Running
<1> QED
  BY <1>1, <1>2, Frame DEF IInv

-----------------------------------------------------------------------------
(* ParseCommand *)

\* A new package starts where the last one has been answered to its end.
LEMMA ServeInv ==
  ASSUME IInv, NEW l \in Loop, NEW c \in Conn, NEW p \in Package, Serve(l, c, p)
  PROVE  IInv'
<1> USE DEF Serve, OnBase
<1>1. received[c] \in Seq(Package) /\ Len(received[c]) \in Nat
  BY DEF IInv, TypeOK
<1>2. /\ received'[c] = Append(received[c], p)
      /\ Len(received'[c]) = Len(received[c]) + 1
      /\ received'[c][Len(received[c]) + 1] = p
      /\ \A n \in 1..Len(received[c]) : received'[c][n] = received[c][n]
      /\ \A d \in Conn \ {c} : received'[d] = received[d]
  <2>1. received' = [received EXCEPT ![c] = Append(received[c], p)]
    OBVIOUS
  <2>2. /\ received'[c] = Append(received[c], p)
        /\ \A d \in Conn \ {c} : received'[d] = received[d]
    BY <2>1 DEF IInv, TypeOK
  <2>3. /\ Len(Append(received[c], p)) = Len(received[c]) + 1
        /\ Append(received[c], p)[Len(received[c]) + 1] = p
        /\ \A n \in 1..Len(received[c]) : Append(received[c], p)[n] = received[c][n]
    BY <1>1
  <2> QED
    BY <2>2, <2>3
<1>3. \A m \in Loop : diplomat[m] # c
  BY DEF IInv, Places
<1>4. TypeOK'
  <2>1. received' \in [Conn -> Seq(Package)]
    BY <1>1 DEF IInv, TypeOK
  <2>2. at' \in [Loop -> Nat] /\ diplomat' \in [Actor -> Conn \cup {None}]
    BY DEF IInv, TypeOK
  <2>3. pc' = [pc EXCEPT ![l] = "child"]
    OBVIOUS
  <2> QED
    BY SMTT(60), <2>1, <2>2, <2>3 DEF IInv, TypeOK
<1>5. Running'
  BY DEF IInv, Running, TypeOK
<1>6. Places'
  BY <1>1, <1>2 DEF IInv, TypeOK, Places
<1>7. OrdersRight'
  <2>1. \A m \in Loop : pc'[m] \in Sending => Current(m)' = Current(m) /\ m # l
    BY <1>2, <1>3 DEF IInv, TypeOK, Places, Current
  <2> QED
    BY <2>1 DEF IInv, TypeOK, OrdersRight
<1>8. Speaking'
  BY SMTT(60) DEF IInv, TypeOK, Speaking
<1>9. SendCntRight'
  BY DEF IInv, TypeOK, SendCntRight
<1>10. AnswersMatch'
  <2> SUFFICES ASSUME NEW d \in Conn, NEW r \in ToSet(out[d]), r.cmd # None
               PROVE  /\ r.cmd[1] \in 1..Len(received'[d])
                      /\ r.cmd[2] \in 1..Len(received'[d][r.cmd[1]])
                      /\ LET e == received'[d][r.cmd[1]][r.cmd[2]] IN
                           /\ e.id /\ e.name = "Echo"
                           /\ r.says = (IF e.params = "echo" THEN "true" ELSE "false")
    BY ZenonT(60) DEF AnswersMatch
  <2>1. /\ r.cmd[1] \in 1..Len(received[d])
        /\ r.cmd[2] \in 1..Len(received[d][r.cmd[1]])
        /\ LET e == received[d][r.cmd[1]][r.cmd[2]] IN
             /\ e.id /\ e.name = "Echo"
             /\ r.says = (IF e.params = "echo" THEN "true" ELSE "false")
    BY DEF IInv, AnswersMatch
  <2>2. r.cmd[1] \in 1..Len(received'[d]) /\ received'[d][r.cmd[1]] = received[d][r.cmd[1]]
    BY <1>1, <1>2, <2>1
  <2> QED
    BY ZenonT(60), <2>1, <2>2
<1>11. Behind'
  <2> SUFFICES ASSUME NEW d \in Conn, NEW n \in 1..Len(out[d]), out[d][n].cmd # None
               PROVE  /\ out[d][n].cmd[1] <= Len(received'[d])
                      /\ out[d][n].cmd[1] = Len(received'[d]) => \A m \in Loop : diplomat'[m] = d =>
                           \/ out[d][n].cmd[2] < at[m]
                           \/ out[d][n].cmd[2] = at[m] /\ pc'[m] \in {"child", "count"}
    BY DEF Behind
  <2>1. /\ out[d][n].cmd[1] <= Len(received[d])
        /\ out[d][n].cmd[1] = Len(received[d]) => \A m \in Loop : diplomat[m] = d =>
             \/ out[d][n].cmd[2] < at[m]
             \/ out[d][n].cmd[2] = at[m] /\ pc[m] \in {"child", "count"}
    BY DEF IInv, Behind
  <2>2. out[d] \in Seq(Reply)
    BY DEF IInv, TypeOK
  <2>3. out[d][n].cmd[1] \in Nat
    <3>1. out[d][n] \in Reply
      BY <2>2
    <3>2. out[d][n].cmd \in Nat \X Nat
      BY <3>1 DEF Reply
    <3> QED
      BY <3>2
  <2>4. CASE d = c
    BY <1>1, <1>2, <2>1, <2>3, <2>4
  <2>5. CASE d # c
    BY <1>2, <2>1, <2>5 DEF IInv, TypeOK
  <2> QED
    BY <2>4, <2>5
<1>12. Complete'
  <2> SUFFICES ASSUME NEW d \in Conn, NEW q \in 1..Len(received'[d]),
                      NEW i \in Commands(received'[d][q]),
                      q = Len(received'[d]) => \A m \in Loop : diplomat'[m] = d =>
                        i < at'[m] \/ (i = at'[m] /\ pc'[m] \in {"child", "count"})
               PROVE  Answered(d, q, i)'
    BY DEF Complete
  <2> SUFFICES Answered(d, q, i)
    BY DEF Answered
  <2>1. CASE d = c /\ q = Len(received'[c])
    <3>1. received'[d][q] \in Seq(Element)
      BY <1>2, <2>1, PackageAssumption
    <3>2. Len(received'[d][q]) \in Nat
      BY <3>1
    <3>3. i \in Nat \ {0}
      BY <3>2 DEF Commands
    <3>4. diplomat'[l] = d /\ at[l] = 0
      BY <2>1 DEF IInv, TypeOK, Places
    <3> QED
      BY <2>1, <3>3, <3>4
  <2>2. CASE d = c /\ q # Len(received'[c])
    <3>1. q \in 1..Len(received[c]) /\ received'[d][q] = received[c][q]
      BY <1>1, <1>2, <2>2
    <3> QED
      BY <1>3, <2>2, <3>1 DEF IInv, Complete
  <2>3. CASE d # c
    <3>1. received'[d] = received[d] /\ \A m \in Loop : diplomat[m] = d => diplomat'[m] = d /\ pc'[m] = pc[m]
      BY <1>2, <2>3 DEF IInv, TypeOK, Places
    <3> QED
      BY <3>1 DEF IInv, Complete
  <2> QED
    BY <2>1, <2>2, <2>3
<1> QED
  BY <1>4, <1>5, <1>6, <1>7, <1>8, <1>9, <1>10, <1>11, <1>12, Frame DEF IInv

\* No command is left in the package when the loop is done with it.
LEMMA ParsedAllInv ==
  ASSUME IInv, NEW l \in Loop, ParsedAll(l)
  PROVE  IInv'
<1> USE DEF ParsedAll
<1>1. TypeOK'
  BY DEF IInv, TypeOK
<1>2. Running'
  BY DEF IInv, Running, TypeOK
<1>3. Places'
  BY DEF IInv, TypeOK, Places
<1>4. OrdersRight'
  BY DEF IInv, TypeOK, OrdersRight, Current
<1>5. Speaking'
  BY DEF IInv, TypeOK, Speaking
<1>6. SendCntRight'
  BY DEF IInv, TypeOK, SendCntRight
<1>7. Behind'
  BY SMTT(60) DEF IInv, TypeOK, Behind
<1>8. Complete'
  <2>1. \A i \in Commands(Current(l)) : i <= at[l]
    <3>1. at[l] \in Nat
      BY DEF IInv, TypeOK
    <3> QED
      BY <3>1, RestOfPackage, CurrentIsLast
  <2> SUFFICES ASSUME NEW d \in Conn, NEW q \in 1..Len(received[d]),
                      NEW i \in Commands(received[d][q]),
                      q = Len(received[d]) => \A m \in Loop : diplomat'[m] = d =>
                        i < at'[m] \/ (i = at'[m] /\ pc'[m] \in {"child", "count"})
               PROVE  Answered(d, q, i)'
    BY DEF Complete
  <2> SUFFICES Answered(d, q, i)
    BY DEF Answered
  <2>2. CASE d = diplomat[l] /\ q = Len(received[d])
    <3>1. i \in Commands(Current(l)) /\ diplomat[l] \in Conn
      BY <2>2, CurrentIsLast
    <3>2. i \in Nat /\ at[l] \in Nat /\ i <= at[l]
      <4>1. at[l] \in Nat
        BY DEF IInv, TypeOK
      <4>2. i \in 1..Len(Current(l)) /\ Len(Current(l)) \in Nat
        BY <3>1, CurrentIsLast
      <4> QED
        BY <2>1, <3>1, <4>1, <4>2
    <3>3. \A m \in Loop : diplomat[m] = d => m = l
      BY <2>2, <3>1, OneLoopEach
    <3>4. \A m \in Loop : diplomat[m] = d =>
            i < at[m] \/ (i = at[m] /\ pc[m] \in {"child", "count"})
      BY <3>2, <3>3
    <3> QED
      BY <3>4 DEF IInv, Complete
  <2>3. CASE d # diplomat[l] \/ q # Len(received[d])
    <3>1. q = Len(received[d]) => \A m \in Loop : diplomat[m] = d =>
            m # l /\ diplomat'[m] = d /\ pc'[m] = pc[m] /\ at'[m] = at[m]
      BY <2>3 DEF IInv, TypeOK
    <3> QED
      BY <3>1 DEF IInv, Complete
  <2> QED
    BY <2>2, <2>3
<1> QED
  BY <1>1, <1>2, <1>3, <1>4, <1>5, <1>6, <1>7, <1>8, Frame DEF IInv

-----------------------------------------------------------------------------
(* Orders *)

\* The loop comes to the next command, and passes no other.
LEMMA ExcuteInv ==
  ASSUME IInv, NEW l \in Loop, Excute(l)
  PROVE  IInv'
<1> USE DEF Excute, NewOrder
<1>1. /\ at'[l] = Min(Rest(l))
      /\ at'[l] \in Commands(Current(l)) /\ at'[l] \in Nat /\ at[l] \in Nat /\ at[l] < at'[l]
      /\ \A i \in Commands(Current(l)) : i < at'[l] => i <= at[l]
  <2>1. at'[l] = Min(Rest(l)) /\ at[l] \in Nat
    BY DEF IInv, TypeOK
  <2>2. at'[l] \in Rest(l) /\ \A i \in Rest(l) : at'[l] <= i
    BY <2>1, RestOfPackage
  <2>3. Rest(l) = {i \in Commands(Current(l)) : i > at[l]}
    BY RestOfPackage
  <2>4. Commands(Current(l)) \subseteq Nat
    BY CurrentIsLast
  <2>5. at'[l] \in Commands(Current(l)) /\ at'[l] \in Nat /\ at[l] < at'[l]
    BY <2>2, <2>3, <2>4
  <2>6. ASSUME NEW i \in Commands(Current(l)), i < at'[l]
        PROVE  i <= at[l]
    <3>1. i \in Nat
      BY <2>4
    <3>2. i \notin Rest(l)
      BY <2>2, <2>5, <2>6, <3>1
    <3> QED
      BY <2>1, <2>3, <3>1, <3>2
  <2> QED
    BY <2>1, <2>5, <2>6
<1>2. at' = [at EXCEPT ![l] = at'[l]]
  BY DEF IInv, TypeOK
<1>3. diplomat[l] \in Conn /\ \A m \in Loop : diplomat[m] = diplomat[l] => m = l
  BY CurrentIsLast, OneLoopEach
<1>4. order' = [order EXCEPT ![l] = Result(Current(l)[at'[l]])]
  BY DEF Result
<1>5. TypeOK'
  <2>1. Result(Current(l)[at'[l]]) \in Content
    BY DEF Result, Content
  <2>2. order' \in [Actor -> Content \cup {None}]
    BY <1>4, <2>1 DEF IInv, TypeOK
  <2>3. at' \in [Loop -> Nat]
    BY <1>1, <1>2 DEF IInv, TypeOK
  <2>4. tmp' \in [Actor -> Nat]
    BY DEF IInv, TypeOK
  <2> QED
    BY <2>2, <2>3, <2>4 DEF IInv, TypeOK
<1>6. Running'
  BY DEF IInv, Running, TypeOK
<1>7. Places'
  BY <1>2 DEF IInv, TypeOK, Places
<1>8. OrdersRight'
  <2>1. \A m \in Loop : Current(m)' = Current(m)
    BY DEF Current
  <2>2. \A m \in Loop \ {l} : pc'[m] = pc[m] /\ at'[m] = at[m] /\ order'[m] = order[m]
    BY <1>2, <1>4 DEF IInv, TypeOK
  <2>3. order'[l] = Result(Current(l)[at'[l]])
    BY <1>4 DEF IInv, TypeOK
  <2>4. \A a \in App : pc'[a] = pc[a] /\ order'[a] = order[a]
    BY <1>4 DEF IInv, TypeOK
  <2> QED
    BY <1>1, <2>1, <2>2, <2>3, <2>4 DEF IInv, OrdersRight
<1>9. Speaking'
  BY DEF IInv, TypeOK, Speaking
<1>10. SendCntRight'
  BY DEF IInv, TypeOK, SendCntRight
<1>11. Behind'
  <2> SUFFICES ASSUME NEW d \in Conn, NEW n \in 1..Len(out[d]), out[d][n].cmd # None,
                      out[d][n].cmd[1] = Len(received[d]),
                      NEW m \in Loop, diplomat[m] = d
               PROVE  \/ out[d][n].cmd[2] < at'[m]
                      \/ out[d][n].cmd[2] = at'[m] /\ pc'[m] \in {"child", "count"}
    BY DEF IInv, Behind
  <2>1. \/ out[d][n].cmd[2] < at[m]
        \/ out[d][n].cmd[2] = at[m] /\ pc[m] \in {"child", "count"}
    BY DEF IInv, Behind
  <2>2. CASE m = l
    <3>1. out[d] \in Seq(Reply)
      BY DEF IInv, TypeOK
    <3>2. out[d][n] \in Reply
      BY <3>1
    <3>3. out[d][n].cmd \in Nat \X Nat
      BY <3>2 DEF Reply
    <3> QED
      BY <1>1, <2>1, <2>2, <3>3
  <2>3. CASE m # l
    BY <1>2, <2>1, <2>3 DEF IInv, TypeOK
  <2> QED
    BY <2>2, <2>3
<1>12. Complete'
  <2> SUFFICES ASSUME NEW d \in Conn, NEW q \in 1..Len(received[d]),
                      NEW i \in Commands(received[d][q]),
                      q = Len(received[d]) => \A m \in Loop : diplomat[m] = d =>
                        i < at'[m] \/ (i = at'[m] /\ pc'[m] \in {"child", "count"})
               PROVE  Answered(d, q, i)'
    BY DEF Complete
  <2> SUFFICES Answered(d, q, i)
    BY DEF Answered
  <2>1. CASE d = diplomat[l] /\ q = Len(received[d])
    <3>1. i < at'[l]
      <4>1. pc'[l] = "id"
        BY DEF IInv, TypeOK
      <4> QED
        BY <2>1, <4>1
    <3>2. i \in Commands(Current(l))
      BY <2>1, CurrentIsLast
    <3>3. i \in Nat /\ i <= at[l]
      BY <1>1, <3>1, <3>2, CurrentIsLast
    <3>4. \A m \in Loop : diplomat[m] = d =>
            i < at[m] \/ (i = at[m] /\ pc[m] \in {"child", "count"})
      BY <1>1, <1>3, <2>1, <3>3
    <3> QED
      BY <3>4 DEF IInv, Complete
  <2>2. CASE d # diplomat[l] \/ q # Len(received[d])
    <3>1. q = Len(received[d]) => \A m \in Loop : diplomat[m] = d =>
            m # l /\ pc'[m] = pc[m] /\ at'[m] = at[m]
      BY <1>2, <2>2 DEF IInv, TypeOK
    <3> QED
      BY <3>1 DEF IInv, Complete
  <2> QED
    BY <2>1, <2>2
<1> QED
  BY <1>5, <1>6, <1>7, <1>8, <1>9, <1>10, <1>11, <1>12, Frame DEF IInv

\* An application thread is on no loop's way.
LEMMA PushInv ==
  ASSUME IInv, NEW a \in App, NEW c \in Conn, Push(a, c)
  PROVE  IInv'
<1> USE DEF Push, NewOrder
<1>1. \A m \in Loop : diplomat'[m] = diplomat[m] /\ pc'[m] = pc[m] /\ order'[m] = order[m]
  BY DEF IInv, TypeOK
<1>2. TypeOK'
  <2>1. diplomat' \in [Actor -> Conn \cup {None}] /\ tmp' \in [Actor -> Nat]
    BY DEF IInv, TypeOK
  <2>2. order' \in [Actor -> Content \cup {None}] /\ pushed' \in 0..MaxPushes
    BY DEF IInv, TypeOK, Content
  <2> QED
    BY <2>1, <2>2 DEF IInv, TypeOK
<1>3. Running'
  BY DEF IInv, Running, TypeOK
<1>4. Places'
  BY DEF IInv, TypeOK, Places
<1>5. OrdersRight'
  <2>1. \A m \in Loop : Current(m)' = Current(m)
    BY <1>1 DEF Current
  <2> QED
    BY <1>1, <2>1 DEF IInv, TypeOK, OrdersRight
<1>6. Speaking'
  BY SMTT(60) DEF IInv, TypeOK, Speaking
<1>7. SendCntRight'
  BY DEF IInv, TypeOK, SendCntRight
<1>8. Behind'
  BY <1>1 DEF IInv, Behind
<1>9. Complete'
  <2>1. \A d, q, i : Answered(d, q, i)' <=> Answered(d, q, i)
    BY DEF Answered
  <2>2. UNCHANGED received /\ UNCHANGED at
    OBVIOUS
  <2> SUFFICES ASSUME NEW d \in Conn, NEW p \in 1..Len(received[d]),
                      NEW i \in Commands(received[d][p]),
                      p = Len(received[d]) => \A l \in Loop : diplomat'[l] = d =>
                        i < at[l] \/ (i = at[l] /\ pc'[l] \in {"child", "count"})
               PROVE  Answered(d, p, i)
    BY <2>1, <2>2 DEF Complete
  <2>3. p = Len(received[d]) => \A l \in Loop : diplomat[l] = d =>
          i < at[l] \/ (i = at[l] /\ pc[l] \in {"child", "count"})
    BY <1>1
  <2> QED
    BY <2>3 DEF IInv, Complete
<1> QED
  BY <1>2, <1>3, <1>4, <1>5, <1>6, <1>7, <1>8, <1>9, Frame DEF IInv

\* Writing s_id disturbs nothing, whether or not another actor has come in between.
LEMMA WriteIdInv ==
  ASSUME IInv, NEW a \in Actor, WriteId(a)
  PROVE  IInv'
<1> USE DEF WriteId
<1>1. TypeOK'
  <2>1. tmp[a] \in Nat /\ sid' = tmp[a] + 1
    BY DEF IInv, TypeOK
  <2>2. tmp' \in [Actor -> Nat] /\ pc' \in [Actor -> {"idle", "child", "id", "speek", "count"}]
    BY DEF IInv, TypeOK
  <2> QED
    BY <2>1, <2>2 DEF IInv, TypeOK
<1>2. Running'
  BY DEF IInv, Running, TypeOK
<1>3. Places'
  BY DEF IInv, TypeOK, Places
<1>4. OrdersRight'
  BY DEF IInv, TypeOK, OrdersRight, Current
<1>5. Speaking'
  BY DEF IInv, TypeOK, Speaking
<1>6. SendCntRight'
  BY DEF IInv, TypeOK, SendCntRight
<1>8. \A m \in Loop : pc'[m] \in {"child", "count"} <=> pc[m] \in {"child", "count"}
  BY DEF IInv, TypeOK
<1>9. Behind'
  BY <1>8 DEF IInv, Behind
<1>10. Complete'
  <2>1. \A d, q, i : Answered(d, q, i)' <=> Answered(d, q, i)
    BY DEF Answered
  <2> QED
    BY <1>8, <2>1 DEF IInv, Complete
<1> QED
  BY <1>1, <1>2, <1>3, <1>4, <1>5, <1>6, <1>9, <1>10, Frame DEF IInv

-----------------------------------------------------------------------------
(* Diplomat::Speek *)

\* What is written says which command it answers: the one the loop has come to.
LEMMA MassageAnswers ==
  ASSUME IInv, NEW a \in Actor, pc[a] = "speek"
  PROVE  /\ diplomat[a] \in Conn /\ Massage(a) \in Reply
         /\ a \in App => Massage(a).cmd = None
         /\ a \in Loop =>
              /\ Massage(a).cmd = <<Len(received[diplomat[a]]), at[a]>>
              /\ Massage(a).cmd # None => at[a] \in Commands(Current(a))
              /\ Massage(a).says = Result(Current(a)[at[a]])
<1>1. diplomat[a] \in Conn
  BY DEF IInv, Places
<1>2. CASE a \in App
  <2>1. Massage(a) = [cmd |-> None, says |-> "push"]
    BY <1>2 DEF IInv, OrdersRight, Massage
  <2> QED
    BY <1>1, <1>2, <2>1 DEF Reply, Content
<1>3. CASE a \in Loop
  <2>1. Massage(a) = [cmd |-> <<Len(received[diplomat[a]]), at[a]>>,
                      says |-> Result(Current(a)[at[a]])]
    BY <1>3 DEF IInv, OrdersRight, Massage
  <2>2. Len(received[diplomat[a]]) \in Nat /\ at[a] \in Nat
    BY <1>3, CurrentIsLast DEF IInv, TypeOK
  <2>3. Result(Current(a)[at[a]]) \in Content
    BY DEF Result, Content
  <2>4. at[a] \in Commands(Current(a))
    BY <1>3 DEF IInv, OrdersRight
  <2> QED
    BY <1>1, <1>3, <2>1, <2>2, <2>3, <2>4 DEF Reply
<1> QED
  BY <1>2, <1>3

\* A loop that has spoken, or failed to, has come past its command; nobody else moves.
LEMMA SpokenComplete ==
  ASSUME IInv, NEW a \in Actor, pc[a] = "speek", UNCHANGED <<received, diplomat, at>>,
         \A b \in Actor \ {a} : pc'[b] = pc[b],
         \A c \in Conn : \A p, i : Answered(c, p, i) => Answered(c, p, i)',
         a \in Loop => Answered(diplomat[a], Len(received[diplomat[a]]), at[a])'
  PROVE  Complete'
<1> SUFFICES ASSUME NEW d \in Conn, NEW q \in 1..Len(received[d]),
                    NEW i \in Commands(received[d][q]),
                    q = Len(received[d]) => \A m \in Loop : diplomat[m] = d =>
                      i < at[m] \/ (i = at[m] /\ pc'[m] \in {"child", "count"})
             PROVE  Answered(d, q, i)'
  BY DEF Complete
<1>1. CASE a \in Loop /\ d = diplomat[a] /\ q = Len(received[d]) /\ i = at[a]
  BY <1>1
<1>2. CASE ~(a \in Loop /\ d = diplomat[a] /\ q = Len(received[d]) /\ i = at[a])
  <2>1. q = Len(received[d]) => \A m \in Loop : diplomat[m] = d =>
          i < at[m] \/ (i = at[m] /\ pc[m] \in {"child", "count"})
    BY <1>2 DEF IInv, TypeOK
  <2>2. Answered(d, q, i)
    BY <2>1 DEF IInv, Complete
  <2> QED
    BY <2>2
<1> QED
  BY <1>1, <1>2

\* Speek takes the mutex, writes, and reads a counter that nobody else is changing.
LEMMA SpeekInv ==
  ASSUME IInv, NEW a \in Actor, NEW c \in Conn, c = diplomat[a], Speek(a)
  PROVE  IInv'
<1> USE DEF Speek, Unlocked
<1>1. out[c] \in Seq(Reply) /\ Len(out[c]) \in Nat /\ Massage(a) \in Reply
  <2>1. out[c] \in Seq(Reply)
    BY DEF IInv, TypeOK
  <2> QED
    BY <2>1, MassageAnswers
<1>2. /\ out' = [out EXCEPT ![c] = Append(out[c], Massage(a))]
      /\ out'[c] = Append(out[c], Massage(a))
      /\ \A d \in Conn \ {c} : out'[d] = out[d]
  BY DEF IInv, TypeOK
<1>3. /\ Len(out'[c]) = Len(out[c]) + 1 /\ out'[c][Len(out[c]) + 1] = Massage(a)
      /\ \A n \in 1..Len(out[c]) : out'[c][n] = out[c][n]
  BY <1>1, <1>2
<1>4. \A n \in 1..Len(out'[c]) : n \in 1..Len(out[c]) \/ n = Len(out[c]) + 1
  BY <1>1, <1>3
<1>5. \A b \in Actor : pc[b] = "count" => b # a /\ diplomat[b] # c
  BY SMTT(60) DEF IInv, TypeOK, Speaking
<1>6. sendCnt[c] = Len(out[c]) /\ sendCnt[c] \in Nat
  BY <1>5 DEF IInv, TypeOK, SendCntRight
<1>7. pc' = [pc EXCEPT ![a] = "count"] /\ tmp' = [tmp EXCEPT ![a] = sendCnt[c]]
      /\ speeker' = [speeker EXCEPT ![c] = a]
  OBVIOUS
<1>8. TypeOK'
  <2>1. out' \in [Conn -> Seq(Reply)]
    BY <1>1, <1>2 DEF IInv, TypeOK
  <2>2. tmp' \in [Actor -> Nat] /\ speeker' \in [Conn -> Actor \cup {None}]
    BY <1>6, <1>7 DEF IInv, TypeOK
  <2> QED
    BY <2>1, <2>2 DEF IInv, TypeOK
<1>9. Running'
  BY DEF IInv, Running, TypeOK
<1>10. Places'
  BY DEF IInv, TypeOK, Places
<1>11. OrdersRight'
  BY DEF IInv, TypeOK, OrdersRight, Current
<1>12. Speaking'
  <2>1. \A b \in Actor, d \in Conn : speeker'[d] = b <=> pc'[b] = "count" /\ diplomat[b] = d
    <3> TAKE b \in Actor, d \in Conn
    <3>1. CASE d = c
      <4>1. speeker'[d] = a /\ pc'[a] = "count"
        BY <1>7, <3>1 DEF IInv, TypeOK
      <4>2. b # a => ~(pc'[b] = "count" /\ diplomat[b] = c)
        BY <1>5, <1>7 DEF IInv, TypeOK
      <4> QED
        BY <3>1, <4>1, <4>2
    <3>2. CASE d # c
      <4>1. speeker'[d] = speeker[d] /\ (b # a => pc'[b] = pc[b]) /\ pc[a] # "count"
        BY <1>7, <3>2 DEF IInv, TypeOK
      <4>2. speeker[d] = b <=> pc[b] = "count" /\ diplomat[b] = d
        BY DEF IInv, Speaking
      <4> QED
        BY <3>2, <4>1, <4>2
    <3> QED
      BY <3>1, <3>2
  <2>2. ASSUME NEW b \in Actor, pc'[b] = "count"
        PROVE  tmp'[b] = sendCnt[diplomat[b]] /\ Len(out'[diplomat[b]]) = tmp'[b] + 1
    <3>1. CASE b = a
      BY <1>3, <1>6, <1>7, <3>1 DEF IInv, TypeOK
    <3>2. CASE b # a
      <4>1. pc[b] = "count" /\ tmp'[b] = tmp[b]
        BY <1>7, <2>2, <3>2 DEF IInv, TypeOK
      <4>2. diplomat[b] \in Conn \ {c}
        BY <1>5, <4>1 DEF IInv, Places
      <4> QED
        BY <1>2, <4>1, <4>2 DEF IInv, Speaking
    <3> QED
      BY <3>1, <3>2
  <2> QED
    BY <2>1, <2>2 DEF Speaking
<1>13. SendCntRight'
  <2>1. pc'[a] = "count"
    BY DEF IInv, TypeOK
  <2>2. ASSUME NEW d \in Conn, \A b \in Actor : pc'[b] = "count" => diplomat[b] # d
        PROVE  sendCnt[d] = Len(out'[d])
    <3>1. d # c /\ \A b \in Actor : pc[b] = "count" => diplomat[b] # d
      BY <1>7, <2>1, <2>2 DEF IInv, TypeOK
    <3> QED
      BY <1>2, <3>1 DEF IInv, SendCntRight
  <2> QED
    BY <2>2 DEF SendCntRight
<1>13a. /\ UNCHANGED received /\ UNCHANGED at /\ UNCHANGED diplomat
        /\ \A m \in Loop : pc[m] \in {"child", "count"} => pc'[m] = pc[m]
        /\ pc[a] = "speek" /\ (a \in Loop => pc'[a] = "count")
  BY <1>7 DEF IInv, TypeOK
<1>14. AnswersMatch'
  <2> HIDE DEF Speek, Unlocked
  <2> SUFFICES ASSUME NEW d \in Conn, NEW r \in ToSet(out'[d]), r.cmd # None
               PROVE  /\ r.cmd[1] \in 1..Len(received[d])
                      /\ r.cmd[2] \in 1..Len(received[d][r.cmd[1]])
                      /\ LET e == received[d][r.cmd[1]][r.cmd[2]] IN
                           /\ e.id /\ e.name = "Echo"
                           /\ r.says = (IF e.params = "echo" THEN "true" ELSE "false")
    BY SMTT(60), <1>13a DEF AnswersMatch
  <2>1. CASE r \in ToSet(out[d])
    BY <2>1 DEF IInv, AnswersMatch
  <2>2. CASE r \notin ToSet(out[d])
    <3>1. d = c /\ r = Massage(a)
      BY <1>1, <1>2, <1>3, <1>4, <2>2 DEF ToSet
    <3>2. a \in Loop /\ pc[a] # "idle"
      BY <1>13a, <3>1, MassageAnswers
    <3>3. /\ r.cmd = <<Len(received[c]), at[a]>> /\ r.says = Result(Current(a)[at[a]])
          /\ at[a] \in Commands(Current(a))
      BY <1>13a, <3>1, <3>2, MassageAnswers
    <3>4. /\ Current(a) = received[c][Len(received[c])]
          /\ Len(received[c]) \in 1..Len(received[c])
          /\ Commands(Current(a)) \subseteq 1..Len(Current(a))
      BY <3>2, CurrentIsLast
    <3>5. r.cmd[1] = Len(received[c]) /\ r.cmd[2] = at[a]
      BY <3>3
    <3>6. LET e == Current(a)[at[a]] IN e.id /\ e.name = "Echo"
      BY <3>3 DEF Commands, WellFormed
    <3>7. at[a] \in 1..Len(Current(a))
      BY <3>3, <3>4
    <3>8. received[d][r.cmd[1]][r.cmd[2]] = Current(a)[at[a]]
      BY <3>1, <3>4, <3>5
    <3>9. r.cmd[1] \in 1..Len(received[d]) /\ r.cmd[2] \in 1..Len(received[d][r.cmd[1]])
      BY <3>1, <3>4, <3>5, <3>7
    <3> QED
      BY <3>3, <3>6, <3>8, <3>9 DEF Result
  <2> QED
    BY <2>1, <2>2
<1>15. Behind'
  <2> HIDE DEF Speek, Unlocked
  <2> SUFFICES ASSUME NEW d \in Conn, NEW n \in 1..Len(out'[d]), out'[d][n].cmd # None
               PROVE  /\ out'[d][n].cmd[1] <= Len(received[d])
                      /\ out'[d][n].cmd[1] = Len(received[d]) => \A m \in Loop : diplomat[m] = d =>
                           \/ out'[d][n].cmd[2] < at[m]
                           \/ out'[d][n].cmd[2] = at[m] /\ pc'[m] \in {"child", "count"}
    BY <1>13a DEF Behind
  <2>1. CASE d # c \/ n # Len(out[c]) + 1
    <3>1. n \in 1..Len(out[d]) /\ out'[d][n] = out[d][n]
      BY <1>2, <1>3, <1>4, <2>1
    <3>2. /\ out[d][n].cmd[1] <= Len(received[d])
          /\ out[d][n].cmd[1] = Len(received[d]) => \A m \in Loop : diplomat[m] = d =>
               \/ out[d][n].cmd[2] < at[m]
               \/ out[d][n].cmd[2] = at[m] /\ pc[m] \in {"child", "count"}
      BY <3>1 DEF IInv, Behind
    <3>3. \A m \in Loop : pc[m] \in {"child", "count"} => pc'[m] = pc[m]
      BY <1>13a
    <3> QED
      BY <3>1, <3>2, <3>3
  <2>2. CASE d = c /\ n = Len(out[c]) + 1
    <3>1. a \in Loop /\ out'[d][n].cmd = <<Len(received[c]), at[a]>>
      BY <1>13a, <1>3, <2>2, MassageAnswers
    <3>2. Len(received[c]) \in Nat
      BY <3>1, CurrentIsLast
    <3>3. \A m \in Loop : diplomat[m] = c => m = a
      BY <3>1, OneLoopEach
    <3>4. pc'[a] = "count"
      BY <1>7 DEF IInv, TypeOK
    <3> QED
      BY <2>2, <3>1, <3>2, <3>3, <3>4
  <2> QED
    BY <2>1, <2>2
<1>16. AnsweredInOrder'
  <2> HIDE DEF Speek, Unlocked
  <2> SUFFICES ASSUME NEW d \in Conn, NEW m \in 1..Len(out'[d]), NEW n \in 1..Len(out'[d]),
                      m < n, out'[d][m].cmd # None, out'[d][n].cmd # None
               PROVE  \/ out'[d][m].cmd[1] < out'[d][n].cmd[1]
                      \/ /\ out'[d][m].cmd[1] = out'[d][n].cmd[1]
                         /\ out'[d][m].cmd[2] < out'[d][n].cmd[2]
    BY <1>13a DEF AnsweredInOrder
  <2>1. CASE d # c \/ n # Len(out[c]) + 1
    <3>1. /\ m \in 1..Len(out[d]) /\ out'[d][m] = out[d][m]
          /\ n \in 1..Len(out[d]) /\ out'[d][n] = out[d][n]
      BY <1>1, <1>2, <1>3, <1>4, <2>1
    <3> QED
      BY <3>1 DEF IInv, AnsweredInOrder
  <2>2. CASE d = c /\ n = Len(out[c]) + 1
    <3>1. a \in Loop /\ out'[d][n].cmd = <<Len(received[c]), at[a]>>
      BY <1>13a, <1>3, <2>2, MassageAnswers
    <3>2. m \in 1..Len(out[c]) /\ out'[d][m] = out[c][m]
      BY <1>1, <1>3, <1>4, <2>2
    <3>3. out[c][m].cmd \in Nat \X Nat
      <4>1. out[c][m] \in Reply
        BY <1>1, <3>2
      <4>2. out[c][m].cmd \in (Nat \X Nat) \cup {None}
        BY <4>1 DEF Reply
      <4>3. out[c][m].cmd # None
        BY <2>2, <3>2, Zenon
      <4> QED
        BY <4>2, <4>3
    <3>4. /\ out[c][m].cmd[1] <= Len(received[c])
          /\ out[c][m].cmd[1] = Len(received[c]) => out[c][m].cmd[2] < at[a]
      BY SMTT(60), <1>13a, <2>2, <3>1, <3>2 DEF IInv, Behind
    <3>5. Len(received[c]) \in Nat
      BY <3>1, CurrentIsLast
    <3>6. out'[d][n].cmd[1] = Len(received[c]) /\ out'[d][n].cmd[2] = at[a]
      BY <3>1
    <3>7. out'[d][m].cmd[1] = out[c][m].cmd[1] /\ out'[d][m].cmd[2] = out[c][m].cmd[2]
      BY <2>2, <3>2
    <3>8. out[c][m].cmd[1] \in Nat
      BY <3>3
    <3>9. \A x, y \in Nat : x <= y => x < y \/ x = y
      OBVIOUS
    <3>10. \/ out[c][m].cmd[1] < Len(received[c])
           \/ out[c][m].cmd[1] = Len(received[c]) /\ out[c][m].cmd[2] < at[a]
      BY <3>4, <3>5, <3>8, <3>9
    <3> QED
      BY <3>6, <3>7, <3>10, Zenon
  <2> QED
    BY <2>1, <2>2
<1>17. Complete'
  <2>1. ASSUME NEW d \in Conn
        PROVE  ToSet(out[d]) \subseteq ToSet(out'[d])
    <3>1. CASE d = c
      <4> SUFFICES ASSUME NEW r \in ToSet(out[c])
                   PROVE  r \in ToSet(out'[c])
        BY <3>1
      <4>1. PICK n \in 1..Len(out[c]) : r = out[c][n]
        BY <1>1 DEF ToSet
      <4>2. n \in DOMAIN out'[c] /\ r = out'[c][n]
        BY <1>1, <1>2, <1>3, <4>1
      <4> QED
        BY <4>2 DEF ToSet
    <3>2. CASE d # c
      BY <1>2, <3>2
    <3> QED
      BY <3>1, <3>2
  <2>2. \A d \in Conn : \A p, i : Answered(d, p, i) => Answered(d, p, i)'
    BY <2>1 DEF Answered
  <2>3. a \in Loop => Answered(c, Len(received[c]), at[a])'
    <3>1. Massage(a) \in ToSet(out'[c])
      <4>1. Len(out[c]) + 1 \in DOMAIN Append(out[c], Massage(a))
        BY <1>1
      <4>2. Len(out[c]) + 1 \in DOMAIN out'[c]
        BY <1>2, <4>1
      <4> QED
        BY <1>3, <4>2, Zenon DEF ToSet
    <3> QED
      BY <3>1, MassageAnswers DEF Answered
  <2>4. \A b \in Actor \ {a} : pc'[b] = pc[b]
    BY DEF IInv, TypeOK
  <2> QED
    BY <2>2, <2>3, <2>4, SpokenComplete
<1> QED
  BY <1>8, <1>9, <1>10, <1>11, <1>12, <1>13, <1>14, <1>15, <1>16, <1>17, Frame DEF IInv

\* The counter grows by the one order that has been written since it was read.
LEMMA SpeekDoneInv ==
  ASSUME IInv, NEW a \in Actor, NEW c \in Conn, c = diplomat[a], SpeekDone(a)
  PROVE  IInv'
<1> USE DEF SpeekDone, Return, Unlock
<1>1. /\ pc' = [pc EXCEPT ![a] = IF a \in Loop THEN "child" ELSE "idle"]
      /\ tmp' = [tmp EXCEPT ![a] = 0] /\ order' = [order EXCEPT ![a] = None]
      /\ speeker' = [speeker EXCEPT ![c] = None]
      /\ sendCnt' = [sendCnt EXCEPT ![c] = tmp[a] + 1]
      /\ UNCHANGED out /\ UNCHANGED diplomat /\ UNCHANGED received /\ UNCHANGED at
  OBVIOUS
<1>2. speeker[c] = a /\ tmp[a] + 1 = Len(out[c]) /\ tmp[a] \in Nat
  BY DEF IInv, TypeOK, Speaking
<1>3. \A b \in Actor \ {a} : pc[b] = "count" => diplomat[b] # c
  BY <1>2 DEF IInv, TypeOK, Speaking
<1>4. \A b \in Actor \ {a} : pc'[b] = pc[b] /\ tmp'[b] = tmp[b] /\ order'[b] = order[b]
  BY <1>1 DEF IInv, TypeOK
<1>5. pc'[a] = (IF a \in Loop THEN "child" ELSE "idle")
  BY <1>1 DEF IInv, TypeOK
<1>6. TypeOK'
  <2>1. sendCnt' \in [Conn -> Nat] /\ tmp' \in [Actor -> Nat]
    BY <1>1, <1>2 DEF IInv, TypeOK
  <2>2. ok' = [ok EXCEPT ![a] = TRUE] \/ ok' = [ok EXCEPT ![a] = FALSE]
    BY DEF kOK
  <2>3. ok' \in [Actor -> BOOLEAN]
    BY <2>2 DEF IInv, TypeOK
  <2>4. /\ speeker' \in [Conn -> Actor \cup {None}] /\ order' \in [Actor -> Content \cup {None}]
        /\ pc' \in [Actor -> {"idle", "child", "id", "speek", "count"}]
    BY <1>1 DEF IInv, TypeOK
  <2> QED
    BY <2>1, <2>3, <2>4 DEF IInv, TypeOK
<1>7. Running'
  BY <1>4 DEF IInv, Running
<1>8. Places'
  BY <1>1, <1>4, <1>5 DEF IInv, Places
<1>9. OrdersRight'
  BY <1>1, <1>4, <1>5 DEF IInv, OrdersRight, Current
<1>10. Speaking'
  <2>1. ASSUME NEW b \in Actor, NEW d \in Conn
        PROVE  speeker'[d] = b <=> pc'[b] = "count" /\ diplomat[b] = d
    <3>1. speeker[d] = b <=> pc[b] = "count" /\ diplomat[b] = d
      BY DEF IInv, Speaking
    <3>2. speeker'[d] = IF d = c THEN None ELSE speeker[d]
      BY <1>1 DEF IInv, TypeOK
    <3> QED
      BY <1>2, <1>3, <1>4, <1>5, <3>1, <3>2
  <2>2. ASSUME NEW b \in Actor, pc'[b] = "count"
        PROVE  tmp'[b] = sendCnt'[diplomat[b]] /\ Len(out[diplomat[b]]) = tmp'[b] + 1
    <3>1. b # a /\ pc[b] = "count" /\ tmp'[b] = tmp[b]
      BY <1>4, <1>5, <2>2
    <3>2. diplomat[b] \in Conn \ {c}
      BY <1>3, <3>1 DEF IInv, Places
    <3> QED
      BY SMTT(60), <1>1, <3>1, <3>2 DEF IInv, TypeOK, Speaking
  <2> QED
    BY <1>1, <2>1, <2>2 DEF Speaking
<1>11. SendCntRight'
  <2> SUFFICES ASSUME NEW d \in Conn, \A b \in Actor : pc'[b] = "count" => diplomat[b] # d
               PROVE  sendCnt'[d] = Len(out[d])
    BY <1>1 DEF SendCntRight
  <2>1. CASE d = c
    BY <1>1, <1>2, <2>1 DEF IInv, TypeOK
  <2>2. CASE d # c
    <3>1. \A b \in Actor : pc[b] = "count" => diplomat[b] # d
      BY <1>4, <2>2
    <3>2. sendCnt'[d] = sendCnt[d]
      BY <1>1, <2>2 DEF IInv, TypeOK
    <3> QED
      BY <3>1, <3>2 DEF IInv, SendCntRight
  <2> QED
    BY <2>1, <2>2
<1>12. \A m \in Loop : pc'[m] \in {"child", "count"} <=> pc[m] \in {"child", "count"}
  BY <1>4, <1>5
<1>13. Behind'
  <2> SUFFICES ASSUME NEW d \in Conn, NEW n \in 1..Len(out[d]), out[d][n].cmd # None
               PROVE  /\ out[d][n].cmd[1] <= Len(received[d])
                      /\ out[d][n].cmd[1] = Len(received[d]) => \A m \in Loop : diplomat[m] = d =>
                           \/ out[d][n].cmd[2] < at[m]
                           \/ out[d][n].cmd[2] = at[m] /\ pc'[m] \in {"child", "count"}
    BY <1>1 DEF Behind
  <2> QED
    BY <1>12 DEF IInv, Behind
<1>14. Complete'
  <2>1. \A d, q, i : Answered(d, q, i)' <=> Answered(d, q, i)
    BY DEF Answered
  <2> QED
    BY <1>1, <1>12, <2>1 DEF IInv, Complete
<1> QED
  BY <1>6, <1>7, <1>8, <1>9, <1>10, <1>11, <1>13, <1>14, Frame DEF IInv

\* Where the write fails the order is lost, and the mutex is free again.
LEMMA SpeekFailsInv ==
  ASSUME IInv, NEW a \in Actor, NEW c \in Conn, c = diplomat[a], SpeekFails(a)
  PROVE  IInv'
<1> USE DEF SpeekFails, Return, Unlock, Unlocked
<1>1. /\ pc' = [pc EXCEPT ![a] = IF a \in Loop THEN "child" ELSE "idle"]
      /\ tmp' = [tmp EXCEPT ![a] = 0] /\ order' = [order EXCEPT ![a] = None]
      /\ lost' = lost \cup {<<c, Massage(a)>>}
      /\ UNCHANGED sendCnt /\ UNCHANGED out /\ UNCHANGED diplomat
      /\ UNCHANGED received /\ UNCHANGED at
  OBVIOUS
<1>2. speeker' = speeker
  BY DEF IInv, TypeOK
<1>3. Massage(a) \in Reply
  BY MassageAnswers
<1>4. \A b \in Actor \ {a} : pc'[b] = pc[b] /\ tmp'[b] = tmp[b] /\ order'[b] = order[b]
  BY <1>1 DEF IInv, TypeOK
<1>5. pc'[a] = (IF a \in Loop THEN "child" ELSE "idle")
  BY <1>1 DEF IInv, TypeOK
<1>6. TypeOK'
  <2>1. lost' \subseteq Conn \X Reply
    BY <1>1, <1>3 DEF IInv, TypeOK
  <2>2. ok' = [ok EXCEPT ![a] = TRUE] \/ ok' = [ok EXCEPT ![a] = FALSE]
    BY DEF kLibEventErr
  <2>3. ok' \in [Actor -> BOOLEAN]
    BY <2>2 DEF IInv, TypeOK
  <2>4. /\ tmp' \in [Actor -> Nat] /\ order' \in [Actor -> Content \cup {None}]
        /\ pc' \in [Actor -> {"idle", "child", "id", "speek", "count"}]
    BY <1>1 DEF IInv, TypeOK
  <2> QED
    BY <1>2, <2>1, <2>3, <2>4 DEF IInv, TypeOK
<1>7. Running'
  BY <1>4 DEF IInv, Running
<1>8. Places'
  BY <1>1, <1>4, <1>5 DEF IInv, Places
<1>9. OrdersRight'
  BY <1>1, <1>4, <1>5 DEF IInv, OrdersRight, Current
<1>10. \A b \in Actor : pc'[b] = "count" <=> pc[b] = "count"
  BY <1>4, <1>5
<1>11. Speaking'
  BY <1>1, <1>2, <1>4, <1>5, <1>10 DEF IInv, Speaking
<1>12. SendCntRight'
  BY <1>1, <1>10 DEF IInv, SendCntRight
<1>13. Behind'
  <2>1. \A m \in Loop : pc[m] \in {"child", "count"} => pc'[m] = pc[m]
    BY <1>4
  <2> QED
    BY <1>1, <2>1 DEF IInv, Behind
<1>14. Complete'
  <2>1. \A d \in Conn : \A p, i : Answered(d, p, i) => Answered(d, p, i)'
    BY <1>1 DEF Answered
  <2>2. a \in Loop => Answered(c, Len(received[c]), at[a])'
    <3>1. <<c, Massage(a)>> \in lost'
      BY <1>1
    <3>2. a \in Loop => Massage(a).cmd = <<Len(received[c]), at[a]>>
      BY MassageAnswers
    <3> QED
      BY <1>1, <3>1, <3>2 DEF Answered
  <2> QED
    BY <1>1, <1>4, <2>1, <2>2, SpokenComplete
<1> QED
  BY <1>1, <1>6, <1>7, <1>8, <1>9, <1>11, <1>12, <1>13, <1>14, Frame DEF IInv

-----------------------------------------------------------------------------
(* The invariant holds *)

LEMMA InitIInv == Init => IInv
<1> SUFFICES ASSUME Init
             PROVE  IInv
  OBVIOUS
<1> USE DEF Init
<1>1. TypeOK
  <2>1. out \in [Conn -> Seq(Reply)] /\ received \in [Conn -> Seq(Package)]
    OBVIOUS
  <2>2. sid \in Nat /\ pushed \in 0..MaxPushes
    OBVIOUS
  <2>3. ok \in [Actor -> BOOLEAN] /\ tmp \in [Actor -> Nat] /\ sendCnt \in [Conn -> Nat]
    OBVIOUS
  <2>4. /\ diplomat \in [Actor -> Conn \cup {None}] /\ at \in [Loop -> Nat]
        /\ pc \in [Actor -> {"idle", "child", "id", "speek", "count"}]
        /\ order \in [Actor -> Content \cup {None}]
        /\ speeker \in [Conn -> Actor \cup {None}] /\ lost \subseteq Conn \X Reply
    OBVIOUS
  <2> QED
    BY <2>1, <2>2, <2>3, <2>4 DEF TypeOK
<1>2. Running /\ Places /\ OrdersRight
  BY DEF Running, Places, OrdersRight
<1>3. Speaking /\ SendCntRight
  BY DEF Speaking, SendCntRight
<1>4. AnswersMatch /\ Behind /\ AnsweredInOrder /\ Complete
  BY DEF AnswersMatch, Behind, AnsweredInOrder, Complete, ToSet
<1> QED
  BY <1>1, <1>2, <1>3, <1>4 DEF IInv

LEMMA StepIInv == IInv /\ [Next]_vars => IInv'
<1> SUFFICES ASSUME IInv, [Next]_vars
             PROVE  IInv'
  OBVIOUS
<1>1. CASE UNCHANGED vars
  <2>1. TypeOK'
    BY <1>1 DEF IInv, TypeOK, vars
  <2> QED
    BY <1>1, <2>1, Frame DEF IInv, vars
<1>2. CASE StartEmbassy \/ StartThreads
  BY <1>2, StartInv
<1>3. CASE \E l \in Loop, c \in Conn, p \in Package : Serve(l, c, p)
  BY <1>3, ServeInv
<1>4. CASE \E l \in Loop : ParseCommand(l)
  BY <1>4, ExcuteInv, ParsedAllInv DEF ParseCommand
<1>5. CASE \E a \in App, c \in Conn : Push(a, c)
  BY <1>5, PushInv
<1>6. CASE \E a \in Actor : Send(a)
  <2>1. PICK a \in Actor : Send(a)
    BY <1>6
  <2>2. CASE WriteId(a)
    BY <2>2, WriteIdInv
  <2>3. CASE Speek(a)
    <3>1. diplomat[a] \in Conn
      BY <2>3 DEF IInv, Places, Speek
    <3> QED
      BY <2>3, <3>1, SpeekInv
  <2>4. CASE SpeekDone(a)
    <3>1. diplomat[a] \in Conn
      BY <2>4 DEF IInv, Places, SpeekDone
    <3> QED
      BY <2>4, <3>1, SpeekDoneInv
  <2>5. CASE SpeekFails(a)
    <3>1. diplomat[a] \in Conn
      BY <2>5 DEF IInv, Places, SpeekFails
    <3> QED
      BY <2>5, <3>1, SpeekFailsInv
  <2> QED
    BY <2>1, <2>2, <2>3, <2>4, <2>5 DEF Send
<1> QED
  BY <1>1, <1>2, <1>3, <1>4, <1>5, <1>6 DEF Next

LEMMA InvariantHolds == Spec => []IInv
  BY InitIInv, StepIInv, PTL DEF Spec

-----------------------------------------------------------------------------
(* The theorems *)

\* The variables of the answering server have their types.
THEOREM TypeCorrect == Spec => []TypeOK
  BY InvariantHolds, PTL DEF IInv

\* ParseCommand and EchoController: an answer quotes a complete command of its own
\* connection, and has the result that this command deserves.
THEOREM AnswersAreRight == Spec => []AnswersMatch
  BY InvariantHolds, PTL DEF IInv

\* Loop, mutex and output buffer keep the answers in the order of the commands.
THEOREM AnswersInOrder == Spec => []AnsweredInOrder
  BY InvariantHolds, PTL DEF IInv

\* Diplomat::Speek: _send_cnt counts every order that has been written.
THEOREM SendCounted == Spec => []SendCntRight
  BY InvariantHolds, PTL DEF IInv

\* ParseCommand and Speek: when a package is done with, each "method" in it that is a
\* complete Echo was answered or its answer was lost, whatever stands before it.
THEOREM PackagesAnswered == Spec => []NoneUnanswered
<1>1. IInv => NoneUnanswered
  <2>1. ASSUME IInv, NEW c \in Conn, NEW p \in 1..Len(received[c]),
               p < Len(received[c]) \/ c \notin {diplomat[l] : l \in Loop},
               NEW i \in 1..Len(received[c][p]), received[c][p][i].tag = "method",
               WellFormed(received[c][p][i]), received[c][p][i].name = "Echo"
        PROVE  Answered(c, p, i)
    <3>1. i \in 1..i
      BY PackageTypes DEF IInv
    <3>2. i \in Commands(received[c][p])
      BY <2>1, <3>1 DEF Commands
    <3>3. p = Len(received[c]) => \A l \in Loop : diplomat[l] # c
      BY <2>1
    <3> QED
      BY <2>1, <3>2, <3>3 DEF IInv, Complete
  <2>2. ASSUME IInv
        PROVE  \A c \in Conn : \A p \in 1..Len(received[c]) :
                 p < Len(received[c]) \/ c \notin {diplomat[l] : l \in Loop} =>
                   \A i \in 1..Len(received[c][p]) :
                     received[c][p][i].tag = "method" /\ WellFormed(received[c][p][i])
                       /\ received[c][p][i].name = "Echo"
                     => Answered(c, p, i)
    BY <2>1, <2>2
  <2> QED
    BY <2>2, Zenon DEF NoneUnanswered, Answered
<1> QED
  BY <1>1, InvariantHolds, PTL
=============================================================================
