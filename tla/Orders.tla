------------------------------- MODULE Orders ------------------------------
(***************************************************************************)
(* From a package to its replies: DefaultProtocol::ParseCommand on the     *)
(* loop of the connection, the Command it looks up, the Order which the    *)
(* Command sends, and Diplomat::Speek.  Packages come as RecvSomething     *)
(* cuts them out of the receive buffer (DefaultProtocol).  Application     *)
(* threads with a DiplomatPtr may send orders on the same connections.     *)
(* A package is the sequence of the children of its XML's root.            *)
(***************************************************************************)
EXTENDS Integers, SequencesExt

CONSTANTS
  Loop,         \* threads that run an event loop
  App,          \* threads of the application
  Conn,         \* connections
  BaseOf,       \* the loop of a connection
  Package,      \* what a peer may send
  MaxPackages,  \* bound: packages received on a connection
  MaxPushes,    \* bound: orders that the application sends
  MaxLost,      \* bound: writes that fail
  None

ASSUME ActorAssumption ==
  /\ Loop \cap App = {} /\ None \notin Loop \cup App \cup Conn
  /\ BaseOf \in [Conn -> Loop]
  /\ MaxPackages \in [Conn -> Nat] /\ MaxPushes \in Nat /\ MaxLost \in Nat

\* What ParseCommand and EchoController look for in a child of the root.
Element == [tag    : {"method", "other"},
            name   : {"none", "Echo", "unregistered"},
            id     : BOOLEAN,                       \* the name has a cmd-id
            params : {"none", "echo", "invalid"}]

ASSUME PackageAssumption == Package \subseteq Seq(Element)

VARIABLES
  mainPc,    \* where NetService::Start is
  cmds,      \* names of the commands in s_cmds
  received,  \* packages that ParseCommand has been called for
  diplomat,  \* the Diplomat an actor works with: a loop on its last package
  at,        \* the child of the root of that package which ParseCommand has come to
  pc,
  order,     \* what the Order says that an actor builds and sends
  sid,       \* Order::s_id
  pushed,    \* orders that the application has begun
  tmp,       \* what an actor has read of the counter it increments
  speeker,   \* who holds a Diplomat's _mutex_speek
  out, lost, \* orders in the output buffer; orders that it did not take
  sendCnt,   \* _send_cnt, counted in orders
  ok         \* what Excute of an actor's last order returned

startVars == <<mainPc, cmds>>
parseVars == <<received, diplomat, at>>
speekVars == <<speeker, out, lost, sendCnt, ok>>
vars == <<startVars, parseVars, pc, order, sid, pushed, tmp, speekVars>>

Actor == Loop \cup App

\* What an Order says: the result in an AckSender, something of the application's own.
Content == {"true", "false", "push"}

\* What is written: the command it answers, as (package, child), and the order.
Reply == [cmd : (Nat \X Nat) \cup {None}, says : Content]

kOK == 0
kLibEventErr == 2

TypeOK ==
  /\ mainPc \in {"embassy", "threads", "main"} /\ cmds \subseteq {"Echo"}
  /\ received \in [Conn -> Seq(Package)]
  /\ diplomat \in [Actor -> Conn \cup {None}] /\ at \in [Loop -> Nat]
  /\ pc \in [Actor -> {"idle", "child", "id", "speek", "count"}]
  /\ order \in [Actor -> Content \cup {None}]
  /\ sid \in Nat /\ pushed \in 0..MaxPushes
  /\ tmp \in [Actor -> Nat]
  /\ speeker \in [Conn -> Actor \cup {None}]
  /\ out \in [Conn -> Seq(Reply)] /\ lost \subseteq Conn \X Reply
  /\ sendCnt \in [Conn -> Nat] /\ ok \in [Actor -> BOOLEAN]

Init ==
  /\ mainPc = "embassy" /\ cmds = {}
  /\ received = [c \in Conn |-> <<>>]
  /\ diplomat = [a \in Actor |-> None] /\ at = [l \in Loop |-> 0]
  /\ pc = [a \in Actor |-> "idle"]
  /\ order = [a \in Actor |-> None]
  /\ sid = 0 /\ pushed = 0
  /\ tmp = [a \in Actor |-> 0]
  /\ speeker = [c \in Conn |-> None]
  /\ out = [c \in Conn |-> <<>>] /\ lost = {}
  /\ sendCnt = [c \in Conn |-> 0] /\ ok = [a \in Actor |-> TRUE]

Goto(a, step) == pc' = [pc EXCEPT ![a] = step]

-----------------------------------------------------------------------------
(* NetService::Start *)

\* DefaultFactory::StartEmbassy registers EchoController in s_cmds ...
StartEmbassy ==
  /\ mainPc = "embassy"
  /\ mainPc' = "threads"
  /\ cmds' = {"Echo"}
  /\ UNCHANGED <<parseVars, pc, order, sid, pushed, tmp, speekVars>>

StartThreads ==
  /\ mainPc = "threads"
  /\ mainPc' = "main"
  /\ UNCHANGED <<cmds, parseVars, pc, order, sid, pushed, tmp, speekVars>>

\* bug: the threads are started before StartEmbassy is called.
ThreadsRunFirst == TRUE

\* ... which the loops read without a lock.
ThreadsRun == mainPc = "main"

-----------------------------------------------------------------------------
(* DefaultProtocol::ParseCommand *)

WellFormed(e) == e.name # "none" /\ e.id /\ e.params # "none"

\* bug: an incomplete child ends the loop, break for continue.
MethodsUntilBroken(p) ==
  {i \in 1..Len(p) :
     /\ \E j \in 1..i : p[j].tag = "method"
     /\ \A j \in 1..i : \A k \in j..(i - 1) : p[j].tag = "method" => WellFormed(p[k])}

\* The loop begins with the first "method" and then takes every child, whatever it
\* is called.
Methods(p) == {i \in 1..Len(p) : \E j \in 1..i : p[j].tag = "method"}

\* The children of p that get a command executed: complete, and of a registered name.
Executable(p) == {i \in Methods(p) : WellFormed(p[i]) /\ p[i].name \in cmds}

\* The package that loop l works on, and the children in it that are still to come.
Current(l) == Last(received[diplomat[l]])
Rest(l)    == {i \in Executable(Current(l)) : i > at[l]}

\* bug: any loop may serve any connection.
OnAnyBase(l, c) == TRUE

\* libevent calls ReadCB on the loop that the bufferevent belongs to.
OnBase(l, c) == BaseOf[c] = l

\* RecvSomething has a package of connection c and calls ParseCommand.
Serve(l, c, p) ==
  /\ OnBase(l, c)
  /\ pc[l] = "idle" /\ ThreadsRun
  /\ Len(received[c]) < MaxPackages[c]   \* bound
  /\ received' = [received EXCEPT ![c] = Append(@, p)]
  /\ diplomat' = [diplomat EXCEPT ![l] = c]
  /\ Goto(l, "child")
  /\ UNCHANGED <<startVars, at, order, sid, pushed, tmp, speekVars>>

ParsedAll(l) ==
  /\ pc[l] = "child" /\ Rest(l) = {}
  /\ diplomat' = [diplomat EXCEPT ![l] = None]
  /\ at' = [at EXCEPT ![l] = 0]
  /\ Goto(l, "idle")
  /\ UNCHANGED <<startVars, received, order, sid, pushed, tmp, speekVars>>

-----------------------------------------------------------------------------
(* Order *)

\* bug: the AckSender is a member of the EchoController, of which there is one.
HomeShared(a) == CHOOSE l \in Loop : TRUE

\* EchoController::Excute has its AckSender on the stack of the actor.
Home(a) == a

\* InitOrder takes its id from s_id ++, which reads s_id first ...
NewOrder(a, content) ==
  /\ order' = [order EXCEPT ![Home(a)] = content]
  /\ tmp' = [tmp EXCEPT ![a] = sid]
  /\ Goto(a, "id")

\* The next command of the package is called; with text in "echo" it acknowledges.
Excute(l) ==
  /\ pc[l] = "child" /\ Rest(l) # {}
  /\ at' = [at EXCEPT ![l] = Min(Rest(l))]
  /\ NewOrder(l, IF Current(l)[at'[l]].params = "echo" THEN "true" ELSE "false")
  /\ UNCHANGED <<startVars, received, diplomat, sid, pushed, speekVars>>

\* An application thread makes an order of its own.
Push(a, c) ==
  /\ pc[a] = "idle" /\ ThreadsRun
  /\ pushed < MaxPushes   \* bound
  /\ pushed' = pushed + 1
  /\ diplomat' = [diplomat EXCEPT ![a] = c]
  /\ NewOrder(a, "push")
  /\ UNCHANGED <<startVars, received, at, sid, speekVars>>

\* ... and then writes it: no lock keeps another actor from doing so in between.
WriteId(a) ==
  /\ pc[a] = "id"
  /\ sid' = tmp[a] + 1
  /\ tmp' = [tmp EXCEPT ![a] = 0]
  /\ Goto(a, "speek")
  /\ UNCHANGED <<startVars, parseVars, order, pushed, speekVars>>

-----------------------------------------------------------------------------
(* SendAux and Diplomat::Speek *)

Dip(a) == diplomat[a]

\* The header quotes the id of the command that a loop answers.
Massage(a) ==
  [cmd |-> IF a \in Loop THEN <<Len(received[Dip(a)]), at[a]>> ELSE None, says |-> order[Home(a)]]

\* bug: Speek does not lock.
HeldByNobody(c) == TRUE

Unlocked(c) == speeker[c] = None

\* Speek locks; bufferevent_write takes header and XML as one; _send_cnt is read ...
Speek(a) ==
  /\ pc[a] = "speek" /\ Unlocked(Dip(a))
  /\ speeker' = [speeker EXCEPT ![Dip(a)] = a]
  /\ out' = [out EXCEPT ![Dip(a)] = Append(@, Massage(a))]
  /\ tmp' = [tmp EXCEPT ![a] = sendCnt[Dip(a)]]
  /\ Goto(a, "count")
  /\ UNCHANGED <<startVars, parseVars, order, sid, pushed, lost, sendCnt, ok>>

\* bug: the way out of a failed write does not unlock.
UnlockUnlessFailed(a, ret) == IF ret = kOK THEN None ELSE a

\* ~AutoMutex
Unlock(a, ret) == None

\* Speek unlocks and returns ret, SendAux calls it a failure if ret < 0, the order is
\* gone; ParseCommand goes on to the next child.
Return(a, ret) ==
  /\ speeker' = [speeker EXCEPT ![Dip(a)] = Unlock(a, ret)]
  /\ ok' = [ok EXCEPT ![a] = ~(ret < 0)]
  /\ order' = [order EXCEPT ![a] = None]
  /\ tmp' = [tmp EXCEPT ![a] = 0]
  /\ Goto(a, IF a \in Loop THEN "child" ELSE "idle")
  /\ UNCHANGED <<startVars, parseVars, sid, pushed, out>>

\* ... and written back.
SpeekDone(a) ==
  /\ pc[a] = "count"
  /\ sendCnt' = [sendCnt EXCEPT ![Dip(a)] = tmp[a] + 1]
  /\ Return(a, kOK)
  /\ UNCHANGED lost

\* bufferevent_write fails.
SpeekFails(a) ==
  /\ pc[a] = "speek" /\ Unlocked(Dip(a))
  /\ Cardinality(lost) < MaxLost   \* bound
  /\ lost' = lost \cup {<<Dip(a), Massage(a)>>}
  /\ Return(a, kLibEventErr)
  /\ UNCHANGED sendCnt

-----------------------------------------------------------------------------
ParseCommand(l) == Excute(l) \/ ParsedAll(l)

Send(a) == WriteId(a) \/ Speek(a) \/ SpeekDone(a) \/ SpeekFails(a)

Next ==
  \/ StartEmbassy \/ StartThreads
  \/ \E l \in Loop, c \in Conn, p \in Package : Serve(l, c, p)
  \/ \E l \in Loop : ParseCommand(l)
  \/ \E a \in App, c \in Conn : Push(a, c)
  \/ \E a \in Actor : Send(a)

Spec == Init /\ [][Next]_vars

(***************************************************************************)
(* Threads run.  Fairness of Send is strong because _mutex_speek may be    *)
(* free only now and then.  Peers and the application owe nothing.         *)
(***************************************************************************)
FairSpec ==
  /\ Spec
  /\ \A l \in Loop : WF_vars(ParseCommand(l))
  /\ \A a \in Actor : SF_vars(Send(a))

-----------------------------------------------------------------------------
(* Safety *)

\* However the loops and the application interleave, an answer quotes a complete command
\* of the connection it is written to, and has the result which that command deserves.
AnswersMatch ==
  \A c \in Conn : \A r \in ToSet(out[c]) : r.cmd # None =>
    /\ r.cmd[1] \in 1..Len(received[c]) /\ r.cmd[2] \in 1..Len(received[c][r.cmd[1]])
    /\ LET e == received[c][r.cmd[1]][r.cmd[2]] IN
         e.id /\ e.name = "Echo" /\ r.says = (IF e.params = "echo" THEN "true" ELSE "false")

\* The answers on a connection come in the order of its commands, each once, also where
\* a write has failed in between.
AnsweredInOrder ==
  \A c \in Conn : \A m, n \in 1..Len(out[c]) :
    LET x == out[c][m].cmd
        y == out[c][n].cmd IN
      m < n /\ None \notin {x, y} => x[1] < y[1] \/ (x[1] = y[1] /\ x[2] < y[2])

\* "A XML may include several methods", says ParseCommand: when it is done with a package,
\* every "method" in it that is a complete Echo has been answered, or the output buffer
\* did not take the answer.  No package finds s_cmds empty, and no method is lost behind
\* one that is incomplete or of an unknown name, nor behind one whose answer was lost.
NoneUnanswered ==
  \A c \in Conn : \A p \in 1..Len(received[c]) :
    LET package == received[c][p] IN
      p < Len(received[c]) \/ c \notin {diplomat[l] : l \in Loop} =>
        \A i \in 1..Len(package) :
          package[i].tag = "method" /\ WellFormed(package[i]) /\ package[i].name = "Echo"
          => \/ \E r \in ToSet(out[c]) : r.cmd = <<p, i>>
             \/ \E x \in lost : x[1] = c /\ x[2].cmd = <<p, i>>

\* _send_cnt counts what has been written, whoever speaks at the same time.
SendCntRight ==
  \A c \in Conn :
    (\A a \in Actor : pc[a] = "count" => Dip(a) # c) => sendCnt[c] = Len(out[c])

-----------------------------------------------------------------------------
(* What diplomat.h says of Speek *)

\* "kOK when success, otherwise fail": the sender of an order that the output buffer did
\* not take is told so.
LossIsReported == [][\A a \in Actor : SpeekFails(a) => ~ok'[a]]_vars

-----------------------------------------------------------------------------
(* Liveness *)

\* Every package is served to its end: no loop waits for ever for _mutex_speek, which
\* the application and failing writes use, too.
PackagesServed == \A l \in Loop : diplomat[l] # None ~> diplomat[l] = None
=============================================================================
