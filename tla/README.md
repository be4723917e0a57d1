# Verification of CSCServer

TLA+ specifications of the CSCServer framework (`src/src`, 3459 lines of C++ on
top of libevent), TLC configurations that check them on small instances, and
TLAPS proofs about them. The definitions are translated from the code; what is
modelled from the outside (libevent, the network, the peer) is marked external
in `PROJECT.json`.

## 1. The system

A `NetService` owns some event loops, each run by one `EventThread`. The
listener belongs to the first loop; for every connection it calls
`DiplomatMaster::BuildDiplomat`, which makes a bufferevent on one of the loops, a
`Diplomat` (the connection) and a `Protocol` (what is spoken on it), and
registers the Protocol under the bufferevent's address. From then on the
connection's loop calls `ReadCB` and `EventCB`. The main thread sleeps in
`NetService::Main` until it stops the server.

| component | state | operations | who calls it |
|---|---|---|---|
| `IdentityMaster` | `_index`, idle and scattered numbers, `_mutex` | `AddIdentity`, `GetIdentity`, `ReleaseIdentity` | `DiplomatMaster`, from any loop and from Main |
| `DiplomatMaster` | `_protocol_dic`, `_mutex`, `_id_master` | `BuildDiplomat`, `ReadCB`, `EventCB`/`FreeDiplomat`, `FreeAllDiplomat` | libevent's callbacks on the loops; Main in `Stop` |
| `Diplomat` | bufferevent, name, counters, `_mutex_speek` | `ReadMassage`, `Speek` | `RecvSomething`; orders |
| `DefaultProtocol` | `DiplomatMemo`: receive buffer, offset, header found so far | `GarrisonDiplomat`, `RecvSomething`, `WithdrawDiplomat` | `DiplomatMaster` |
| `NetService` | bases, threads, hold events, listener, semaphore, `_e_base_index` | `Init`, `Main`, `Start`, `Stop`, `UnInit`, `Quit` | `main.cpp`, the signal handler |
| `Thread` | `_started`, `_running`, `_stateMutex` | `start`, `startHook`, `_done`, `join`, `detach` | `NetService` |
| `RefCounter`, `SmartPtr` | `_ref`, `_no_delete` | `AddRef`, `Release` | everything above |
| `Embassy`, `DefaultFactory` | none | make Protocols, two notifications | `DiplomatMaster`, `NetService` |
| commands and orders | `s_cmds`, `Order::s_id`, an order under construction | `RegisterCommand`, `ParseCommand`, `Excute`, `SendAux` | `DefaultFactory`, `DefaultProtocol`; the application |
| `EnvMaster`, `AppLog` | log4cxx configuration | logging | everything |

What is hard in it, and what must hold:

* **Connections against Stop.** The loops' callbacks and `FreeAllDiplomat` free
  the same connections. `_mutex` protects the dictionary only; everything else
  relies on SmartPtr counts and on libevent's deferred callbacks. Nothing may be
  used after it is freed, no name lost or given back twice, every Protocol
  withdrawn exactly once, and nothing may be left after Stop.
* **Callbacks before registration.** `bufferevent_enable` comes before
  `GarrisonDiplomat` and the registration (`diplomat_master.cpp:57-68`), and the
  loop may be another thread's.
* **Two holders of one reference count.** Who deletes depends on the order of
  atomic decrements.
* **Starting and stopping loops.** A loop without events returns; a break that
  comes before the loop dispatches is forgotten; UnInit runs twice.
* **Framing.** Packages come in arbitrary segments into a bounded buffer whose
  text is scanned, cut and moved; `Drain` has two special arguments (0 and -1).
* **Answers.** All loops share `s_cmds`, one `EchoController` and `Order::s_id`
  without a lock; a loop and the application write to one connection. Every
  complete command must get one answer, its own, in order.
* **Names.** Numbers reported in any order have to be merged with a counter.

The hazards, line by line, are in `PROJECT.json`.

## 2. Modules

```
Names ── IdentityMaster ──(implements)── NamePool
  ├───── DiplomatMaster ── MCDiplomatMaster
  └───── Connections ──(implemented by)── DiplomatMaster
NetService
Thread ──(implements)── Ownership
  └───── ThreadWin32
DefaultProtocol ── MCDefaultProtocol
Orders ── MCOrders
```

Proofs, each in modules of their own that extend what they are about:

```
IdentityMaster_proofs
DiplomatMaster_proofs ── DiplomatMaster_refines
Thread_proofs (both builds)
NetService_proofs
DefaultProtocol_proofs ── DefaultProtocol_whole
Orders_proofs
```

In several modules a small operator stands before the one it is an alternative
to, with a comment that begins with "bug:" (`NoMemo` before `NewMemo`). It is what
a plausible mistake in that line of the code would make of the operator; with it
in place the property that `PROJECT.json` names with it fails.

### Names, NamePool, IdentityMaster

`Names` reduces a string to what `identity_master.cpp` tells apart: whether it
starts with the key, the number `strtoul` reads, and whether printing that number
gives the text back. `NamePool` is the promise: a set of names in use; `Issue`
returns the smallest name that is not in it. `IdentityMaster` has the counter
`index` and the two maps `idle` and `using`. Every method runs under `_mutex`
and is one action. The `while` loops that move `_index` over neighbouring numbers
(`:88-96`, `:137-145`) are stated by where they stop (`FirstOutside`).
`unsigned long` is unbounded here: no run gets near its end.

### Connections, DiplomatMaster

`Connections` is what the threads promise together: a connection is new,
registered, withdrawn, released and gone, in this order; it has a name that no
other connection has until it is released; no connection is under way when the
server begins to stop, and none is left when it has stopped. `DiplomatMaster`
implements it: `Conn` reads the phase of a connection off `_protocol_dic`, the pcs
and the list that `FreeAllDiplomat` is working through.

A connection is the *address* of its bufferevent, and libevent may reuse an
address: `bev[b]` goes from `free` to `live` and back, over `dying` while a
deferred callback still holds it. A loop thread `l` is at `pc[l]` and works on
`cur[l]`; Main is at `mainPc`. One action is the code between two points where
another thread can observe or change its data:

| code | actions |
|---|---|
| `BuildDiplomat` | `Accept` (through `bufferevent_enable`), `Garrison`, `Register`, `BuildDropPro`, `BuildDropDip` (the SmartPtrs going out of scope) |
| `ReadCB` | `ReadLookup` or `AbandonRead`, `Recv`, `RecvDrop` |
| `EventCB`/`FreeDiplomat` | `EventLookup` or `EventMiss`, `FreeWithdraw`, `FreeReleaseId`, `FreeDrop` |
| `FreeAllDiplomat` | `FreeAllLock`, per entry `FreeAllWithdraw` and `FreeAllReleaseId`, `FreeAllClear` per entry, `FreeAllUnlock` |
| `NetService::Stop` around it | `Stop`, `DisableListener`, `LoopBreak`, `Join` |
| libevent | `Receive`, `Fail`, `Flush`, `RunDeferred`, `StartRead`, `StartEvent`, `EndRun`, `LoopExit`, `BuffereventFree` |

Reference counts are the sets of pointers that hold an object (`proRefs`,
`dipRefs`); that an atomic counter amounts to this is `Thread`'s refinement of
`Ownership`. Critical sections that no other thread can look into are one action;
`FreeAllDiplomat` holds `mutex` over many. `DisableListener` waits for the
listener's callback, as `event_del` does; `bufferevent_free` does not wait for a
deferred callback but leaves the bufferevent to it.

### Ownership, Thread, ThreadWin32

`Ownership` is what `ref_counter.h` promises: an object lives while it is
referred to, dies with the last reference, and is not referred to afterwards.
`Thread` is one `Thread` object (pthread build, gcc atomics) with users that copy
and drop SmartPtrs, call `start` at any time and again, and join or detach, and
the new thread in `startHook`. `Release` is two steps: the atomic decrement
(`ReleaseTo`) and `Delete`. `keepMe`, the AutoMutex, the extra `AddRef` for the
new thread, and the failure of `pthread_create` are steps of their own. The order
in which `start`'s locals go out of scope (mutex first, then `keepMe`) is the
order of `StartUnlock` and `StartRelease`. `Owners` is computed from SmartPtrs in
scope, not kept, so that an `AddRef` too few or too many shows. `assert(0)` on a
second start is taken to be compiled out: the exception that follows it is what
the model has.

`ThreadWin32` extends it by the other half of `thread.cpp`; the variable `win32`
is the build. There a second `start` answers with a ThreadControl
(`SecondStart`); the thread is made suspended, the flags are set, and then it is
resumed (`Resume`); and `startHook` locks `_stateMutex` before it lets go of the
reference (`HookHoldWin32`). Three calls can fail, each in its own way: without a
thread (`StartFails`), with a suspended one and `_started` unset (`PriorityFails`),
so that the next start makes another, and with a suspended one and `_started` set
(`ResumeFails`). `suspended` counts the threads that are never resumed. All else is
shared.

### NetService

Main's thread from the constructor through `Init`, `Start`, the waiting loop,
`Stop`, `UnInit` and the destructor's second `UnInit`; one thread per loop;
the signal handler, which runs on loop 0; the listener's callback, which deals
connections out by `_e_base_index`; `Quit` from any thread. `frees` counts how
often each thing that `Init` made is freed; `pointers` are the members that are
not NULL, on which a second `UnInit` depends. A loop leaves
`event_base_dispatch` when it is told to break or has no events. `event_break` is
cleared on entry to the loop, as in libevent 2: that is how a break gets lost.
`FreeAllDiplomat` is a single step.

### DefaultProtocol

One connection's `DiplomatMemo` and the loop in `RecvSomething`. Text is a
sequence of cells: a header is `start` (the protocol, version and pub-key lines),
`size` and `end` (cmd-id), a body as many `body` cells as its XML needs; lengths
count cells, and the limits are scaled down with them. Packages have any of the
shapes of `MCDefaultProtocol`: well formed, with two size lines, without the
first lines, announcing more than the limit, a negative size or none. Segments
end anywhere, or (`segmented` false) only between packages. The steps of
`RecvSomething` are actions: growing the buffer and noting where to read to
(`PrepareCapacity`), `ReadMassage`, the header cases, the body cases, and `Drain`
as a test (`DrainAll`, `DrainSome`) and a subtraction with the copy that follows
(`Subtract`, modulo `Word`), because `WithdrawDiplomat` may come between them. If the
offset has wrapped, `memcpy` gets the wrapped value as its length and does not return:
`pc` is `crashed` from then on. The value that is lessened is read a second time or
kept from the test, as the compiler likes; `Subtract` has both.

That `memcpy` copies overlapping areas when the rest is longer than what was consumed,
which C leaves undefined. `Moved` has what may come of it: a correct move, or, when it
copies from the back, the last cells over and over. With the constant `Forward` only
the first is possible.

### Orders

From a package to its answers, on all connections at once. A package is the
sequence of the children of its XML's root, of which `ParseCommand` looks at the
tag, the name, the id and the params. `ParseCommand` walks over them (`Rest`,
`at`) and calls the command (`Excute`), which makes an order (`NewOrder`), and the
order goes through `InitOrder`, where `s_id ++` is a read and a write (`WriteId`)
that another actor may come between, so that two orders get one id,
and `SendAux` into `Diplomat::Speek`, where the write and the addition to
`_send_cnt` are two steps under `_mutex_speek` (`Speek`, `SpeekDone`), or one that
fails (`SpeekFails`). Application threads send orders of their own (`Push`).
`StartEmbassy` fills `s_cmds` before `StartThreads` lets the loops run. `_send_cnt`
counts orders, not bytes.

## 3. Runs

| run | instance | shows |
|---|---|---|
| `identity` | 6 numbers | the normal form of the counter and its maps; that it implements `NamePool` |
| `diplomat` | 2 addresses, 2 loops, 2 names, symmetric addresses (414722 states) | all safety properties of `DiplomatMaster`; that it implements `Connections` |
| `diplomat_live` | 1 address, 2 loops | served, freed, and Stop ends |
| `thread` | 3 users, both builds, 2 failing priorities (75548 states) | the counter implements `Ownership`; no use after free; one thread resumed, none made once `_started` is set; which calls return |
| `net` | 3 loops, 10 rounds, 2 connections, 2 posts (60147 states) | loops held open, teardown after the loops, everything freed once, Main ends after Quit or SIGINT |
| `net_quit` | 2 loops | *violated*: Quit ends Main |
| `protocol` | 3 packages of any shape, in segments or in bursts, `memcpy` in either direction (1462169 states) | buffer bounds; commands in order, none twice; nothing readable left lying; every well-formed package of a burst served; RecvSomething returns |
| `protocol_keep` | 1 package in segments | *violated*: incomplete text is kept |
| `protocol_header` | 2 packages | *violated*: an invalid header is rejected |
| `protocol_race` | 1 package against Stop | *violated*: WithdrawDiplomat empties the buffer |
| `orders` | 2 loops with a connection each, 2 and 1 packages of 3 and 4 children, 1 application thread, 1 failing write (255469 states) | every complete command answered once, in order, rightly; `_send_cnt`; no loop waits for ever |
| `orders_loss` | the same | *violated*: a lost order is reported |

**Bounds.** Two addresses and two loops give every kind of conflict in
`DiplomatMaster`: the listener's loop and another one, a connection being built
while another is freed, one address reused while a callback on the other is
queued; Main is the third thread. Two names are enough for a name to be given
back and issued again while its last Diplomat lives. The proofs lift these bounds.
Three users in `Thread`: one starting, one starting again, one dropping; the new
thread is the fourth party. `SetThreadPriority` may fail twice, so that a start comes
after one failure and after another. Three loops in `NetService` distinguish the first,
the last and one between, which is what off-by-one errors in its array loops
need. Three packages in `DefaultProtocol` give a consumed one, one cut in two and
one behind it; a buffer of 10 cells holds two of the shorter packages and not two of the longer,
so that it fills up, and one shape announces more than it holds. One body is longer than
its header, so that it may overlap with itself when it moves; the run `protocol` leaves
the direction of `memcpy` open, and the three after it fix it, since what they show
does not need it. In `Orders` a loop's second
package shows what its first has left behind, one application thread is enough to
meet each loop on its connection and in `s_id ++`, and one write may fail at any
place; the packages have complete methods in front of broken ones (without an id,
without params), behind them, and behind one of an unknown name, and complete children
of another tag.

**Fairness.** Threads run: a call that has begun goes on (WF of the loops' steps
and of Main's). Strong fairness is used where the code waits for something that
comes and goes: deferred callbacks are taken from a FIFO queue, a loop looks at
its break flag after every callback, `event_del` is woken each time a callback of
the listener returns, and a mutex that is free again and again is some day got.
`sem_timedwait` returns when it is posted or interrupted (WF of `MainStep`); that it
ever times out is not assumed, so that `RunningServerStops` owes nothing to the ten
rounds of `Main`. `run()` comes to its end in `Thread`, which `NetService` justifies
once loops are broken.
In `Orders` the loops go on with a package, and `_mutex_speek`, free again and
again, is some day got.
Clients, the network, signals and callers of Quit owe nothing.

**Deadlock** is checked except in `net*`, where Main really may wait in join for
ever (see `net_quit`), and in `thread` and `orders*`, where the actors may have
nothing left to do; `CallsReturn` and `PackagesServed` cover the hangs there.

**Disagreements with comments.**

1. `protocol_keep`: `RecvSomething` passes what it consumed to `Drain`, and
   `Drain(0)` means "drop everything". A header or body that arrives in pieces is
   lost when nothing before it in the buffer was consumed in the same call.
2. `protocol_header`: header lines are searched for in all the text received, so
   a header that lacks a line borrows it from the next package.
3. `protocol_race`: `WithdrawDiplomat` on the main thread sets the offset to zero
   between the test and the subtraction of a `Drain` on the loop; the offset wraps,
   and the `memcpy` in the next line takes it for the number of bytes to copy, about
   2^64, and runs out of the buffer: the server crashes while it stops.
4. `net_quit`: `event_base_loopbreak` before the loop's thread dispatches is
   forgotten, and Main waits for that thread for ever.
5. `orders_loss`: `SendAux` tests `ret < 0`, but `Speek` fails with
   `kLibEventErr`, which is 2, so `Order::Excute` returns true for an order that
   was never queued. A Command looks at nothing else.
6. Without a run, since one line shows it: `Main` leaves after ten time-outs
   (`net_service.cpp:60`), although `net_service.h:27` says that it blocks until Quit
   or SIGINT. `TimedOut` has it; no property relies on it, and `RunningServerStops`
   starts from Quit or SIGINT.
7. Likewise: when `SetThreadPriority` fails in the Win32 build (`thread.cpp:229`),
   `start` throws and leaves the thread it has made suspended. Nobody gets a
   ThreadControl of it, although `thread.h:62` says that every thread must be joined
   with or detached, and the next `start` makes another thread (`PriorityFails`).
   `OneThread` therefore speaks of the threads that are resumed.

**Seen, but not in a run**, because no run could show more than the line does:

* With `N = 1` in `NetService` there are no hold events, and UnInit then does not
  free the signal event: `FreedOnce` needs two loops.
* In the Win32 build a `ResumeThread` that fails leaves `_started` set, so that
  `getThreadControl` answers and `join` waits for ever. `CallsReturn` excepts it.
* `ParseCommand` begins with the first child called "method" but goes on with
  siblings of any tag (`default_protocol.cpp:271`): `Methods` has it, and
  `AnswersMatch` admits their answers. The comment in `:269` speaks of several
  methods, and `NoneUnanswered` demands answers for these only.
* Two orders may get the same id, since `s_id ++` is not atomic (`order.cpp:75`). No
  document says that ids differ, and nothing in `src` compares them.
* `InitOrder` puts the id on the `method` element, while `ParseCommand` reads it
  from `name`: an order that this server sends to another CSCServer is never
  executed there.
* `RecvSomething` returns the number of packages, also of those that hold no
  command, where `default_protocol.h:113` speaks of commands dispatched.
* `RefCounter::Release` without atomics unlocks the mutex of the object after
  `delete this` (`ref_counter.cpp:57-59`); gcc from version 4 on and the Win32
  build have other code there.

## 4. Proofs

`IdentityMaster_proofs` (any `MaxIndex`): `TypeOK /\ NormalForm` is inductive.
`NormalForm` says that idle numbers lie below the counter and scattered ones above
it, and that neither adjoins it; without it the merging loops stop too early.
From it follows the refinement: `GetIdentity` issues exactly the smallest name
not in use, so every step is one of `NamePool` or a stutter.

`DiplomatMaster_proofs` (any connections, loops and names, from
`ThreadAssumption` and `MaxIndexAssumption`): the invariant `IInv` strengthens the
safety properties by

* `Places`: which connection each thread is at, and that no two threads build or
  free the same one;
* `Bufferevents`: a callback is queued or running at most once per connection and
  only on its own loop, and never on a bufferevent that is `free`;
* `Locking`: `mutex` is Main's exactly while it is in `FreeAllDiplomat`;
* `Stopping`: once the listener is disabled nobody is in `BuildDiplomat`, and once
  `FreeAllDiplomat` is over the dictionary is empty;
* `Holders`: the sets of references are exactly those that pcs and the dictionary
  account for, so a step that works on a connection has one;
* `Unregistered`, `Garrisoned`, `Withdrawals`: which of the objects exist, have a
  memo and have been withdrawn, by where the connection is;
* `IdsAccounted` as it stands.

Each action is a lemma per conjunct it can disturb. `TypeOK`, `NoUseAfterFree`,
`MemoReady`, `NoStaleEntry`, `IdsAccounted`, `StopReleasesAll`, `WithdrawOnce`
and `WithdrawnBeforeDeleted` follow from it.

`DiplomatMaster_refines`: `DiplomatMaster` implements `Connections`
(`ImplementsConnections`), from the same `IInv`. The phase of a connection is a
function of the dictionary and of the pcs, so the proof first settles what each
action does to the phase of its own connection, and then that it leaves the phases
of all others alone. `Places` is what makes the second half true: no two threads
build or free the same connection. `Connections` lets the server begin to stop only
when nothing is under way, which is `Stopping`.

`Thread_proofs` (any finite set of users, from `UserAssumption`; both builds, the
theorems are about `Spec \/ BuildSpec`): the invariant `IInv` joins

* `Counted`: the counter equals the number of references in scope. This is what
  makes `ref = 1` in `Release` mean "the last one", and it holds only because each
  `AddRef` has its `Release` on every path, the failing ones included;
* `Lives`, `OneDeleter`: the object lives while there are references, and between
  the decrement to zero and `delete this` exactly one actor is the deleter;
* `Locking`, `Starts`: one start at a time holds `_stateMutex`, and the new thread
  does not get past `_done` before that start has set the flags. A start that is
  past its test has found `_started` false and no thread that was resumed. That there
  is one when `_started` is set does not hold: a Win32 start whose `ResumeThread` fails
  leaves the flag behind, and the proofs do without it.

Every step adds one reference, removes one, or keeps them all (`Takes`, `Gives`,
`Keeps`), which gives both `Counted` and the refinement `ImplementsOwnership`.
`TypeOK`, `NoUseAfterFree`, `DoneIsFinal` and `OneThread` follow too. `OneThread` is
about `BuildSpec`, which has both builds: of the threads that are made one at most is
resumed, however many starts have failed before.

`NetService_proofs` (any number of loops, connections, rounds and posts): `IInv` is

* `Counting`, `Threads`: how far Main's loops over the threads in `Start` and `Stop`
  have come, and which loops have a thread that far;
* `Making`, `Freeing`: what `Init` made, that the members point to it until UnInit
  frees it, and that they are NULL from then on, so the second UnInit finds nothing;
* `HeldOpen`, `Listening`: each loop has events until it is told to break, and the
  listener is enabled only before Stop;
* `EvenLoad`, `Balanced`: while the listener is on, the bases that have had their turn
  are one connection ahead of those that have not, and all others are equal.

`TypeOK`, `HeldOpen`, `LoopsDoneBeforeTeardown` and `Balanced` hold without further
hypotheses. `FreedOnce` is proved for `N > 1`; with one loop it is false, as the end
of section 3 says, and what remains true then is `NothingFreedTwice`.

`Orders_proofs` (any connections, loops, application threads and packages; what a
package is made of is constrained by `PackageAssumption`): `IInv` is

* `Running`, `Places`: nobody works before `StartEmbassy` has filled `s_cmds`, and a
  loop that is in a package is on a connection of its own;
* `OrdersRight`: the order under construction answers the child that its loop is at.
  The shared `EchoController` would break this if it kept anything of a call;
* `Speaking`, `SendCntRight`: who has written and not yet counted holds
  `_mutex_speek`, and `_send_cnt` is behind what was sent by that order only;
* `Behind`, `AnsweredInOrder`, `AnswersMatch`: no answer is ahead of the child that the
  loop is at;
* `Complete`: each complete command behind that child has an answer that was sent, or
  that failed to be.

All of `TypeOK`, `AnswersMatch`, `AnsweredInOrder`, `SendCntRight` and
`NoneUnanswered` are proved.

`DefaultProtocol_proofs` (any packages and shapes, any sizes of buffer and limits,
any segments; from the assumptions of `DefaultProtocol`): `IInv` is

* `Kept`, `Withdrawn`: offset, capacity and the text in the buffer, without and with
  a `WithdrawDiplomat`;
* `Reading`: what `RecvSomething` leaves in the input buffer it has no room for;
  `Traced`: every cell, and every command executed, is of a package that was sent;
* `InOrder`, `Ahead`, `ServedInOrder`: first cells of packages lie in the buffer, the
  input and on the wire in the order sent, and all that are ahead of the cursor are
  of later packages than those executed. `Drain` and the skips only cut text out,
  which keeps an order.

`InBounds` is proved for `~Racing`, that is, without a `WithdrawDiplomat` inside a
`Drain`: that race does make the offset wrap (`protocol_race`). `TypeOK`,
`ServedInOrder` and `ArrivedIsRead` are proved with and without it. `ServedInOrder`
is proved for `Forward`; a copy from the back repeats cells, and that none of these is
taken for a command is only model-checked (`protocol`). All else is proved for
either direction of copying.

`DefaultProtocol_whole` proves `WholePackagesServed`, relative to that invariant:
when segments end between packages and fit into the buffer, and nothing is wrong with
a package but the number of sizes in its header, every well-formed command is
executed, also behind headers that are rejected. Its invariant `WholeInv` says of
such runs (`Calm`) that every cell of the text lies in a complete copy of its
package, up to the scraps of bodies whose headers were rejected (`Segments`, `Memo`),
and that every well-formed package sent was executed or is still whole on the wire, in
the input buffer or ahead of the cursor (`NothingLost`). The lemmas say what
cutting and joining text does to whole copies, and that the searches of
`ParseProtocolHeader` find the lines of the next package and never those of one
behind it. The theorem's hypothesis is `LowMark <= 3`, in cells: the text below
which `RecvSomething` does not look for a header must be no longer than a header of
the fewest lines. In the code the mark is 40 bytes and the keywords and line ends
of such a header are already 42. With a higher mark the last package of a burst could be
left lying.

Only model-checked:

* all liveness, since fairness and ENABLED are outside the prover's reach:
  `PendingReadIsServed`, `EofIsFreed` and `StopCompletes` of `DiplomatMaster`,
  `RunningServerStops` of `NetService`, `CallsReturn` of the threads, `RecvReturns` of
  `DefaultProtocol` and `PackagesServed` of `Orders`;
* `ServedInOrder` without `Forward`;
* the disagreements of section 3, which are counterexamples.

What recursive data processing computes for every input could not be proved: that
needs induction with an operator parameter. No module here declares a RECURSIVE
operator, and nothing proved needs it: where a search returns the least number with
a property, that there is one comes from the well-foundedness of `<` on the
naturals. The proofs say what the specifications do; that these are the code rests
on the reading of it.

## 5. What is not modelled

* `Dump`, logging, `EnvMaster`: no state that anything depends on.
* The XML of orders and the text of headers beyond what the code tells apart;
  TinyXML is an oracle: it accepts exactly whole bodies in `DefaultProtocol`, and
  gives the children of the root in `Orders`.
* Races inside libevent: a call into it is one step, although bufferevents are
  made without `BEV_OPT_THREADSAFE` and are used by two threads during Stop.
* Failure of `event_base_new`, `event_new` and `bufferevent_socket_new` (the
  accepted socket stays open then), and memory exhaustion. Init's failure to bind
  is modelled.
* `SetNoDelete`, `Peek`, `TestLock`: never called. `RefCounter` without atomics.
* Preconditions taken from the callers: `_embassy` is set, `concurrent_num > 0`,
  Stop is called once by Main.

## 6. Plan

Done: the inventory; all components that keep state, with the abstract
specifications `NamePool`, `Ownership` and `Connections`; proofs of every safety
and action property that the passing runs check, except for `ServedInOrder` where
memcpy copies from the back. Next:

1. **Composition**: `DiplomatMaster` with `RecvSomething`'s steps, so that
   `protocol_race` is a behaviour of the whole, and with the application's
   DiplomatPtrs of `Orders`.
2. **Proofs**: that an abstract specification of framing (packages in, commands out)
   is implemented by `DefaultProtocol` without segmentation; lemmas that `NetService`'s
   one-step `FreeAllDiplomat` agrees with what `DiplomatMaster` proves of it.
