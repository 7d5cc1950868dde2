# NetUtils: a TLA+ model of the threaded TCP server

NetUtils is a small C++ library for TCP servers: an engine listens on a socket
and accepts clients, a processor gives each client a worker, and a worker serves
its client with two threads that share one context. This directory holds TLA+
modules for that code, the TLC configurations that check them and TLAPS proofs
about them. Paths below are relative to `src/NetUtils/` in the repository.

## Inventory

| Part | Source | State | Operations |
| --- | --- | --- | --- |
| IOHelper | `IOHelper.cpp` | none between calls; the position in the buffer during one | `send_bytes`, `recv_bytes`, `hexdump` |
| SocketContext | `SocketContext.h` | `mClientFd`, `mRequest`, `mResponse` and a mutex for each | fields used directly; the destructor closes `mClientFd` |
| Worker | `services/tcp/multi_threads/ThreadsTcpBroWorker.cpp` | two event flags with mutex and condition variable, two `boost::thread`s | `doWork`, `handleReadEvent`, `handleWriteEvent`, `enable*Event`, `disbale*Event` |
| Processor | `.../ThreadsTcpBroProcessor.cpp` | none | `process`: a detached thread with a new worker |
| Engine | `services/tcp/ITcpBrokerServerEngine.cpp`, `services/IEngine.cpp` | `mFd`, `mIP`, `mPort`, `mSocketContextQueue` | `start`, `stop`, `restart`, the socket set-ups, the setters, the destructor |
| Accept loops | `.../ThreadsTcpBroServer.cpp`, `.../ThreadsTcp6BroServer.cpp` | those of the engine | `run`, `process` |
| Echo program | `.../utils/ThreadsEchoEngine.cpp` | one thread for each of two engines | `main` |
| Legacy servers | `services/tcp/TcpServer.cpp`, `.../IPV4ThreadsTcpServer.cpp`, `.../IPV6ThreadsTcpServer.cpp`, `.../ThreadsEcho.cpp` | `mFd` | `start`, `stop`, `initSocket`, `run`, `handleClient` |
| Legacy echo handlers | `.../ThreadsClientHandle.cpp`, the handlers in the two server files | `mMessageQueue` with `mMutex` and `mCond`, the context's `mClientFd` | `doWork`, `handleReadEvent`, `handleWriteEvent` |
| AsyncClient | `async_client/` | three callbacks | a stub; `connect` is empty |

How the parts interact. An engine's `run` blocks in `accept`, wraps the
descriptor in a context, queues the context and calls `process`. The worker's
recv thread appends to `mRequest`; its send thread waits for the write event and
sends a copy of `mResponse` with `send_bytes`. Whichever ends first closes the
descriptor in a scope guard, raises the other's event flag, interrupts it and
notifies its condition variable. All engines and workers of a process share its
descriptor table, and the kernel reuses a number as soon as it is free.

The engine was made from the older `TcpServer`, which has no processor: its
`run` gives each client a thread with an echo handler, whose recv thread queues
each message and whose send thread writes it back. No target compiles the older
code, and it no longer compiles against the present `SocketContext.h`; it is
modelled as written, since it is the source of the newer code and shows which
of its protections were kept and which were lost.

What is hard in this code:

- descriptor numbers are read without a lock and used later (`recv`, the whole
  of `send_bytes`, `accept`), while another thread may close them;
- shutdown of the two threads is a hand-made protocol of flag, interruption and
  notify, against a `std::condition_variable` that boost's interruption cannot
  end and a `boost::thread` object that is assigned after its thread runs;
- `send()`'s result is kept in an unsigned type;
- `stop` keeps a closed number in `mFd`, `start` has no lock, and a failed
  set-up leaves its socket open;
- an engine is destroyed beside the workers of its clients, and the contexts of
  IPv6 clients are closed by nobody else;
- in the older code: `close` and the reset of `mClientFd` or `mFd` are two
  statements without a lock, messages are notified after the unlock, one of two
  copies of the handler waits without a predicate, makes its messages of C
  strings and sends without `MSG_NOSIGNAL`, the other has time limits on
  `send` whose -1 goes into a `size_t`.

What makes each part correct: a transfer delivers the buffer or the stream
exactly and ends; a connection is opened once, closed once, and on its own
descriptor; requests and responses belong to their own peer; the end of a
connection ends its threads; an echo is the stream it answers; an engine loses
no listening socket to anything but a failed set-up, stops when told to and does
not stop another.
`PROJECT.json` lists the hazards line by line, with the properties that cover
each, or why none does.

## Modules

| Module | What it is |
| --- | --- |
| `SizeT` | `size_t` arithmetic modulo `SizeMod` |
| `SocketTable` | the kernel's descriptor table as the code uses it (external) |
| `ConnectionLifecycle` | the abstract specification: open once on a free number, close at most once, nothing else touches the table |
| `IOHelper` | one call of `send_bytes` or `recv_bytes`, an action for each outcome of one loop iteration |
| `ThreadsTcpBroWorker` | any number of workers on one table, with their peers and a program that uses their public methods |
| `ITcpBrokerServerEngine` | any number of engines and calling threads on one table, workers reduced to their effect on it |
| `ThreadsClientHandle` | any number of echo handlers of both families on one table, with their peers |
| `TcpServer` | the older servers: the engine's module with what differs, handlers reduced to their effect on the table |
| `SizeTProofs`, `IOHelperProofs` | theorems about `size_t` sums and the two loops |
| `ThreadsTcpBroWorkerProofs`, `ThreadsTcpBroWorkerDataProofs` | theorems about the worker: its descriptors; its threads and what they carry |
| `ThreadsClientHandleProofs`, `ThreadsClientHandleOrderProofs` | theorems about the echo handlers: control, descriptors and whose bytes; the order of the echo |
| `ITcpBrokerServerEngineProofs`, `TcpServerProofs` | theorems about the engines and about the older servers |
| `MCIOHelper`, `MCThreadsTcpBroWorker`, `MCITcpBrokerServerEngine`, `MCThreadsClientHandle`, `MCTcpServer` | values of the constants for TLC |

### IOHelper

`total` is `total_send` or `total_rb`. The buffer's bytes are their positions:
`wire` is the sequence of positions handed to the kernel, and `buf[i]` is the
stream position stored at `i`. `SendFails` is what `total_send += sb` does with
a -1 that became `SizeMod - 1`; the branch for `sb < 0` cannot be taken and has
no action. With the logger at TRACE the same iteration hexdumps `SizeMod - 1`
bytes, which is modelled as the end of the process, like the SIGPIPE of a broken
connection (`flags` is 0 in every call of the repository).

### ThreadsTcpBroWorker

Each thread has a program counter (`dpc`, `rpc`, `spc`). One step is the code
between two accesses to shared state. Code under `mReadMutex`, `mWriteMutex`,
`mRequestMutex` or `mResponseMutex` is one step; `mMutex` is explicit, because
`close` and the reset of `mClientFd` are two steps under it and readers do not
take it. Reading `mClientFd`, resolving the number in the kernel and waiting on
the socket are separate steps (`RecvLoadFd`, `RecvCall`, "blocked"), so a number
may be closed and reused between them. A thread asleep on a condition variable
moves only on a notify or a spurious wakeup. `SendAssigned` is whether
`mSendThread` names the thread yet. The loop of `send_bytes` is inside the send
thread, with `total` wrapping as in `IOHelper`.

`Accept` stands for `run` and `process`: because `accept` reserves its number
before it waits, the number need not be the lowest free one.

### ITcpBrokerServerEngine

A thread inside `start` goes through `check`, `socket`, `bind`, `listen`,
`assign`, then `load`, `accept`, `blocked` for each client. Sockets and
descriptor numbers are kept apart: `boundTo` and `listening` belong to the
socket, which lives while a number or a waiting `accept` refers to it, so an
address stays in use after `close` as long as `accept` waits. A worker is one
action, `WorkerEnds`, which is what the refinement of `ConnectionLifecycle` by
`ThreadsTcpBroWorker` justifies; IPv6 contexts have none, since their threads
return at the failed cast and the queue keeps the context.

`DestroyEngine` is the end of the engine object, which the echo program reaches
when `start` has returned; `~ITcpBrokerServerEngine` does not close `mFd`. The
contexts go one by one (`ReleaseContext`): an IPv4 context lives on in its
worker, an IPv6 one has no other owner and its destructor closes it.

### ThreadsClientHandle

`rpc` and `spc` are the two threads of a handler. `mMutex` covers the queue
only, so what runs under it is one step; `notify_one` after the unlock, every
read of `mClientFd`, `close` and the reset are steps of their own. The two
families are one program with a few differences, each in one place: `Awake` (the
IPv4 wait tests its predicate again, the IPv6 wait goes on), `RecvMsg` (an IPv6
message ends at the first `'\0'`), `SendSigPipe` (IPv6 sends without
`MSG_NOSIGNAL`), the time limits (`RecvTimesOut`, and -1 from `SendFails` on an
open IPv4 connection), `SendZero` (IPv4 closes the connection, IPv6 drops the
message) and `SendEnds` (IPv4 looks at `mClientFd` once more). `front()` on an empty queue is undefined behaviour:
`process` becomes "undefined" and nothing is claimed of what follows. A byte is
a client and a position in the stream of its peer, so the echo can be compared
with the stream and a foreign byte is recognised.

### TcpServer

The socket set-up and most of the accept loop are the engine's actions. Its own
are `CheckStarted` (`start` returns at once when `mFd` is set), `PtonFails`
(`return -1` from a function of type `bool`), `OptionFails` (a client's time
limits cannot be set: the loop ends and the client's socket stays open) and the
two steps of `stop`, `StopCloses` and `StopResets`, with `stopping` for the
threads between them.

## Runs

| Run | Configuration | Checks | States |
| --- | --- | --- | --- |
| `io` | `MCIOHelper.cfg` | `TypeOK`, `SendLeavesNoGap`, `ResendBound`, `CleanSendIsExact`, `RecvIsExact`, `BrokenCallReturns` | 597 |
| `io_true_means_sent` | `MCIOHelperTrueMeansSent.cfg` | `TrueMeansSent`, violated | |
| `worker_app` | `MCWorkerApp.cfg` | `TypeOK`, `DescriptorOwnership`, `ResponseReachesOwner`, `DoneWorkerReleases`, `ImplementsLifecycle` | 1.2 million |
| `worker_requests` | `MCWorkerRequests.cfg` | `RequestFaithful` | 1.4 million |
| `worker_shutdown` | `MCWorkerShutdown.cfg` | `PeerCloseReleases`, `ShutdownDecided` | 171,000 |
| `worker_quits` | `MCWorkerQuits.cfg` | `WorkerQuits`, violated | |
| `engine_pair` | `MCEnginePair.cfg` | `TypeOK`, `LeakBound`, `LateClients`, `LifecycleUntilSecondStop` | 1.3 million |
| `engine_stop` | `MCEngineStop.cfg` | `LoopKeepsListener`, `StopTakesEffect` | 227,000 |
| `engine_restart` | `MCEngineRestart.cfg` | `RestartListens`, violated | |
| `handle_pair` | `MCHandlePair.cfg` | `TypeOK`, `EchoReachesOwner`, `OnlyIPV6BringsDown`, `ImplementsLifecycle` | 120,000 |
| `handle_single` | `MCHandleSingle.cfg` | `EchoInOrder`, `PeerCloseReleases`, `EchoDelivered`, `OnlyIdleSendThreadStays` | 100,000 |
| `server_pair` | `MCServerPair.cfg` | `ServerTypeOK`, `LeakBound`, `ImplementsLifecycle`, `StartsAgain` | 412,000 |

Bounds, and why they are enough:

- `MaxLen = 3`, `MaxFaults = 2`, `SizeMod = 8`: every split of a buffer into up
  to three chunks, failures at the first, an inner and the last byte, and twice
  in a row. `SizeMod` only has to exceed `MaxLen + 1`.
- Workers: two connections, because a descriptor can only go wrong between the
  connection that lost a number and the one that got it. One number (`OneFd`)
  forces the reuse; two (`TwoFds`) let connections run side by side. One of the
  two is an IPv6 context, so that the worker whose threads return at once is
  present; it still takes the number and can receive stray bytes. A response of
  one byte already has the wraparound from 0; `MaxSent = 2` gives a stream an order.
- `ZeroSend` is the kernel returning 0 for a nonempty buffer, which `send_bytes`
  handles and TCP does not do. `worker_app` allows it, so that the send thread
  also ends first; `worker_requests` does not, and says why below.
- `worker_shutdown` has everything that could keep a worker from ending: a program
  that fills `mResponse` and switches both events on and off, a send that is
  partial, fails or returns 0, spurious wakeups, and reuse of the one number. Its
  peers send nothing (`MaxSent = 0`), since bytes that arrive only take the recv
  thread around its loop. The program may also do nothing, which is the worker as
  the repository runs it.
- Engines, `engine_pair`: the pair of the echo program, a third thread that stops
  or restarts the IPv4 engine twice and a fourth that calls the setters of the
  IPv6 one; four numbers for up to three sockets and two clients, so that the
  table does fill up. Two stops are needed for the number one engine keeps to go
  to a client, its own or the other engine's, and be closed again; two threads
  are in `start` of one engine when `restart` overtakes it. `engine_stop` is
  the pair without the setters, so that both engines are in the scope of
  `LoopKeepsListener`, with the stopped engine destroyed; two sockets in all are
  enough for a number to pass from the socket of one engine to the other's, or
  to a second socket of the same engine. TLC does reach both there, an engine
  destroyed whose `mFd` is the other's number, and a thread stopped between
  reading `mFd` and calling `accept`.
- Racing calls of `start` on one engine are not combined with a change of its
  address between them: they would bind both addresses and lose a socket, which
  `LeakBound` does not claim to exclude.
- Echo handlers, `handle_pair`: one of each family, with one number and one byte
  each, for what can go wrong between connections. `handle_single`: one handler of
  either family (`MaxAccepted = 1`) with streams of three bytes, any of them
  `'\0'`, for what can go wrong with the data: every cut into messages, two
  messages queued behind one in flight, a failure at the first and at an inner
  byte. `MaxErrors` bounds only the time-outs of an open connection. `send`
  returns 0 in `handle_single`, where branches depend on it; `handle_pair` is
  about TCP, where it does not.
- Older servers: the pair with a third thread that stops one twice and starts it
  once; one client is enough, since a stop can only go wrong with a number that
  a client got.
- Clients are interchangeable, so `engine_pair` uses symmetry; the runs with
  liveness do not, and the handlers do not, since the two differ in their
  family. Which unused socket `socket()` creates makes no difference, so
  `CreateSocket` chooses one.

Deadlock is not checked: a call of `send_bytes` ends, a process that was killed
stops, and servers wait for clients that need not come.

What the passing runs show beside the obvious. `SendLeavesNoGap` and
`ResendBound`: for all its faults the wraparound never skips a byte.
`DescriptorOwnership`: the two scope guards, each of which closes, are safe
because each resets `mClientFd` under the same mutex, so the second closes -1.
`RequestFaithful`: the unlocked read in `recv` is harmless as long as only the
recv thread closes first; it rests on `send_bytes` practically never returning
false. Its mutant repairs the type of `sb` and thereby breaks the property: with
the send thread leaving on an error, the recv thread can read another client's
stream. Whoever repairs `send_bytes` must also repair the worker.
`ResponseReachesOwner` states the exact condition under which a response goes to
the wrong client: its own connection is already over.
`PeerCloseReleases`: the end of the stream frees the descriptor with spurious
wakeups and whatever the send thread does; the exception is a recv thread
that found reading disabled by `disbaleReadEvent`, which may sleep for good,
since `enableReadEvent` notifies nobody. `ShutdownDecided`: the shutdown of the
send thread is decided when it is interrupted. It works if the send thread has
then not taken the raised flag yet, or is still on its way to its interruption
point, unless `send` waits for a stranger's peer on a reused number or a
program takes the flag back with `disbaleWriteEvent`. It fails for good if the
send thread has taken the flag and is past the point (a spurious wakeup before
the interruption is enough, also for one that slept), or if `mSendThread` was not
assigned yet: neither the notify that follows nor a wakeup helps, which is what
the violated `WorkerQuits` meets; only a program that raises the flag once more
repairs the first, and a `send` that returns 0 the second. `DoneWorkerReleases`: when `doWork` returns, the
descriptor of an IPv4 connection is closed, and that of an IPv6 one is not.
`LifecycleUntilSecondStop` is
the price of the number that `stop` keeps: any single stop is safe, and a
second one of the same engine can close a client's connection (without the
exemption, `ImplementsLifecycle` fails in the same run). It holds where
setters and stoppers work on different engines, as in the run: an engine that
`setListeningSocket` gave the number of another one can close a client at its
first stop, when the other engine has closed the number before.
`LateClients` counts clients by the socket they came through, not by the number:
a thread that waits on a socket when `stop` closes it lets in one more of its
clients, and any other thread none, the one between reading `mFd` and calling
`accept` included. `StopTakesEffect`: that a stopped loop ends is true only as
long as the kept number names no listening socket. Once it names the other
engine's, or that of a `start` that was past its check when `stop` came, the thread
serves that one. `LoopKeepsListener` is the other side: an engine that was not
stopped finds its socket at every `accept`, until some engine is stopped twice
(without that exemption it fails in the same run).
`EchoReachesOwner` and the `ImplementsLifecycle` of the handlers: although
`close` and the reset have no lock, one thread does both, so connections are
opened and closed properly, and a stray echo comes only from a connection that
is over. `OnlyIPV6BringsDown`: the predicate of the IPv4 wait is what keeps the
notify after the unlock harmless; TLC does reach the undefined state and the
SIGPIPE with the IPv6 copy. `EchoInOrder`, `EchoDelivered`: without a failed
`send` no cut of the stream and no timing of the notify loses, repeats or
reorders a byte, NUL bytes on IPv6 apart. `OnlyIdleSendThreadStays`: when a connection is over, its send
thread ends wherever the close finds it, except asleep with every message taken.
There an IPv4 one stays for ever, since its predicate asks only for a message,
and with it `doWork` and the handler; the notify after the reset was meant for it.
`StartsAgain` holds for the older server, whose `stop` resets `mFd`,
and its counterpart `RestartListens` does not for the engine made from it; the
price of the reset is one more way to lose a listening socket (a stop that
overtakes `start`), which `LeakBound` counts.

The three violated properties are disagreements between the code and its own
text, recorded as findings in `PROJECT.json`: `send_bytes` returns true without
sending; a send thread can miss its shutdown and `doWork` never returns;
`restart` of a running engine always fails.

### Fairness

`FairSpec` of `IOHelper` assumes weak fairness of the calling thread; of
`ThreadsTcpBroWorker`, of each of the three threads of a worker, the
waits of `recv` and `send` for a peer excepted; of `ITcpBrokerServerEngine`, of each
thread inside `start`; of `ThreadsClientHandle`, of the two threads of a handler; of
`TcpServer`, of each thread inside `start`, its wait in `accept` excepted, and
of the rest of a `stop` that has closed. These are ordinary
threads that the operating system schedules; each waits only for a mutex, a
condition variable, a join or a system call, and those waits are in the guards.
Peers, programs, spurious wakeups, new connections and `accept`'s answers have
no fairness. An IPv4 handler's `send` returns at the latest by its time limit;
that an IPv6 peer reads, or is gone, is assumed by the liveness runs of the
handlers, and only `EchoDelivered` and `OnlyIdleSendThreadStays` depend on it. In the new
worker, a `send` to a peer that does not read may block for ever, and its fairness
does not say otherwise (`SendWaits`); `BrokenCallReturns` starts from a broken
connection, where `send` does not block.

## Proofs

All theorems hold for every value of the constants that meets the named
assumptions (`SizeModAssumption`, `FdsAssumption`, `IOAssumption`,
`WorkerAssumption`, `HandleAssumption`, `EngineAssumption`), which TLC evaluates
in every run. Every invariant that a run checks, and every refinement, has a
theorem; each inductive invariant was checked by TLC before it was proved. Four
hypotheses appear in theorems. TLC finds each of these properties violated on
small instances that do not meet the hypothesis, except `LeakBound` without
`OneStopper`, whose proof rests on the same facts as `ServerRefinement`:

| Hypothesis | Used by | Why |
| --- | --- | --- |
| `~ZeroSend` | `RequestsFaithful`, `HandleRefinement`, `EchoesReachOwner`, `EchoesInOrder` | `send` does not return 0 for a nonempty buffer, which TCP does not do; if it did, the send thread would close too, beside the recv thread |
| `SettersApart` | `EngineRefinement`, `EngineKeepsListener`, `EngineLeakBound` | no engine that is stopped is also given a socket by `setListeningSocket`, which nothing in the repository calls: the number may be stale at its first stop |
| `[][address' = address]_vars` and one stop | `EngineLeakBound` | two calls of `start` with a change of address between them both bind, and the later assignment drops a socket; a second stop can free the number of a socket that is being set up |
| `OneStopper` | `ServerRefinement`, `ServerLeakBound` | two threads inside `stop` of one older server both read the number before either resets it, and the second closes whatever has it by then |

`IOHelperProofs`. `IOInvariant` proves `Spec => []IOInv`. `SendLeavesNoGap` alone
is not inductive: it says nothing about where the next chunk starts. `SendInv`
relates `total` to `wire` (the next position is at most one past the last one
sent, and after the wrap past `len` nothing more is sent), `RecvInv` relates
`total`, `consumed` and `buf`, and `ResultInv` says what each result implies.
From it: `IOTypeCorrect`, `SendNeverSkips`, `SendRepeatsLittle`, `CleanSendExact`
and `RecvExact`.

`ThreadsTcpBroWorkerProofs`. `TypeCorrect` proves the type invariant.
`OwnerInvariant` proves `OwnerInv`: types, `GuardInv` (who holds `mMutex` is
exactly who is between close and reset, and a connection not yet accepted has no
descriptor) and `DescriptorOwnership`. The middle part is needed because ownership
is suspended while a guard runs. From it: `Ownership`, and `Refinement`, that the
workers implement `ConnectionLifecycle`; each action maps to `OpenConnection`, to
`CloseConnection` (the one close that finds the descriptor) or to a stutter.

`ThreadsTcpBroWorkerDataProofs`. `ThreadInv` says how the three program counters
of a worker fit together (`doWork` waits for a thread only after it was started,
an IPv4 recv thread that is past its guard has closed) and `KeptInv` that the
number `send_bytes` keeps is `mClientFd` until the recv thread leaves its loop. With `OwnerInv`
they give `DoWorkReleases` and `ResponsesReachOwner`. `RequestsFaithful` needs
`StreamInv` as well: with `~ZeroSend` the recv thread is the only one that closes
first, so the socket `recv` waits on is its own, and `mRequest` is that peer's
stream as far as it was taken; the sequence lemma is that two consecutive runs
of bytes joined are one run.

`ThreadsClientHandleProofs`. `IPV4NeverBringsDown` proves `OnlyIPV6BringsDown` for
any set of handlers, from `WaitInv`: an IPv4 send thread is never "woken", that
is, past its wait without having seen a message. `HandleTypeCorrect` proves the
types, with lemmas on what `CString` and `SubSeq` make of a stream. `OwnerInv` is
types, `HandleInv` (the numbers `recv` and `send` are called with are
`mClientFd` while the recv thread is in its loop, and the send thread closes
nothing) and `Owned` (an open connection's number is its own); it gives
`HandleRefinement` and, with `OwnBytes` (a handler holds only its own peer's
bytes), `EchoesReachOwner`.

`ThreadsClientHandleOrderProofs`. `EchoInOrder` speaks only of what came back, so
`OrderInv` follows every byte from `recv` on: while the peer is open and no
`send` has failed, what came back, the rest of the message in hand and the
queue form one line of strictly ascending places up to `consumed`, and a place
missing from the line follows a `'\0'` of an IPv6 peer with everything between
missing too. Reading appends to the line, taking a message and a `send` move its
parts, and everybody else's steps leave it alone (`LineKinds`); when the peer
has closed, the order of what came back is all that is kept. `EchoesInOrder`
follows for streams and messages of any length.

`ITcpBrokerServerEngineProofs`. The actions are taken in four groups, set-up,
accept loop, setters and `stop`. `EngineTypeCorrect` needs `KnownProtocol`.
`StoppedSocketEnds` is proved from `LateInv`: a socket has one number at most
(`UniqueName`), a socket that `stop` closed has none (`Gone`), and only threads
that `stop` caught in `accept` wait on it, until their late client (`Spent`). `EngineRefinement` is
proved from `Names(L)`: a start that holds a number holds it alone, `mFd` of an
engine in `L` names a listening socket, a waiting `accept` has its reserved
number to itself, and the number of a context and the entry of the table name
each other; `L` is the set of engines not yet stopped and without setters, and
what a stopped engine keeps is left out of it. `EngineKeepsListener` adds
`ListenNames(L)`: the sockets of the engines in `L` listen, and the number with
which one of their threads is about to call `accept` is in no other `mFd` of `L` and
in no set-up, so that nobody closes it.
`EngineLeakBound` is proved from `LeakInv`. `Orphans` alone is not inductive: a
stale `mFd` can come to name a lost socket and lose it again. `LostInv` counts a
number as kept only by an `mFd` on its own address, and bounds the rest by
`abandoned`; `Progress` and `OneListener` say that of the sockets that race through
`start` of one engine only one gets past `listen`, since all of them want the
engine's address, so `AssignFd` never overwrites a socket that is still good.

`TcpServerProofs` uses the same lemmas for the steps that the older servers share
with the engines. Its `Names` cover the servers that no thread is stopping right
now: the reset makes a server reliable again, so any number of stops is allowed,
which is the difference to the engine. From it: `ServerTypeCorrect`,
`ServerRefinement` and `ServerLeakBound`.

Only model-checked: the liveness properties (`BrokenCallReturns`,
`PeerCloseReleases` of both families, `ShutdownDecided`, `StopTakesEffect`,
`EchoDelivered`, `OnlyIdleSendThreadStays`, `StartsAgain`),
which rest on fairness and ENABLED and are out of the prover's reach, and the
three violated ones, which are counterexamples.

## Not modelled

- Logging, text formatting and `hexdump` apart from its overrun.
- `mIsRunning`, `mIsDumpRequest`, the byte and connection counters of an engine:
  nothing reads or updates them. The engine constructor with only a tag leaves
  `mFd` uninitialised; no class uses it.
- The workers inside the engine: the two modules on one table are beyond TLC (a
  worker alone has a million states). `WorkerEnds` and `HandlerEnds` stand for
  them, and the refinement of `ConnectionLifecycle` by the workers and the
  handlers is what makes that sound: to the table a connection is one that is
  closed once, some time.
- An IPv6 echo message that fills the whole buffer of 1 MB and has no `'\0'`,
  which is read past its end.
- Failures of `send` on an open connection of the newer worker: its sockets block
  and have no time limit, so `send` fails there only when the connection is broken
  or the number no longer names it.
- `setListeningSocket` with anything but a socket that another engine listens on,
  and failures of `socket` other than a full table.
- That descriptors of IPv6 clients are given back when their engine is destroyed
  is an action, `ReleaseContext`, but no property: it restates the destructor.
- Two threads inside `stop` of one older server at once.
- The socket option callbacks of `TcpServer`: nothing applies them.
- IPv4 address parsing: an address that `inet_addr` does not understand is one
  more way for `bind` to fail.
- Windows branches.
- `AsyncClient`, a stub that no target builds and that does not compile, and the
  empty placeholders.

## Plan

1. Done: `SizeT`, `IOHelper` with its proofs; `SocketTable`,
   `ConnectionLifecycle`, `ThreadsTcpBroWorker` with its proofs;
   `ITcpBrokerServerEngine`.
2. Done: the older family, `ThreadsClientHandle` and `TcpServer`.
3. Done: engines that end; a second stop, with the exact condition under which it
   reaches a client.
4. Done as far as TLC reaches: engine and workers are composed through
   `ConnectionLifecycle`, not state by state (see above).
5. Done: theorems for every safety invariant and refinement of the runs, for
   workers, echo handlers, engines and older servers.
6. Left, proofs: that the send loop inside the worker implements `IOHelper`'s,
   and the safety half of the liveness properties (what each wait waits for).
