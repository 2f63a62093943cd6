# lafrpc in TLA+

lafrpc is an RPC library in which two connected programs call each other over
one multiplexed connection. There is a C++ implementation on top of the
coroutines and channels of qtnetworkng (`src/cpp`), and a Python one that brings
its own channels and runs on gevent, eventlet or threads (`src/python`).
This directory holds TLA+ models of its concurrent core, the TLC runs that
check them, and TLAPS proofs of what matters most.

## The system

| Component | State | Operations | Interacts with |
|---|---|---|---|
| C++ `Peer` (`peer.cpp`) | `waiters` by request id, `broken`, the coroutine group | `call`, `handlePacket`, `handleRequest`, `shutdown` | its DataChannel, its Rpc (`removePeer`), registered methods |
| C++ `Rpc` (`rpc.cpp`) | `peers` (multimap), `connectingEvents`, `knownAddresses`, servers | `connect`, `preparePeer`, `removePeer`, `setAddress`, `shutdown`, servers, raw sockets | transports, peers, the event loop |
| C++ transports (`transport.cpp`) | `rawConnections` with time stamps | `connect`, `makeRawSocket`, `takeRawSocket`, `handleRequest`, HTTP upgrade | sockets, Rpc |
| C++ files and directories (`sendfile.cpp`, `senddir.cpp`) | progress of a transfer, hash, entries | `writeTo`, `readFrom`, state save and restore | the sub channel or raw socket of a call |
| C++ serialization (`serialization.cpp`) | registered classes | `saveState`, `restoreState` | messages |
| Python `Peer` (`peer.py`) | `waiters`, `broken`, a lock | as in C++ | channel, scheduler, Rpc (signal `disconnected`) |
| Python `Rpc` (`rpc.py`) | `peers` (one per name), `connecting_events`, a lock | as in C++ | transports, peers |
| Python `DataChannel` (`network.py`) | sending and receiving queue, `channels`, `pending_channels`, `go_through`, `capacity` | send, receive, sub channels, flow control, keepalive, `close` | queues and tasks of the scheduler, socket |
| Python files (`sendfile.py`, `base.py`) | progress of a transfer, `UseStream.ready` | `read_from`, `write_to` | the virtual channel of a call, the peer that makes or takes it |
| Python schedulers (`scheduler/`) | tasks by name; the queue's `getters`, `putters`, `_event_unlock` | `spawn`, `kill`, `kill_many`, events, queues, locks | everything above |
| Python deferreds, transports, serialization | - | - | - |

What is hard about it:

- **Many coroutines, one map.** Callers block in `call` at five places while the
  connection may break, the application may shut down, and other callers do both.
- **Nesting.** A method may call back over the connection it was called on; the
  shutdown of a peer may start in a coroutine that the shutdown waits for.
- **Streams.** A request or a response announces a sub channel that another
  coroutine has to claim, or release when the call fails.
- **Dials.** Many coroutines connect to one program under its name and under its
  address while it connects to us.
- **Staleness.** `broken` is set long before the peer leaves the map.
- **Locks.** The Python classes keep a lock while they kill and join tasks, and the tasks
  want the lock on their way out.
- **Flow control.** Packets and commands of both directions cross each other on one
  connection, while queues grow, capacities change and either end closes.
- **Wake-ups.** On gevent whoever changes a queue schedules a callback, inside which the
  woken tasks run and change the queue again.

For each component, what makes it correct:

- *Peer*: a reply reaches its call and no other; a method runs at most once per
  call; every call ends if the connection does; nothing is left behind by a call
  that was interrupted (waiters, sub channels); a shutdown completes and spreads.
- *Rpc*: one dial per address; everyone who waits for it is woken, and gets its
  peer; the removal of a peer is the removal of that peer; a connect ends.
- *Transports*: a raw socket that was acknowledged can be taken exactly once.
- *Transfers*: success on one side means the data is there on the other, and both end.
- *Python channel*: no packet is lost or overtaken; a stopped sender is let go again; close
  wakes whoever waits, and both ends of a virtual channel close.
- *Python peer and Rpc*: as in C++, without deadlock on their locks; the scheduler runs the
  task of the registered peer, under whose name it is killed.
- *Python queue*: no item and no wake-up is lost.

`PROJECT.json` lists the components with their status, and under `hazards` the
lines where each of these can go wrong.

## Modules

| Module | Models |
|---|---|
| `RpcCall` | the abstract specification of one remote call |
| `Peer` | two C++ peers on one connection |
| `Registry` | the peers of one C++ `Rpc` |
| `PyPeer` | two Python peers on one connection, on gevent |
| `PyRegistry` | the peers of one Python `Rpc`, on gevent |
| `PyChannel` | two Python socket channels, their virtual channels and flow control |
| `PyStream` | a file that travels with a Python call |
| `PyQueue` | the queue of the gevent scheduler |
| `Subsequences` | what is left of a queue when a channel takes its packets out of it |
| `MC...` | the instances of each for TLC |
| `...Proofs` | the theorems about each and their proofs; `PyChannelDataProofs` goes on where `PyChannelProofs` ends |

`Peer` and `PyPeer` both implement `RpcCall`. Each takes from the layer below what that
layer's module checks: the peers that packets stay in order and a lost connection is noticed
(`PyChannel`), `PyChannel` that a waiter of a queue is woken when there is something for it
(`PyQueue`), `PyStream` that what is sent on a virtual channel arrives while both ends are
there (`PyChannel`), and `PyRegistry` how `Peer.shutdown()` waits for `handle_packet`
(`PyPeer`).

Definitions whose comment starts with *Wrong:* are plausible bugs in the code.
They are part of no specification; they show that each property can fail.

### Coroutines

Coroutines of qtnetworkng switch only where they block, so one action is the code
from one blocking call to the next, and `pc` and `hpc` name the blocking call. What
is assumed of qtnetworkng, which is not part of the repository:

- packets of one direction stay in order; when the connection is down the reader
  may miss any suffix of them, and reads no more after an empty packet;
- a blocking call of a coroutine that is killed, or whose timeout ends, throws;
- `CoroutineGroup::killall()` kills every coroutine of the group but the current
  one and then joins them;
- `makeChannel()` announces the sub channel to the other side, `takeChannel()`
  takes an announced one, and a sub channel that is destroyed is announced too.

### `Peer`

`pc[c]` is where `PeerPrivate::call` of call `c` is: `header` (headerCallback),
`channel` (makeChannel, makeRawSocket, packing), `sending` (sendPacket), `waiting`
(tryWait), `closing` (shutdown after a failed send), or how it ended. `waiters[s]`
is `PeerPrivate::waiters`, `event[c]` the value of the call's waiter. `hpc[c]` is
where `PeerPrivate::handleRequest` of the other side is, `reply[c]` the response
it computed. `phase[s]` is how far `shutdown()` of side `s` is and `closer[s]` the
call whose coroutine runs it: `killall()` joins all the others, so a method that is
waiting in a call which runs `shutdown()` is not joined. `pending[s]` is the queue of
sub channels announced to `s`, `mine` those whose maker still holds them, `wire[s]`
the packets on their way to `s`, `link` whether the connection is up.

The constants say which side makes each call (`Caller`), in which call's method it
is made (`Inside`), which coroutines the application may kill or time out inside the call
(`Interruptible`; a method may put a timeout round a call of its own), and which calls pass
or return a stream.

The stream of a response is lost on one path. If the caller is killed in `sendPacket`, or when its
waiter was signalled and `tryWait` has not returned yet, the response has found its waiter, so that
`handlePacket` does not drop the sub channel, and nobody takes it: it stays in the queue until its
maker destroys it. `Forsaken` names this case, the one exception of `StreamsAreClaimable`.

Each block of actions is one C++ function: `Enter` to `Interrupt` is `call`,
`Dispatch`, `Deliver` and `EndOfPackets` are `handlePacket`, `Reject` to
`ResponseSent` are `handleRequest`, `BeginShutdown` to `UserShutdown` are `shutdown`.
`ChannelMade`, `ChannelDestroyed`, `DropStream` and `LinkFails` are the library.

Left out: packets that no peer sends (malformed ones); a `Rpc` that is destroyed
before its peers (`rpc.isNull()` acts as `broken` does wherever it is read); what
travels over a stream; raw sockets, which are made and taken in the step that makes
or takes the sub channel; a method whose own coroutine runs `Peer::shutdown()`, which `killall()`
would pass over.

### `RpcCall`

A call is idle, pending, returned, raised or failed; its invocation has not run, runs,
is lost, or produced a value, a stream or an exception. The method runs at most once,
and the caller gets what it produced, or fails. `Peer` implements it under the mapping
`ClientView`, `ServerView`.

### `Registry`

`pc[c]` is where `Rpc::connect` of caller `c` is: `dialling` (transport->connect),
`greeting` (recvPacket in preparePeer), `waiting` (the event of somebody else's dial).
`connecting` is `connectingEvents` with the dialler in place of its event, and
`signalled` the diallers whose event is set. `peers` with `older` and `name` is the
multimap: `older[p]` are the peers present when `p` was inserted, which is what
`QMultiMap::value` needs to find the newest. `phase[p]` is how far the peer's own
shutdown is, as in `Peer`: `live`, `closing`, `closed` (the functor of line 197 is
scheduled), `gone`. `stage`, `toClose` and `closes` are `Rpc::shutdown()`.

Left out: an application that calls `preparePeer` itself with the address of
somebody else's dial; the address of an inbound peer, which is that of its socket
and which nobody dials; use after the destructor.

### `PyPeer`

The Python peer is built like the C++ one, with three differences that matter. A
lock guards `broken` and `waiters`, and `shutdown()` holds it while it kills the tasks
of the peer and joins them one after the other. The waiter is registered after the request
was sent. And a lost connection is handled by `clean()` in `handle_packet`, which
leaves the callers and handlers alone.

`pc[c]` is where `_call` is: `header` (make_header_callback), `sending` (send_packet),
`sent` (written, and about to run again), `waiting` (the event), `closing`
(`self.close()`), `dying` (killed, and back for the lock in the finally clause).
`hpc[c]` is the task `handle_request` (`closing` when the method runs `shutdown()` of its peer, whose
`kill_many` then kills the method as well and abandons the shutdown), `receiver[s]` the task
`handle_packet` (`delivering` and `failing` while it waits for the lock, `cleaning` in `clean()`: killed in
`recv_packet` it goes on to `clean()`, killed at the lock it ends), and
`phase[s]` how far the end of side `s` is, `killing` while `shutdown()` is in `kill_many`
with the lock. All other uses of the lock end before their greenlet switches, so the
lock is the predicate `Free(s)`. `doomed[s]` are the handlers that `kill_many` found;
`handle_packet`, spawned first, is killed first. `open[s]` is `channel.is_ok()`.

Assumed of gevent: greenlets switch only where they block; a kill waits for its
target; and callbacks of the loop run, in order, before the sockets are read again. The last
is why `Deliver` waits for a caller in `sent`: the response to a packet is read
after the caller that `send_packet` woke has run.

A method may return a `Deferred`: `hpc` is then `deferred`, in `wait_deferred()`, until
`callback()` gives the result. `errback()` uses `Event.send_exception`, which on gevent stores the
exception and wakes nobody, and a Deferred that was fired before does not run the callback
that would wake the handler: `hpc` is `stranded` in both cases, until `shutdown()` kills the task.

Left out: streams (`PyStream` has them) and raw sockets, what the thread scheduler does
differently, a timeout that a method puts round a call of its own, and a `handle_packet` that is killed
before it ran at all. `kill_many` kills by the pattern
`<name>-*`, so that it also kills the tasks of a peer whose name begins so; the model has one
name on each side.

### `PyRegistry`

A connection is named after the caller that dials it, or is one of `Inbound`. `pc[c]` is
where `connect()` of caller `c` is: `dialling` (transport.connect), `waiting` (the event of
another dial), `greeting` (`prepare_peer`), `blocked` (in `is_ok()` of a peer whose
`shutdown()` has the lock of the peer; `connect()` has that of the Rpc). `stage[k]` is how far
connection `k` is. In `joining` it is in the constructor of `Peer`, where `spawn_with_name` has killed the
task that runs under the name of the peer and waits for its end; in `registering` its task runs, and it
waits for the lock of the Rpc, which somebody keeps for ever; in `killing` it is in
`Peer.shutdown()`, where `kill_many` has taken the task of that name out of the dictionary, killed it
and waits for it. `joins[k]` is whose task it waits for. `peers`, `known` and `connecting` are the
dictionaries of the Rpc, the last with the caller that made the event in place of the event, and
`tasks` that of the scheduler. `holder` is who keeps the lock of the Rpc while it is blocked.

The model keeps what the code does where one would expect otherwise. A dial that fails leaves its
event in `connecting_events`, not set: whoever asks for this address later waits until the timeout and
gets nothing, and nobody dials it again. A waiter is given any peer at the address, whether or not it is
ok. A peer that gives another name than the one asked for is refused, and its channel stays open. An
inbound connection makes its own ephemeral address the known one of its name. A peer that is
replaced while it is being closed keeps the new connection from being installed for ever, since
`shutdown()` waits for the task that waits for the lock of the peer.

Tasks are killed by name. Two connections of one name may wait for the same older task; when it has
ended both are installed, and the second overwrites the first in both dictionaries while the task of
the first runs on. When somebody then closes the first (the application, or a `call()` whose send
failed), `kill_many` ends the task of the second, which is registered and works: it leaves the
dictionary and its connection is lost. `RegisteredIsRun` and `OnlyBrokenLeave` name the case
(`Displaced`, `EndedForAnother`): a working peer is ended only by another connection of its own name
that is being made or closed, and never because one ends by itself. The repository says nowhere
what should happen to it.

Left out:

- `start_servers` and `stop_servers` beyond the fact that connections may come in, and raw sockets;
- a task `handle_packet` that is killed before it first ran, and so never runs `clean()` (a new
  task is taken to run before the next kill), and a kill during `clean()`;
- names of which one begins with another, which the pattern of `kill_many` takes together;
- `Rpc.shutdown()` when no peer has a task to wait for, and what it does after the peers: it is modelled
  up to the first peer with a task, which it joins with the lock of the Rpc that the task needs on its way
  out, so that `peers = {}` and `kill_all()` are not reached.

### `PyChannel`

`state[s][c]` is the end of channel `c` at side `s`: a virtual channel is `pending` until
`take_channel` finds it, `dropped` if it was destroyed before, and `closed` once its error is set.
`queue`, `writing` and `wire` are what `_do_send` has before it, in `sendall()` and has written;
`rx` is the `receiving_queue`, `go` is `go_through`, and a packet is a number that counts the packets of its
channel. `pc[t]` is where a task of the application is: `stopped` (go_through.wait), `released` (about to
return from it), `queued` (done.wait), `getting` (receiving_queue.get). `closing[s]` is
how far `SocketDataChannel.close()` is: between `begun` and `done` it kills the other
tasks of the channel and waits for them, and if its own greenlet is killed there it is `never` done
(the application kills its task, or `kill_all()` one of the channel's).

On gevent a sender whose packet is dropped, because the connection or its own channel closes,
is never woken (`send_exception` again): it stays `queued`, and `QueuedHasPacket` says that
there are no other such cases. Two tasks that receive from one channel could take the
`IOError` that `close()` put for the other; the model has one receiver for a channel. A virtual channel
may be made on a connection that is closed already: nobody closes it, and a task that receives from
it waits for ever. `ReceiversReleased` speaks of those who wait when `close()` ends, and not of this one.

Left out: virtual channels of virtual channels, the limits on the size of a packet, malformed
packets, and the schedulers of eventlet and threads, with which a packet may be queued between
the drain of `close()` and the end of the sending task.

### `PyStream`

One file is the argument or the result of one call. The *maker* is the side that announces
it (the caller, or the handler), the *taker* the other. `mk` and `tk` are where the tasks of
the peers are, `me` and `te` the two ends of the channel, `ready` the event of `UseStream`, `sender` and
`receiver` where `RpcFile.read_from` and `RpcFile.write_to` are. A block is the sequence of the
positions of its bytes, and `file` says what was announced and what is on the disk when it is sent: fewer
or more bytes, another hash, or no hash. The application writes the file it is given in the task that was
given it, and sends the one it announces in another, which runs only after the call has initialised the
stream.

The sender ends when the taker has closed the channel, which it does when nobody refers to the
stream any more: this closing is the confirmation. `SenderEnds` and `ReceiverEnds` name the cases in which
the code leaves somebody waiting: a request that is refused, a request or a response that finds nobody, a channel
that is no longer there to be taken (`_set_ready()` of a stream that was not initialised raises), and a sender
that fails while its call waits for the answer.

Left out: flow control (in `PyChannel`); the hash and progress callbacks; the transfer over a raw
socket, which ends in an `AttributeError` (`_sendfile` uses `sent_bytes`, which no class sets).

### `PyQueue`

The queue is a copy of gevent's, with `return_many_forcely` of `gevent.py`. One task has the
`turn` until it blocks, and a task that `_unlock()` wakes runs inside it: `at` is where the callback
goes on when the task blocks, at the half that serves `putters` or the one that serves
`getters`. `held[t]` are the items that task `t` has got and may give back; they go back in the
reverse order, as the code does it. `Places(k)` is where item `k` is, and `failed` are the items whose `put()`
was interrupted; `TypeOK` says that every other item is in exactly one place, which fails as soon as a woken or an interrupted task
is left in a queue of waiters.

Left out: calls that do not block and calls made by the hub itself, which lafrpc never makes.

## Runs

The `.cfg` files give the constants. All passing runs finish; TLC explores every
state of the instance.

| Run | Instance | Shows |
|---|---|---|
| `peer_streams` | a call with a stream both ways and a call back from its method with a stream as result, either interrupted | `TypeOK`, `CallersReachable`, `WaitersAreCalls`, `StreamsAreClaimable` |
| `peer_nested` | three calls nested in each other, with fairness | `ImplementsRpcCall`, `EveryCallSettles`, `BrokenReleasesCallers`, `ShutdownSpreads` |
| `peer_active` | two crossing calls | `ActiveMeansCalling` is violated (finding) |
| `py_calls` | a Python call and a call back from its method, with fairness | `TypeOK`, `WaitingIsReachable`, `ImplementsRpcCall`, `LostConnectionReleases` |
| `py_shutdown` | the same | `ShutdownCloses` is violated (finding) |
| `registry_connect` | three callers (two by address, one by name), one inbound connection, two names | `TypeOK`, `EventsAreDials`, `NoWaiterForgotten`, `NoTwins`, `WaitersShareTheDial`, `OnlyBrokenLeave` |
| `registry_ends` | three callers, two addresses, with fairness | `ConnectEnds` |
| `registry_reconnect` | three callers | `ConnectReconnects` is violated (finding) |
| `py_registry` | three callers (two by address, one by name), one inbound connection, two names, with fairness | `TypeOK`, `RegisteredIsRun`, `DialsAreAnnounced`, `OnlyBrokenLeave`, `ConnectEnds`, `BrokenLeave` |
| `py_flow` | one virtual channel, a sender and a receiver, three packets, capacities 2 and 1, with fairness | `TypeOK`, `NothingLost`, `StoppedHasReason`, `QueuedHasPacket`, `ReceiversReleased`, `StoppedSendersGoOn`, `SubsCloseTogether` |
| `py_stream` | a file of up to three bytes in blocks of two, as argument or as result, with fairness | `TypeOK`, `ReceivedIsFile`, `ConfirmedIsReceived`, `SenderEnds`, `ReceiverEnds` |
| `py_queue` | three tasks, three items, no bound or room for one item, with fairness | `TypeOK`, `WakeUpPending`, `WaitersMeet` |

**Bounds.** Each call is made once and each caller connects once; ids are unique, so
a second use is a second call. The wire needs no bound: a finite number of calls sends a
finite number of packets. A call and a call back from its method are a caller and a handler
on each side, with streams in both directions, with or without the nesting (the second call has its own
request, response and coroutines, and either may be killed); three calls
nested in each other are the least for a method that waits, through a method of the
other side, for a second method of its own side (what a receiving coroutine that handled
requests itself would block on); they also put two callers on one side. In `peer_nested` only the outermost of the three is in
`Interruptible`: with the others the graph is too large for the liveness properties. For the
Python peers a call and a call back from its method are the least with a caller and a handler
on each side, and a `shutdown()` that has a waiting handler to kill. In the registries a dialler, a waiter and a third
caller that comes after either are three callers; a second name is needed for a program
that answers with another name than was asked for, and a second address for a name whose
address changes during the dial; an inbound connection of the same name is what a dial
replaces, or is replaced by.

In the channel three packets (`MaxPackets`) fill a queue of capacity 2 (`High`), overrun one
whose capacity was lowered to 1 (`Low`), and leave one that is sent after the sender was let go; asynchronous
sends get past a stop. Commands of one direction cross the packets of the other, which makes the second
direction matter without packets of its own. A file of three bytes (`MaxSize`) in blocks of two
(`BLOCK_SIZE`) has a full and a partial block, and may be empty or end at a block's end; the file on the disk
may be one byte longer than announced. Three tasks on a queue are one that waits, one that serves it and one that comes
between; with three items (`MaxItems`) a bound of one is exceeded by what is given back. The theorems
hold without these bounds.

**Deadlock** is checked in `py_queue` only, where a task can always go on. In the other
runs the calls, connects and packets are finitely many and the system stops when they have
ended. The liveness properties say that it does not stop before.

**Fairness.** A coroutine that can run does run, packets on a live connection arrive,
a blocked send returns (the channel's keepalive breaks a connection that is stuck), a
killed coroutine ends, and a method returns. Nothing forces the application to call,
interrupt or shut down, the network to fail, or a callback to refuse. Progress
of one caller (`Progress`), one handler (`Handling`) and one side (`Running`) is weakly
fair: each is a single coroutine, or a chain of them of which one is always runnable.
For the Python peers only the tasks that end a
connection are fair. In the registries a dial and a greeting end, since the operating system and the keepalive give
up in the end (`DialEnds`, `GreetingFails`), and a woken coroutine or one whose timeout has passed runs (`Wake`).
In `PyChannel` the three tasks of a side are fair as one, as is each receiver: the application reads what it
receives and takes the channels that are made for it (`RecvPacket`, `TakeChannel`), without which
nothing lets a stopped sender go. In `PyStream` the tasks of channel, peers and transfer run and the
application sends what it announced. In `PyQueue` the callback is strongly fair, since the
hub runs its callbacks in the order in which they were scheduled and other tasks have their turns in
between, and a task gives up its turn (`Yield`).

Where the code leaves somebody waiting, the liveness property names the case. A refused request
(`auth` says no, or the response cannot be serialized) gets no response, and its caller waits until the
connection ends (`EveryCallSettles`). A greenlet that is killed while it closes a connection leaves it half closed
(`ReceiversReleased`, `StoppedSendersGoOn`, `SubsCloseTogether`). A `shutdown()` of a Python
peer whose `handle_packet` runs keeps its lock for ever, and that of the Rpc if it is `Rpc.shutdown()`
(`LostConnectionReleases`, `ConnectEnds`, `BrokenLeave`).

**Findings.** All are disagreements of a comment with the code, with the lines
in `PROJECT.json`:

- `isActive()` "is making calls": a call killed in `sendPacket` leaves its waiter.
- `connect()` "if disconnected, do reconnect": it returns a broken peer until the event
  loop has removed it.
- `clean()` "similar to close() but no kill greenlets": the Python `close()`, called while
  `handle_packet` runs, never gets to the end that the two have in common. It joins
  `handle_packet` while it holds the lock that `handle_packet` needs.

## Proofs

All proofs are checked by TLAPS to the last leaf, from the named assumptions about the
constants alone (`CallsAssumption`: sentinels are not calls, a nested call
goes the other way; `RegistryAssumption`: the sets are disjoint; `ChannelAssumption`: the two capacities
are positive and ordered, and every task and channel has its side; `PacketAssumption`; `StreamAssumption`: a block
has a byte; `QueueAssumption`). Every safety property that a passing run checks is also a theorem. Each inductive invariant was checked
by TLC on the instance of a run, with the naturals cut to those of the instance, before it was proved.

`PeerProofs`:

- `TypeCorrect`. `TypeOK` alone is not inductive: `Deliver` puts into `event` the call
  of a packet, and `Outcome` copies `reply` of that call into `pc`, so that a response
  must have been produced before it travels. `RepliesExist` says so.
- `BlockedCallersReachable` and `WaitersBelongToCalls`, from `CallerInv`. `Closers` is
  needed for the one caller that is blocked on a broken peer for a reason: it runs
  `shutdown()` itself, or its `shutdown()` was abandoned.
- `PeersImplementRpcCall`, from `CallInv`: every step of `Next` is a step of
  `RpcNext` or leaves both views unchanged. `HandlersFollow` says that a handler
  exists only for a request that was sent and that an inner call is active only
  while its method runs; `RequestsOnce` that a request is on the wire at most once and
  never after it was dispatched. Without the latter `Dispatch` could start a method
  again that had already produced its reply.
- `PendingStreamsAreClaimable`, from `StreamInv`. `StreamsAreClaimable` speaks of the channels that were announced
  already; what comes next on the wire decides whether it stays so. `MadeBefore` says that the announcement of
  a channel is ahead of the packet that names it, so that the packet is still on the wire when the announcement is
  read; `RequestsTravel`, `ParamsUnread`, `ResultsMade` and `ResultsUnread` say where that packet can be for each stage of the
  call, and `Addressed` that it goes to the side of the channel. `CallersReachable` and `WaitersAreCalls` are needed
  for a response that is read: somebody is there who takes its channel or drops it, or the call was
killed with its waiter registered, which is what `Forsaken` says.

`RegistryProofs`:

- `TypeCorrect`, `EventsFollowDials`, `WaitersAreSignalled`, from `DialInv`: the types,
  the address of every dialler, and the two properties are inductive together.
- `ConnectsMakeNoTwins`, `DialsAreShared`, `RemovalIsExact`, from `MapInv`. It adds that
  a registered peer was made by a caller that has returned, that a dial started when nobody
  was registered at its address, and that whoever dials an address keeps it so.

`PyPeerProofs`:

- `TypeCorrect`, with the strengthening `RepliesExist` as for `Peer`; here it also says that
  a waiter is signalled with its own call.
- `WaitingStaysReachable`: `WaitingIsReachable` is inductive together with the types, since the peer is
  looked at again in the step that registers the waiter, and whoever breaks a live peer wakes its waiters in
  that step or keeps the phase `killing` until it does.
- `PyPeersImplementRpcCall`, from `CallInv`. `HandlersFollow` says that a handler follows a request that was
  sent, has a reply when it sends one, and waits in at most one call while its method
  runs; `RequestsOnce` is as for `Peer`. The kill of a handler that waits in a call ends
  both calls, which is one step `Lose` of the abstract specification.

`PyRegistryProofs`:

- `TypeCorrect`, `DialsAreShared`, `SchedulerAgrees`, `RemovalIsExact`, from `RegInv`. `StagesFit` ties a connection to
  the caller that makes it, and says that a registered peer has been through `prepare_peer`. Without it a dial that ends
  could take away the event of another one. `Named` and `TasksFit` say that the scheduler has running tasks, each under the
  name of its peer, and `JoinsFit` that a task is killed for a connection of the same name only, which waits until it
  has ended: a task that lost its place while its peer is registered was taken by one that is still there, which is what
  `Displaced` and `EndedForAnother` say. `RegisteringWaits` says that a connection which is not registered at once
  waits for a lock that is kept, so that it never gets into the dictionary late.

`PyChannelProofs`:

- `TypeCorrect`, `FlowControl`, `SendersWaitForPackets`, from `Inv`, which holds for any virtual channels, tasks, capacities and
  bounds on the packets. `Moves` sums up what a step of any task can do to the packets that one side sends, and
  `StateStep` and `GoStep` what it can do to an end; most lemmas speak of these instead of the actions.
- `Announced` says that a MAKE travels at most once, to a side that has no such channel, so that an end that is
  taken or closed never becomes pending again. `Fresh` says that until then nothing but data
  for the channel is on its way to that side.
- `FlowControl` follows from `StopsFull`: whenever what is on its way would leave the sender stopped (`Stops`: the last
  command is the one to slow down, or there is none and the sender is stopped), the queue of the receiver is full.
  A receiver that takes the queue below the capacity puts the command to go on as the last one, a capacity that
  is lowered leaves a full queue full, and a virtual channel that closes on one side loses its commands but
  is no longer joined.
- `SendersWaitForPackets` needs `Signed`: a packet in the queue for a sender is for the sender's own channel, so that
  the end of another virtual channel does not take it away.

`PyChannelDataProofs`:

- `PacketsArrive`, from `DataInv`, which is `Inv` with two more parts. `NothingLost` looks at what is on its way as one sequence;
  `Flows` follows the four places apart: what was received, what is on the wire, the packet in `sendall()` and the queue, each
  continuing the one before (`Continues`). `Introduced` says that until the other side has a virtual channel, its MAKE is ahead of
  all its data, so that no packet is thrown away for want of a channel. `DataStep` sums up what a step can do to
  the data of a channel. What the end of another virtual channel takes out of the queue (`Cleaned`) leaves the
  data of this one in their order: that is why `Cleaned` is defined with `Kept` of `Subsequences`, by the
  increasing map of the new positions to the old ones, and not with the recursive `SelectSeq`.

`PyStreamProofs`:

- `TypeCorrect`, `FileIsReceived`, `SendingIsConfirmed`, from `IInv`. `Contiguous` says that the blocks that wait to be read continue
  what was written to the disk, those on the wire continue them, and the one in the queue comes next; `MadeFirst` that the channel is
  announced before its first block, to a side that has it then; `Received` that what was written is a beginning of
  the file. `Confirmations` is what makes the closing of a channel a confirmation: whatever can tell the sender that
  the taker has ended (the destroy packet in any of its places, a closed end) is there only when the
  receiver is done with the file, or the sender gave up itself, or the file is empty.

`PyQueueProofs`:

- `TypeCorrect`. `TypeOK` is inductive; it is proved in four parts. `Flat` are the types; `Waits` says who is in
  which queue of waiters, `OnePlace` that the sequences of items have no repetition and nothing in common, and `NoneLost`
  that no item is missing from all of them. The lemmas
  before them say what appending, removing, reversing and joining do to sequences without repetition.
- `NoWakeUpLost`. `WakeUpPending` is not inductive by itself: when the callback ends, it has looked at the
  getters in this step, but at the putters one step before. `LookedAtPutters` says that between the halves nobody has had the turn,
  or else the callback will repeat. The assumption is `QueueAssumption`: a size is
  positive, or -1 for no bound. With a size of 0 a getter and a putter would wait for each other for ever.

Only model-checked are the liveness properties (thirteen in the runs above), since
TLAPS reasons about neither fairness nor ENABLED, and the violations of the three findings.

## Plan

Done: `Peer`, `PyPeer` and `RpcCall`; `Registry` and `PyRegistry`; `PyChannel`, `PyStream`, `PyQueue`. Next, in this order:

1. `Transfer`: the files and directories of the C++ side, with the packet that ends them.
2. `RawSocket`: handshake, acknowledgement before registration, purge.
3. `Serialization`: the walk over nested values, as functions on bounded trees.
4. An abstract stream of packets that a channel of `PyChannel` implements, with the refinement proved from `DataInv`.

## Not modelled

Raw sockets and the C++ transfers are left for later (see the plan). The eventlet and thread schedulers: with
threads every statement is a step, and the hazards that only threads meet are listed in
`PROJECT.json` with a note. Not planned: socket classes, TLS, KCP and HTTP parsing (I/O); method lookup by
signature; logging; examples; `senddir.py` of the Python side, which is unfinished; `crypto.cpp`, which nothing
uses.
