# A TLA+ model of ucorf

ucorf is an RPC framework for the coroutine library libgo: a client calls the
methods of a service through a pool of connections, a server runs them, and
zookeeper tells clients where the servers are. This directory holds TLA+
modules translated from the C++ under `src/ucorf`, the TLC configurations
that check them on small instances, and TLAPS proofs of the results that hold
for every instance.

    tlc -workers 2 -config call_serial.cfg MCClientCall    # one run
    tlapm ClientCallProofs.tla                             # the proofs of one

`PROJECT.json` lists the runs, the source lines of every definition, the
hazards and the theorems.

## The system

| component | code | state | operations | who calls it |
|---|---|---|---|---|
| client calls | `client_impl.*` | `wnd_size_`, `msg_id_` (atomic), `channels_` (transport to `RspChanGroup`, under `channel_mtx_`), in each group `maps[i]` and `closed[i]` (under `mtxs[i]`), a response channel per call | `Call`, `OnConnected`, `OnDisconnected`, `OnReceiveData`/`OnResponse`, setters | user coroutines; the finder's callbacks, from the transports' coroutines |
| dispatchers | `dispatcher.*`, `conhash.h` | list and index; ring and point lists (reader/writer lock) | `Add`, `Del`, `Get`, setters | `ClientImpl` |
| transport | `transport.h`, `net_transport.*` | the libgonet session | `Connect`, `Send`, `Shutdown`, `IsEstab`, three callbacks | finder, client, server |
| server finder | `server_finder.*` | transports by URL, the destroy token and its mutex | `Init`, `ReConnect`, `OnZookeeperChilds`, `OnDisconnected`, `RecursiveConnect` | client, zookeeper client, transports |
| zookeeper client | `zookeeper.*`, `server_register.*` | the handle, watchers, ephemeral nodes, a queue of events | `Watch`, `Unwatch`, `DelayCreateEphemeralNode`, `DeleteNode`, `OnWatch`, `Connect` | finder, register, zookeeper's own threads |
| server | `server_impl.*`, `service.h` | services, transports | `Listen`, `RegisterService`, `OnReceiveData`, `DispatchMsg` | transports |
| header | `message.*` | one header | `Serialize`, `Parse` | client, server |
| hprose | `hprose/*` | a buffer and its read position, the function table | `Read`, `Write`, `CallMethod`, `RegisterFunction` | server, with the hprose header |
| logger | `logger.*` | the file, level and mask | `Write`, `Reopen` | everyone |
| facades, protobuf binding, codes, URL, options, `proto_gen` | `client.cpp`, `server.cpp`, `pb_*`, `error.cpp`, ... | none of their own | forwarding, conversions, generated text | users |

**How they interact.** `Call` asks the dispatcher for a transport, registers a
response channel in the transport's current group, sends, and waits on the
channel. The transport's coroutines fill the channel from three sides: the
reply (`OnResponse`), the send callback's error, and `OnDisconnected`, which
closes the group slot by slot and answers whoever is in it. A finder connects
transports, passes their events to the client, and reconnects the ones that
went down; the events of zookeeper tell it which should exist.

**What is hard.** Coroutines run on several threads and every lock is held for
a few lines only, so `Call` works with a transport and a group that other
coroutines take down and replace meanwhile. Sessions come and go between any
two steps; replies arrive late, or never; a timeout races the answer; the
reconnect is started before the old session has been cleaned up; counters are
narrower on the wire than in memory; `robin_idx_` is written without a lock.

**What makes each part correct.**

- *Client calls*: a call returns the reply to its own request and no other; a
  call is never left without an answer in a group that was closed; what a call
  took (entry, place in the window) it gives back; dispatcher, group table and
  transport agree; calls return.
- *Dispatchers*: `Get` returns a transport that was added and not deleted, and
  null only if there is none; robin takes them in turn; consistent hashing
  moves no request between two connections that stay.
- *Finder*: every session that ended is reported to the client; a transport
  that should exist is being connected; nothing happens after destruction.
- *Zookeeper client*: at most one live handle; every watcher hears of the last
  change; a registered node comes back after a new session, a deleted one does
  not.
- *Server*: each complete frame is dispatched once, in order, whatever the
  boundaries of the buffers; each two-way request has one reply.
- *Header, hprose*: what was written is read back.
- *Logger*: no write to a closed file.

## Modules

| module | models |
|---|---|
| `RpcCall` | abstract: what a client promises a coroutine that calls a method |
| `ClientCall` | `ClientImpl`, with the transports as its environment |
| `MCClientCall` | `ClientCall` with its symmetry |
| `ClientCallProofs` | theorems about the calls of `ClientCall` |
| `ClientSessionProofs` | theorems about its sessions, on top of those |
| `Dispatcher` | abstract: what the client relies on in an `IDispatcher` |
| `RobinDispatcher` | `RobinDispatcher`, with the race of `Get` |
| `RobinDispatcherProofs` | the theorems about it |
| `ConHash`, `MCConHash` | `con_hashtable` and `HashDispatcher`; an instance with collisions |
| `ConHashProofs` | the theorems about `ConHash` |
| `SessionEvents` | abstract: what the client relies on in a `ServerFinder` |
| `ServerFinder`, `MCServerFinder` | `ServerFinder` in both modes, with zookeeper and the transports as its environment; its symmetry |
| `ServerFinderProofs` | the theorems about `ServerFinder` |
| `ZkClient` | `ZookeeperClient` and `ZookeeperRegister`, with zookeeper and its library as environment |
| `ZkClientProofs` | the theorems about `ZkClient` |
| `Exchange` | abstract: what a client relies on in a connection to a server |
| `Connection` | the receive loops of client and server, `DispatchMsg`, both headers, with the network as environment |
| `ConnectionProofs` | the theorems about `Connection` |
| `HproseBuffer` | the writer and the reader of `hprose_protocol.h`, as operators |
| `Hprose`, `MCHprose` | `Hprose_Service` and `Hprose_ServiceStub` on top of it; types and functions for an instance |
| `HproseProofs` | the theorems about both |

`ClientCall` implements `RpcCall` (`RpcSpec`); `RobinDispatcher` and `ConHash`
implement `Dispatcher` (`DispSpec`); `ServerFinder` implements `SessionEvents` on
one thread (`SessSpec`); `Connection` implements `Exchange` (`ExchSpec`). `Hprose`
uses `HproseBuffer`. In `ClientCall` the dispatcher is the multiset of
transports it holds and `CallGet` picks any of them: exactly
`Dispatcher`'s variable `held` and action `Get`, so the client is checked with
every dispatcher that implements the abstract one.

### ClientCall

One action is one access to shared state; `pc` says where each coroutine is in
`Call`.

| code (`client_impl.cpp`) | actions |
|---|---|
| the window check, 84-85 | `CallStart`, `CallWndFull` |
| `Get`, `ReConnect`, `Get` again, 87-112 | `CallGet`, `CallGetNone`, `CallReconnect` |
| `IsEstab` and `++msg_id_`, 114-128 | `CallNoEstab`, `CallNewId` |
| one-way send, 129-134 | `CallOneWay` |
| `channels_.find`, 136-141 | `CallFind` |
| the registration under `mtxs[i]`, 143-153 | `CallInsert` |
| `Send`, `++wnd_size_`, 155-160 | `CallSend`, `CallCount` |
| `TimedPop` or `>>`, 162-167 | `CallPop`, `CallTimeout` |
| `--wnd_size_`, erase, results, 169-183 | `CallUncount`, `CallErase` |
| `OnConnected`, 186-192 | `OnConnectedAdd`, `OnConnectedGroup` |
| `OnDisconnected`, 193-212 | `OnDisconnectedDel`, `OnDisconnectedErase`, `OnDisconnectedClose` (once per slot) |
| `OnResponse`, 266-306 | `OnResponseFind`, `OnResponseLookup`, `OnResponsePush` |

A group is a number, a response channel is named by the `msg_id` of the call
that made it, a reply by the `msg_id` of its request; payloads are left out.
The lookup in `OnResponse` uses the id the header carries, `id % IdMod`.

The transport is not in the repository (libgonet is a submodule), so `Connect`,
`Drop`, `SessionClose`, `SendFailed` and the choice in `CallSend` are modelled
from how the code uses it, under these assumptions: a session runs its
connected callback before it receives; its disconnected callback runs after the last
receive callback returned, once, and with an error code; a request whose session ended gets no
reply; the callback of a one-way `Send` is always called; `Connect` returns.
`Overlap` says whether a transport may connect again while the disconnected
callback of its last session is still running. `server_finder.cpp:137` starts
the reconnect before it calls `on_disconnect_`, so on several threads it may.

### RobinDispatcher and ConHash

`RobinDispatcher` keeps the list and the index. `Add` and `Del` exclude every
`Get` (writer lock); the `Get`s interleave at each load and store of
`robin_idx_`, a data race. `reload`, chosen in `Init`, is the build: with it each
of the three statements loads the index again, without it the index stays in a
register between them. `served` and `raced` are history variables: what each
position was given, and whether Gets overlapped since the list last changed.

`ConHash` is the ring: `table` maps hash codes to transports and `virTable` a
key to the codes it was given. `std::hash` is a constant function that may
collide. `Add`, `Del`, `Get` and the setters run under the dispatcher's lock
and are single actions. `live` and `ownKeys` are history variables; the second
says whether the tag function was set once and tells the transports apart.

`Dispatcher` has a variable `sound` for the use that an implementation supports,
and promises nothing of another: robin is not sound while Gets overlap in a
reloading build, consistent hashing once keys are shared or the tag function
changed.

### ServerFinder

| code (`server_finder.cpp`) | actions |
|---|---|
| `Init` of a fixed address, 41-50, and its `ReConnect` coroutine, 73-85 | `Init`, `FirstConnect` |
| `ReConnect` called by `ClientImpl::Call` | `ReConnect` |
| `OnZookeeperChilds`, 87-123: the new map, then one `Shutdown` after another | `OnZookeeperChilds`, `ShutdownMissed`, `ChildsEnd` |
| `OnDisconnected`, 125-141: up to the `go`, then `on_disconnect_` | `OnDisconnected`, `TellClient`; `OnDisconnectedDropped` when it gives up |
| `RecursiveConnect`, 143-164: the connect, `IsEstab` and `try_lock` after the sleep, the checks under the mutex | `LoopConnect`, `LoopWake`, `LoopCheck` |
| `~ServerFinder`, 13-21 | `Destroy` |

`mode` is `mode_`; `transports` is `transports_`, and `single_tp_` in single mode;
`alive` is the value behind `token_`. Coroutines of `RecursiveConnect` for one
transport are alike, so `loops` counts them by the place they are at. `destroy_mutex_` has no
variable: it is taken exactly while a handler is between its first and its last
step (`Locked`). `Parallel` says whether several threads run coroutines. If not,
no other coroutine runs while a handler is at work (`Turn`): none of them blocks
with the mutex held. A transport whose address is `NoUrl` is one the program has
not created yet. `told` counts the calls of `on_connect_` less those of
`on_disconnect_`; `ever` and `sessions` are history variables.

Zookeeper may call `OnZookeeperChilds` with any set of nodes at any time, and a
session may end at any time. `Connect` and the session callbacks are modelled
from their use: `Connect` on a transport that has a session fails (the choice
`UNCHANGED sessionVars`), a session that ended owes one `OnDisconnected`. That the
transport itself is gone by then (line 134) cannot be seen by the client: one that
it was told of is held by its dispatcher until it is told of the end.

### ZkClient

| code (`zookeeper.cpp`) | actions |
|---|---|
| `__watcher_fn`, 8-17, from the library's threads | `Emit`, in `SessionUp`, `SessionLost`, `ChildEvent` |
| `Connect`, 238-252 | `Connect` |
| the coroutine of `Init`, 26-31, and `OnWatch`, 254-285 | `Take`; for a new session `OnConnected`, then `Rewatch` and one `Recreate` per node; `OnGone` for any other state; `OnChild` |
| `__Watch`, 65-111 | `GetChildren` |
| `Watch`, `Unwatch`, 47-63, 113-119 | `Watch`, `Unwatch` |
| `DelayCreateEphemeralNode`, 172-216, and its retry coroutine | `DelayCreateEphemeralNode` in `Register`, `Recreate`, `Retry` |
| `DeleteNode`, 218-236 | `DeleteNode` |

A handle is one session with zookeeper, numbered in the order they are made.
Handle and session differ: the library knows of a handle whether it is new, up,
lost, expired or closed (`hs`), zookeeper whether the session still exists
(`live`), and the two only meet when the handle connects again. `queue` is
`event_chan_`; while `OnWatch` is at work for a new session (`rewatch`, `todo`) it
holds `mutex_`, and the session may be lost between two of its calls. `owner`
says which session an ephemeral node belongs to; a node may still belong to an
earlier process (`Other`), and then meets `ZNODEEXISTS` until that session ends.
Watches are one-shot: `armed` remembers what the children were when one was set,
and zookeeper sends an event once they differ. `asked` and `wanted` are what the
callers want, as a history: who called `Watch` and not `Unwatch`, and which nodes
were registered. There is one path that is watched.

### Connection

| code | actions |
|---|---|
| `NetTransportClient::Send`; libgonet calling back with more bytes | `Call`; `Receive` |
| `ServerImpl::OnReceiveData`, 108-132 | `Dispatch`, `Finish` or `Refuse` for each frame, then `ReturnServer` |
| `ServerImpl::DispatchMsg`, 134-167 | `Dispatch` up to the call of the service, `Finish` from its return; `Refuse` when there is no such service |
| `RegisterService`, `RemoveService` | the same |
| `ClientImpl::OnReceiveData`, 227-264 | `Respond` for each frame, then `ReturnClient` |
| `UcorfHead::Parse`, `Hprose_Head::Parse` | `UcorfParse`, `HproseParse` |

A stream is the sequence of the frames sent on it, and a position in it a number of
bytes: of a frame only the byte it starts at and the sizes of its header and body
matter. `rx` has, for each end,
what arrived, what was consumed by earlier calls of `OnReceiveData`, and how far
the call under way has come. `Receive` cuts the stream anywhere; that the
unconsumed rest is given again with what follows, that a full buffer ends the
session (`Overflow`), and that it also ends when -1 is returned, is modelled from
the use of libgonet, which is not in the repository. The service's coroutine may
give up the thread inside `CallMethod`, so services come and go between `Dispatch`
and `Finish`. `Hprose_Head` carries neither a service nor a type: every request
goes to the service "hprose" and looks like one that wants a reply.

`maxPack` is the size of the buffer, which `SetOption` gives to both ends before the
session. `Misread` says that an end keeps so many bytes that `UcorfHead::Parse` cuts
their number; `NoStall` names it as a reason to come to rest, the only one besides a
frame that does not fit and a session that was lost or refused. Headers are those
that the two ends write: one with another magic code, which `Parse` does not tell
from an incomplete one, is not modelled.

`services_` has no lock (`server_impl.cpp:72`, `77`, `137`). The model takes each
access as one step, which is true when one thread runs the coroutines, or when
services are registered before the server listens and none is removed; otherwise
the accesses race and the behaviour is undefined.

### HproseBuffer and Hprose

`Write` and `Read` follow the overloads of `Buffer` type by type. A type is a
scalar type within any number of lists, a record of both, and `Write` and `Read`
are functions over that number: a list is written and read by the writer and the
reader of its elements. A buffer is a sequence of bytes in which a numeral counts
as one; a read returns whether it succeeded, the value, and the position after
it, which `rb_sentry` puts back after a failure. Conversions do what the library's
do: a number is cut to the width of its reader, `atoll` stops at the greatest
`long long`. `HalfInt` and `HalfLong` are the widths (2^31 and 2^63), `MaxDigit` is
9, and `Numeral` is `std::to_string`, of which only that no two numbers have the
same numeral, and that none is a mark, is assumed. `Values(type)` is all of a
type, `Inputs(type)` what is passed in a run.

`Hprose` is one caller with its stub and one service: `StartCall` writes a request,
`CallMethod` (with `Lookup` and `Callee`) or `AnswerTag` serves it, `ReturnCall`
reads the response; `FailCall` is an error of `c_->Call` before or after the
request was served. `RegisterFunction` runs at any time: it and the lookup of `Call` take
`func_mutex_`, but `GetFunctionList` walks `functions_` without it
(`hprose_service.cpp:38`). The model makes the walk one step, so `ListTold` takes for
granted that one thread runs the coroutines, or that functions are registered
before the server listens. `ran` and the field
`known` of `call` are history.

## Runs

| run | question | instance |
|---|---|---|
| `call_serial` | Does the client's bookkeeping stay consistent when calls race with sessions that end and come back? | 2 callers, 2 transports, 2 slots, 2 requests, 3 sessions, no timeout, no overlap |
| `call_hostile` | With timeouts and overlapping sessions, does a call still return only its own reply, is `RpcCall` implemented, and does every call return? | 2 callers, 1 transport, window 1, 1 slot, 2 sessions; liveness |
| `full_window` | *(finding)* calls are refused though nothing is in flight | 1 transport |
| `robin` | Is robin fair, and does it return what it holds, though Gets race? | 2 getters, list of up to 3, duplicates; both builds |
| `conhash` | Does `erase` give back what `insert` took, and with own keys, are moves minimal and owners live? | 3 keys, ring of 8, one collision, 9 tag functions |
| `finder_one_thread` | In both modes, is every transport that should be connected being connected, and is the client told of everything? | 2 addresses, 3 transports, 4 sessions |
| `finder_threads` | On several threads: one holder of the mutex, one attempt per transport, nothing after destruction | 2 addresses, 3 transports, 4 sessions |
| `finder_collide` | *(finding)* handlers that collide give up for good | 2 addresses, 2 transports, 2 sessions, several threads |
| `zk` | Across lost and expired sessions, do registered nodes come back, do watchers hear of the last change, and is there one handle? | 1 watcher, 2 nodes, 1 loss (with or without expiry), 1 change, 2 queued events; liveness |
| `zk_watch` | *(finding)* a watcher that asks while the session is up hears of no later change | 1 watcher, no loss |
| `connection` | Are frames dispatched once and in order wherever the buffers end, with either header, and is none left lying? | 2 requests, 2 services, a buffer of 4 bytes or of 5, which is one too many for a `uint16_t`; refinement and liveness |
| `hprose` | Do argument and result arrive as they were sent, and is whatever cannot be served refused with an error? | 10 types, `int` of 4 bits, `long long` of 5, strings and lists of up to 2 |

**Findings.** `CallTimeout` returns early, as line 165 does, without
`--wnd_size_` and without the erase: `NoDeadEntries` and `WndAccounting` are
therefore checked without a timeout, and `full_window` shows what happens with
one: each timeout takes a place for good. The entry that stays also means that the
late reply is not discarded but pushed into a channel nobody reads. `finder_collide` is about
`samples/sample1_client.cpp:22`, which says that the client tries to connect in the
background and reconnects: a handler whose `try_lock` fails
(`server_finder.cpp:130`, `157`) neither reconnects nor is called again. The
`try_lock` is meant for a finder that is being destroyed; with several threads it
also fails when two handlers meet. `zk_watch` is about service discovery through
zookeeper (`README.md:5`): `Watch` erases the watcher when `__Watch` succeeded
(`zookeeper.cpp:57`), so one that is added while the session is up is told the
children once and hears of nothing afterwards. `WatchersHear` is therefore about
the watchers that are kept, those added before the session was up.

**Seen, with no run of their own.** The same models show, with other constants or
a stronger formula:

- With `IdMod = 2` in `call_serial`, `DiscardHarmless` fails: `SetId` stores a `size_t` in 32
  bits (`message.cpp:8`), and once ids need more, a reply that is waited for is
  looked up under another id and dropped.
- In a build that loads `robin_idx_` again (`reload`), `got` becomes `Garbage`: a
  `Get` on another thread moves the index past the end between the remainder
  and the element (`dispatcher.cpp:28-29`).
- In single mode the first `ReConnect` of a finder tries once; if it fails nothing
  tries again before a `Call` finds no transport (`server_finder.cpp:50`).
  `KeepsTrying` therefore starts with the first session.
- Without `Misread` in `NoStall`, `connection` fails for the larger of its two buffers:
  `UcorfHead::Parse` takes the length for a `uint16_t` (`message.cpp:73`), so a buffer
  that holds 2^16 bytes looks empty. With nothing more to come its frames stay where
  they are, and with more to come the session ends, whole frames in the buffer or
  not. 64 KiB is the size that `net_transport.cpp:48` names, but an empty option
  returns before `SetMaxPackSize`, and the size libgonet then has is its own.

**Overlap.** `DispatcherAgrees` and `NoOrphanGroup` do not hold when sessions
overlap: the late `OnDisconnected` of the old session deletes the dispatcher
entry and the group of the new one, as both are keyed by the transport, and a
caller of the new session may then wait for ever (unless its timer fires). The
repository claims nothing about this case, so it is a hazard and not a finding;
`OwnReply`, `ClosedMeansAnswered`, `RpcSpec` and `EveryCallReturns` are checked
with overlap.

**The window.** The check is `wnd_size_ > request_wnd_size`, and the increment
comes after the send. Callers that pass the check together all go on, so the
option bounds the number in flight only by the number of callers; no bound is
stated as a property.

**Shared keys.** Two transports with one hash key (one URL found by two finders)
share one point list: the second is not inserted, and `Del` of either takes the
other off the ring. `ListsOfLive`, `MovesAreMinimal` and `DispSpec` are stated
for `ownKeys`, `ListsPartitionRing` for all uses.

**More of the finder.** The model shows further behaviours on which no line of the
repository says a word; they are listed as hazards and no property forbids them.
A transport that is taken off the list while its `Connect` is under way is not
shut down: it comes up later, is offered to callers, and stays. A node that goes
and comes back before the old transport's `OnDisconnected` ran has two transports
that are both reconnected. A list of nodes that `OnZookeeperChilds` drops is lost
until the next change. A `Connect` that is under way when the finder is destroyed
calls `on_connect_` through a dangling pointer; in `Established` the client may
then be told or not. In single mode `ReConnect` can start a session beside a loop,
so `OneEffort` is about zookeeper mode. `Unwatch` is never called, as nothing sets
`zk_addr_`: zookeeper may call a finder that is gone, which the token stops.

**More of zookeeper.** `OnWatch` closes `zk_` whichever handle an event is about. As
long as every event of a session is taken before its next one comes there is one
handle, or one `Connect` on its way (`OneHandle`); once events pile up (`late`) there
may be several, all but one forgotten, and a closed one may be used.
`NodeComesBack` still holds. A deleted node stays in `ephemeral_nodes_`
(`zookeeper.cpp:228`, whose condition is always true) and comes back with the
next session or retry; retries of one node pile up over reconnects; `Register` may
return false for a node that is created later all the same. No line of the
repository says otherwise, so these are hazards without a property.

**More of hprose.** `Transparent` compares calls whose types agree, since nothing on the
wire does: an integer that is read into a narrower one is cut, an `unsigned long long`
from 2^63 on becomes 2^63 - 1, a map is written as nothing, and a result that
cannot be read is returned as `R()` without an error (`hprose_service.h:176-178`).
`Read` drops its argument `utf8` (`hprose_protocol.h:357`) and the writer's count
of characters is wrong (594), so a method whose name has characters of several
bytes is refused with "Error Args", unless a quote inside it stands where the
count ends: a call of `é"t` runs the function `é` with `t`, that is true, as its
argument. The properties leave such names out (`Legible`). `ReadUntil` returns the delimiter too,
so that `s""` is refused, though line 375 takes it for an empty string; the writer
never produces it.

### Bounds

`MaxMsg` bounds the requests and `MaxGrp` the sessions. Both are guards on what
starts a call or a session (`RoomForCall`, `RoomForSession`) and count what
started operations will still need, so a bound never stops a call or a callback
half way. Two requests are enough for every pair of calls to meet in one slot,
in different slots, or one after the other, and for a reply of the first to
come during the second; two sessions of a transport for a group to be replaced
under a call. `Slots` is 2 instead of 16: a call's slot is already closed or
still open while the loop is under way. `MaxLen` 3 with two transports gives
lists with duplicates; `IdxMod` 4 is the smallest width of an index into them, which
only Gets that race in a reloading build can exceed. On a ring of 8 codes keys are next to each other, the
ends of the ring belong to one key, and two keys collide. In `ServerFinder`,
`MaxSessions` bounds the sessions that come up, never an attempt, a check or a
callback; four are enough for both listed transports to be lost and to come back
while a third takes the place of one that is no longer listed. Transports are not
used twice, so three of them give each address up to two.

In `zk`, one loss with the expiry that may follow gives two events that each start
a `Connect`: several handles, late events and a new session that meets the node
of the old one all happen. The safety invariants, and the liveness properties with one node,
were also checked with two losses. A queue of two events makes the library's
threads wait. In `connection` a header has 2 or 3 bytes (14 and the names, or 8)
and a body none or 2: a frame has 2 to 5 bytes. `LenMod` is 5, and the buffer has 4 bytes, the most whose
number a `uint16_t` holds, or 5 (`MaxPacks`). One of 4 holds two
frames, one and a part of the next, or a part of one that is too large for it; one
of 5 holds every frame, and when it is full its length reads as 0. The run was also
made with 7 bytes, whose length is cut to less than a header and to a whole one. In `hprose` an `int` has 4 bits (`HalfInt` 8) and a `long long` 5, and the digits end at 6
(`MaxDigit`), so that the greatest `int` is the first number that is not a digit;
`IntSample` has the ends of each type and of the digits. A string has up to two of
a letter and the quote (`StrSample`), a list up to two elements (`MaxList`); they are
of integers, of strings, and of lists of bools, empty or not. A further argument
(`Extra`, `MaxExtra`), which the function does not take, is tried too. The bytes
include a character of two bytes, for a name.

The runs of `ClientCall` do not check for deadlock: when the bounds are used up
everything may stop, and so may callers, servers and the network. Nor do those of
`ServerFinder`: a finder that was destroyed has nothing left to do. `zk` and
`connection` stop too, with their bounds used up. The other runs check it.

### Fairness

`FairSpec` has weak fairness for each caller's own steps, for the callbacks of
each transport and for each send callback: the scheduler runs a coroutine that can go on, and libgonet runs the callbacks it owes. Starting a call,
connecting, going down and answering have no fairness, and neither has the timer:
`LostCallReturns` says that the end of the session is enough, as long as sessions
do not overlap. `EveryCallReturns` assumes in its own formula that the timers
fire, as libgo's do, and allows sessions to overlap.

`LostCallReturns` is about `ClientImpl`: it takes for granted that the end of a
session reaches `ClientImpl::OnDisconnected`. `SessSpec` shows that the finder in
between passes it on when one thread runs the coroutines (`ToldOfEverySession`, for
every instance). With several it may drop the event, as `finder_collide` shows.

`ZkClient` has weak fairness for `OnWatch`, `Connect` and each node's retry, which
are coroutines that are ready or sleep for 3 s; for the library's threads (a
handle connects, a watch fires); and for zookeeper ending a session that it
does not hear of, without which the node of a dead process would stay for ever.
Losses are bounded, so the properties say what happens once sessions stop
failing. `Connection` has weak fairness for both receive loops, for the service's
return, and for libgonet: bytes that were sent are delivered, a full buffer ends
the session; nothing is assumed about
calls, registrations or the end of the session.

### Mistakes

Each module contains a few operators that no specification uses: an action with
the kind of mistake one would make in it. Substituting one for the action it
belongs to makes the property it is listed with in `PROJECT.json` fail, which
shows that the property can see that mistake.

## Proofs

All safety properties that a passing run checks are also proved. The assumptions on the constants are named in the modules that declare
them; a hypothesis beyond them is written in the theorem and explained here.

`ClientCallProofs` proves, for any number of callers, transports, slots,
requests and sessions, with and without overlap:

- `TypeCorrect`: `Spec => []TypeOK`.
- `NoCallStranded`: `Spec => []ClosedMeansAnswered`.
- `RepliesMatch`: `IdsFit => (Spec => []OwnReply)`, where `IdsFit` says that the
  requests do not outnumber the values of `callid` (`MaxMsg < IdMod`).
- `ClientIsRpc`: `IdsFit => (Spec => RpcSpec)`.
- `WindowIsExact`: `~HasTimeout => (Spec => []WndAccounting)`.
- `NoEntryLeaks`: `~HasTimeout => (Spec => []NoDeadEntries)`.
- `RefusedOnlyWhenFull`: `~HasTimeout => (Spec => FullMeansFull)`, the claim that
  `full_window` refutes with a timeout.

The first four hold with and without a receive timeout. The others cannot: a
timeout leaves its entry and its place behind (see the findings).

The only other assumption is `ConstAssumption`. `ClosedMeansAnswered` is not
inductive: that `OnDisconnectedClose` answers a caller follows only if the
caller's entry is in the map of the group it is registered in. `TypeInv` gives
the types, with the locals a call has at each of its steps; `IdInv` says that ids
are at most `msgId` and differ between callers; `RegInv` that a registered caller's id is in its group's
map, which only its own `CallErase` can take out as ids differ. With these,
every step falls into the kinds of `StepKinds`, most of which change nothing the
invariant reads, and `CallInsert` and `OnDisconnectedClose` are treated one by
one. For `OwnReply`, `AnswerInv` follows a reply from the wire to the channel to
`rsp` to `ret`: where the ids fit, a channel holds nothing, an error or the reply
to the request that names it. `RequestInv` adds for `ClientIsRpc` that a call has
an id exactly while `RpcCall` has a request of it; each step then maps to a step
of `RpcCall` or to a stutter. `WndInv` is `WndAccounting` with the set of
calls between increment and decrement known to be finite, which `Cardinality`
needs; every step takes one call into that set, out of it, or neither.
`EntryInv` strengthens `NoDeadEntries`: the call that owns an entry is still
registered, so that its own `CallErase` is the only step that ends both.

`ClientSessionProofs` proves, from the same assumption, with and without a receive
timeout:

- `TablesAgree`: `~Overlap => (Spec => []DispatcherAgrees)`.
- `NoGroupIsOrphan`: `~Overlap => (Spec => []NoOrphanGroup)`.
- `NothingAwaitedIsDiscarded`: `IdsFit /\ ~Overlap => (Spec => DiscardHarmless)`.

`~Overlap` holds when one thread runs the coroutines, since `OnDisconnected` of
the finder does not give up the thread between starting the reconnect and
`on_disconnect_`; with overlap all three fail, as said above. None of them
is inductive. `PhaseInv` ties the dispatcher's count, the group table and
`OnDisconnected`'s group to the phase the transport's session is in. `GroupInv` says
that a group belongs to one transport at most and is closed up to where that
transport's `OnDisconnected` has come, or wholly once it belongs to none, and `HolderInv` that
the group a call holds is its own transport's or nobody's any more: with
`ClosedMeansAnswered`, a waiting call's group has an open slot and hence an
owner. `WireInv` says where a reply that is awaited can be: on the wire of the
transport the call was sent on, whose current group is the call's, so that
`OnResponse` finds the entry.

`RobinDispatcherProofs` proves, for any number of threads, lengths of the list and
values of `size_t`, and both builds, from `RobinAssumption`:

- `TypesHold`: `Spec => []TypeOK`.
- `RobinIsDispatcher`: `Spec => DispSpec`.
- `TakesTurns`: `Spec => []Balanced`.

`PickInv` says that the element a `Get` is about to take is in the list, unless
Gets overlap in a reloading build: nobody else moves the index, or the index is
in a register. `Balanced` is not inductive: that no position is a turn ahead says
nothing of which comes next. `TurnInv` says, while Gets do not overlap, that the
positions that have had one turn more are the last ones up to the index, going
round (`InTurn`), and how far the one `Get` under way has come.

`ConHashProofs` proves, for every ring, hash function, set of transports and
virtual counts, from `RingAssumption`:

- `TypesHold`: `Spec => []TypeOK`.
- `ListsPartition`: `Spec => []ListsPartitionRing`.
- `NoStalePoints`: `Spec => []ListsOfLive`.
- `ConsistentHashing`: `Spec => MovesAreMinimal`.
- `ConHashIsDispatcher`: `OwnPoint => (Spec => DispSpec)`.

`OwnPoint` says that every key has a virtual name whose hash code no other key's
names have; it holds in the run, and without it a transport may find all its
points taken, so that a live one is never returned. By default a key has 64 names, and a
hash code has 64 bits. The invariants are inductive once they are taken together, with
the fact that `ownKeys` means what it says (`TableInv`). The lemmas on `Successor` say that the first
point from a hash code on does not move when points elsewhere come or go.

`ConnectionProofs` proves, for every size of headers, bodies and buffer, every
`LenMod`, and any number of services and requests, from `ConnectionAssumption`:

- `TypesHold`: `Spec => []TypeOK`.
- `ConnectionIsExchange`: `Spec => ExchSpec`.

Neither is inductive: what `Dispatch` and `Respond` take is the next frame only if the
loop stands at the end of the last one. `Chained` says that frames lie one behind the
other, `Aligned` that an end has consumed exactly the frames it has taken, from its
buffer or before (but not once it refused one), and `Histories` that what was
handled and answered are the frames from the first on.

`ServerFinderProofs` proves, for any number of addresses, transports and sessions,
from `FinderAssumption` only:

- `TypesHold`: `Spec => []TypeOK`, on any number of threads, like the next two:
  the mutex has one holder and `told` is never negative.
- `OneAttempt`: `Spec => []OneEffort`.
- `DestroyIsFinal`: `Spec => NothingAfterDestroy`.
- `ToldOfEverySession`: `~Parallel => (Spec => SessSpec)`.
- `NeverGivesUp`: `~Parallel => (Spec => []KeepsTrying)`; `finder_collide` shows
  why the hypothesis is needed.

`FinderInv` gives the types and says that a destroyed finder has neither
`OnZookeeperChilds` nor `OnDisconnected` at work, as the destructor waits for the
mutex. `OneEffort` is not inductive: a transport that `OnZookeeperChilds` creates
must have had no session and no coroutine before, so `EffortInv` adds that one
without an address has none. `MoveLoops` says how a move of a coroutine changes
their number; with it `EffortsShrink` shows that no step but
`OnZookeeperChilds` adds an effort. `SessStep` maps each step of the finder to a
step of `SessionEvents` or to a stutter. On one thread an `OnDisconnected` that
gives up has found the finder gone. `MutexInv` says that a `RecursiveConnect` at its
check excludes every other holder, and `ToldInv` that the client was told of every
session whose end it still has to hear of. `KeepsTrying` needs `TryInv`: a
listed transport is listed under the address its callbacks were bound to, so
that `OnDisconnected` and `RecursiveConnect` find it in the list and go on.

`ZkClientProofs` proves, for any number of nodes, watchers, losses and changes and
any capacity of the queue, from `ZkAssumption` only:

- `TypesHold`: `Spec => []TypeOK`.
- `OneHandleHolds`: `Spec => []OneHandle`.

`TypeInv` adds to `TypeOK` that zookeeper keeps the session of a handle that is up,
so that `DelayCreateEphemeralNode` makes no node of a session that has ended.
`OneHandle` is not inductive: `OnGone` closes `zk_` whichever handle its event is
about. `HandleInv` says that while no event is late the queue holds at most one
event of a session, which is of the one open handle and tells exactly how far `zk_`
is behind (`OneOpen`), or that no handle is open and `zk_` is empty (`NoneOpen`).
`EmitSession` and `TakeSession` say what an event that comes or goes does to that,
`HandlesAlone` covers the steps that leave sessions alone.

`HproseProofs` proves, for every width of the integers, all strings, lists nested
to any depth, and any functions and methods, from `HproseBufferAssumption` and
`HproseAssumption`:

- `ReadTyped`: a read for a type returns a value of it or fails, whatever the
  buffer has.
- `RoundTrip`: what was written for a supported type is read back unchanged, from
  any place in any buffer, and the next read starts behind it; an `unsigned long
  long` must be a `long long`.
- `TypeCorrect`: `Spec => []TypeOK`.
- `TransparentCalls`: `Spec => []Transparent`.
- `ErrorsAreTold`: `Spec => []ErrorsTold`.
- `ListIsTold`: `Spec => []ListTold`.

The assumptions say that an `unsigned` fits in a `long long`, that strings, lists
passed and the table of functions are no longer than an `int` can count, and what is
said of `Numeral` above. The proofs on the buffer go by induction over the depth
of a type, the elements of a list and the bytes of a name: `UpTo` and `Induction`
state it for the members of a set, from the least element that is not one. `Holds` says
that a sequence of bytes stands at a place in a buffer. A string may hold quotes, braces and
semicolons; the reader is not misled by them because it goes by the length.
`Starts` has the bytes that a type's values begin with: read for
another type, a value is refused unless the types are of one kind (`SameKind`).

The properties are not inductive: they speak of what ran and of the outcome, and
whether those are right depends on the buffers. `IInv` says that a request
is the one written for the method and the arguments of the call (`Asked`), that a
response is the one written for what the function returned (`Served`), for an error
or for the list (`Answered`), and that the outcome is what the response gives (`Told`); with `RoundTrip`
each step of service and stub then gives the next of these. `CallMethod` needs one
more fact about names: one that is not read as itself has a character of several
bytes, as otherwise the count of characters is the length.

Only model-checked: liveness (`LostCallReturns`, `EveryCallReturns`,
`NodeComesBack`, `WatchersHear`, `NoStall`), which is out of the prover's reach.

## Not modelled

- `SetDispatcher`, `SetOption`, `SetServerFinder`, `SetUrl` while calls run: the
  client is configured before it is used.
- A custom header, message or service: user code.
- The logger: one file under one lock; the rest is formatting.
- Parts of the zookeeper client and of the server that the modules' notes in
  `PROJECT.json` name: conversions of URLs, the table of clients by host,
  `CreateNode` (parents that are missing), `SetOption`, `SetRegister`.
- In hprose: `double`, whose overloads are ambiguous and cannot be instantiated;
  dates, which no callee can take; callees of 0, 2 and 3 arguments, for which
  `RegisterFunction` cannot be instantiated (`boost::function<R(Args)...>`).
- The facades, the protobuf binding, error texts, `proto_gen`, `third_party`,
  samples and tests: forwarding, conversions and generated or vendored code.
- Memory: that a `NetTransportClient` or a `ClientImpl` outlives its callbacks.

## Plan

1. *Finder and client together*: the session part of `ClientCall` under
   `ServerFinder`, to replace the assumption behind `LostCallReturns`; finder and
   `ZkClient` together, where the finder is one more watcher.
2. *Headers that are not recognised*: a peer that writes another header.
