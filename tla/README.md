# Verification of simple_microservices_framework

TLA+ models of the gateway (`gatewayServer/`) and of the app server skeleton
(`appServerXX/`), the TLC runs that check them on small instances, and TLAPS
proofs of the most important properties for every size.  Paths are relative to
the root of the sources (`src/`).

## 1. The system

Clients connect to the **gateway** over TCP, send a token and one JSON request
that ends in CRLF.  The gateway adds to the request the descriptor (`cfd`) and
the id (`cfdid`) of the connection and forwards it to the **app server** that
registered under the request's `lpt` name.  App servers keep one long-lived
connection to the gateway; their reply carries the two numbers back, and the
gateway writes it to that descriptor if the id is still the one it has for it.

Threads of the gateway: the master (accepts clients), `thread_num_` workers
(each an event loop over its clients), one transport thread (event loop over
the app servers).  Threads of an app server: the main thread (stats socket), the
gateway thread (connects, reads, reconnects), `thread_num_` consumers.

| Component | State | Operations | Interacts with |
|---|---|---|---|
| Client id map, reply routing (`master_thread.cc`, `threadSafe_map.h`, `appServer_transport.cc`) | `map_csfd_id_`, `id_`, the process' descriptor table | `AcceptCb`, `GetClientfdMapId`, `SendToClient`, erase in `ClientTcpErrorCb` | master, workers and transport thread share the map (own lock) and the descriptors (no lock) |
| Connection dispatch (`worker_threads.cc`) | `cqi_freelist_`, `new_conn_queue`, notify pipe, `vec_freeconn_`, `init_count_`, `last_thread_`, `thread_num_` | `InitThread`, `DispatchSfdToWorker`, `ThreadLibeventProcess`, `conn_new`, `conn_close` | master to workers; a signal handler reloads settings |
| Client session (`worker_threads.cc`, `json_opt.cc`) | `conn`: `rBuf`, `rlen`, `isVerify` | `ClientTcpReadCb`, `ClientInMessageOpt`, `ClientTcpErrorCb` | worker to app server registry |
| App server registry (`appServer_transport.cc`) | `map_appServer_sfd_` | `AcceptCb`, registration in `SendToClient`, `ErrorCb`, `SendToAppServerModule` | transport thread writes it without, workers read it with `mutex_` |
| Framing (`appServer_transport.cc`, `gateway_transport.cc`, `utils.h`) | `LOCAL_REV_DATA` | both `ReadCb`, `SplitData`, `FindCRLF` | the two ends of the long-lived connection |
| Writing (`socket_wrapper.h`) | what is written of each message | `WriteSfd` | workers (under `mutex_`), transport thread and consumers (without lock) |
| App server link, stats socket (`gateway_transport.cc`) | `local_connect_flag_`, `g_clientInfo.sfd`, descriptors | `SetupTransport`, `InitStatsSocket`, `Run`, `SetupGatewayTransport`, `InitSocketFd`, `connect_nonb`, `ErrorCb` | main thread, gateway thread and consumers |
| Work queue (`consumers.cc`) | `c_queue` | `putData`, `getData`, `consumerRun` | gateway thread to consumers |
| Configuration, start-up | settings singleton | `main`, `SigUsr`, `SettingsAndPrint` | read by all threads without lock |

What is hard: three kinds of threads act on the same descriptor numbers, which
the kernel hands out again at once; checks and the writes they protect are
separate critical sections; replies come late, twice, out of order and after a
restart; TCP cuts messages anywhere; objects are recycled through free lists
shared by all threads; one condition variable serves two directions; ids wrap.
`PROJECT.json` lists each hazard with its line and the properties about it.

What makes each component correct:

* routing - a reply reaches the client that asked or nobody, and is dropped only
  when that client is gone;
* dispatch - every accepted connection is set up by exactly one worker with its
  own descriptor and id; no item or conn is lost or in two places;
* work queue - every message is handed to one consumer, once, in order, and
  nobody sleeps while there is work;
* framing - messages are handed over whole, once, and the buffer never blocks;
* session - what is forwarded under a connection's tag is that connection's own
  first line, whole, and only behind a right token;
* registry and link - a request goes to a connection that registered the name,
  and an app server that lost its connection becomes routable again;
* writing - a message that was written to the end ends one line, and the damage
  of a write that was given up stays bounded.

## 2. The modules

### ThreadSafeMap
`CThreadSafeMap` as a function on the present keys.  Each method holds the lock
of the map, so each is one atomic step; two calls in a row are two steps.
`insert` keeps an existing value, as `std::map::insert` does.

### ReplyService and ClientRouting
`ReplyService` is a service that knows its clients: a reply is begun only for a
client that is there (or for one older than the process or than one turn of the
ids, the part of the promise that ids cannot keep), it is dropped only for a client
that is leaving or gone, and the rest of it goes astray only after a close.
`ClientRouting` is the path of a reply in the code; its connections are seen by the
abstract service as `Seen`.  `owner` is the kernel's descriptor table: a client, an app
server, or free; `accept` may return any free descriptor.  The master is the
program counter `mpc` through `AcceptCb` (`Accept`, `AcceptErases`,
`AcceptDispatches`); a connection is a `stage` with its `conn_sfd` and `conn_id`
(`conn::sfd`, `conn::id`).  The worker's callbacks are actions on the stage;
`ClientTcpErrorCb` is two steps because the erase and the close are.  The
transport thread is `SendToClient`/`DropReply` (look up), then one `WritePiece`
per `write()` of `WriteSfd`, which reaches whoever owns the descriptor *now*.

Replies are not consumed: a request that was ever forwarded can be answered at
any time, any number of times, in any order.  That covers lost, late, duplicate
and reordered replies.  `Restart` kills the process: descriptors closed, map
empty, `id_` 0; app servers keep what they were asked.

Clients are numbered in the order of accepts, so that "who should get this" is
decidable in the model although the code only has the descriptor and the id.
`ReplyTag` is what the app server sends back: `cfd` and `cfdid` of the request.
That is an assumption on both ends: `RestructJsonStringToLogic` appends the two
members (`json_opt.cc:60-61`) and `RestructJsonStringToclient` reads the first of
each name (84-85), so a client that puts members of these names into its request,
or an app server that changes them, is not in the model.
Abstracted: which worker serves a connection (ConnDispatch), what its bytes are
(ClientSession), logging, the app servers' own behaviour.

### ClientSession
`ClientTcpReadCb` and `ClientInMessageOpt`, whole: one callback is one step, as a
conn is used by one callback at a time.  A byte is `<<connection, position>>`, so
that a byte of an earlier client in a recycled conn is visible; `rBuf` keeps its
contents over `conn_new`, which resets `rlen` and `isVerify` only.  How many bytes
come with a read is open; the token, the places of the CRLFs, a zero byte that the
client may send (`nul`; the C string given to the JSON parser ends there) and
`size` are chosen when it connects.  `size` is the length of the message that the
text of the first line makes: `RestructJsonStringToLogic` writes it anew with the
tag and `ClientInMessageOpt` appends a CRLF, so it may be more than the line had,
or less; 0 stands for a line that is no request or names no app server.
`TooLarge` is the limit of `SendToAppServerModule`, `strlen(message) >=
DATA_BUFFER_SIZE`: a line that just fits `rBuf` is refused there if the tag makes
it too long.  Texts are told apart by their bytes, which is what the properties
need; the tag is the first half of a pair in `forwarded`.

### SharedStream
The `write()` calls of several threads on one connection, with the lock (towards
an app server) or without (towards the gateway); the choice is a variable, so that
each property says what holds on which side.  A message is `Units` parts of which
the last two are its CR and its LF; a write takes as many as it likes, and may stop
between those two, or gives up after its three seconds and leaves the rest out.
The lines the other end sees are operators on the stream: a line ends where an LF
stands directly behind a CR, be it that of another message.  Framing is the reader.

### Handover and ConnDispatch
`Handover` says what the gateway promises for an accepted connection: it waits for
one worker, behind those accepted before it for that worker; the worker sets it
up, with a conn that serves no other, or gives it up.  `ConnDispatch` is
`worker_threads.cc`: from the start of the master to `conn_close`: the listening socket, `InitThread`,
the workers, the port for app servers, then the accepts.  Any failure of a start
step ends the process (`StartFails`).  Items and conns exist from their allocation
on, in blocks of `ItemsPerAlloc`; the sets grow.  The linked lists are sequences of item
numbers, so that an item that is in two lists, or lost, is visible.  Every
critical section is one step; what a thread does in between with objects in its
hands is one step too.  `thread_num_` is a variable because `SigUsr` sets it
again, with any value from 0 on, as the configuration is not checked;
`vec_libevent_thread_.at()` beyond the end throws, nobody catches it, a remainder
by 0 traps, and the process is `"crashed"`.  A reload whose file cannot be read
ends the process (`ReloadFails`).  `ConnClose` may happen while its worker is busy in
another callback, which the code rules out: the model allows more orders, and the
safety properties hold for all of them.  `malloc` and `new` do not fail, read
and write of the pipe do not fail.

### TaskQueue and Consumers
`TaskQueue` says what the app server promises: messages are queued once, taken
in order by one worker, worked off.  `Consumers` is `consumers.cc`: the ring
`buf`, `pos`, `length`, one mutex (a step is a critical section up to its unlock
or its wait), one condition variable with broadcast, spurious wakeups of every
waiter.  A message is its number.  `closed` is never set by any code and is left
out, and so are the asserts, which the Makefiles compile out with `-DNDEBUG`.

### Framing
One direction of the connection between gateway and app server; the two `ReadCb`
are the same code.  A byte is its position in the stream; `ends` says where the
messages end, `lo` and `hi` what the buffer holds.  A read may stop at any byte
that was sent and has room.  `Marks` is `find_last_of(CRLF)`: any CR or LF.
The other bytes of a message are no CR or LF: libjson escapes them.

### Directory and AppRegistry
`Directory` is a table of connections by name: a name stays with the connection
that took it first until the end of that connection has been handled, and a
request goes to the connection that was found for it, unless that one closes
meanwhile.  `AppRegistry` is the gateway's table of app servers, which holds
descriptors; `Found` is the last connection accepted on the descriptor of each
entry, `Called` the names of the connections.  `map_appServer_sfd_` is a function on names
(`std::map::insert` keeps what is there); a connection of an app server is a
number with the process it comes `from`, its `stage` at the gateway, `conn_sfd`,
and `up` while the app server holds its end.  The transport thread is in its
event loop or in `ErrorCb`, which has an erase and a close to do.  libevent
2.0.21, which the repository names, keeps a bufferevent until its callback has
returned, so the descriptor is closed after the erase; the model has the order of
the source text too.  A worker is `SendToAppServerModule`: look-up, then one
`WritePiece` per `write()`; there is one at a time because of `mutex_`, which the
transport thread does not take.

The map is read and changed at once without a common lock.  A `find` that races
sees the entry or not (both are steps of the model), or the process dies, which
is `Restart`, as it is for the iterator that is advanced after its erase.
`OlderOnesClosed` is the one assumption about order: a process binds a fixed
port, so the kernel has ended its old connection before a new one is accepted,
and five seconds lie between.  An app server that comes back under another
address without the old connection having been noticed to be dead is, here,
another process of the same name (`a1`, `a2`).

### AppLink
The app server's end: `SetupGatewayTransport` as a program counter, with a step
for each call that can fail and for each of the two closes of one number.  `owner`
is the process' descriptor table, `OtherOpens`/`OtherCloses` are threads the
repository does not contain (business code, logging).  An event base counts as
one descriptor.  Consumers only read `g_clientInfo.sfd`, so they have no step.
The thread's `LOCAL_REV_DATA` and the bytes written are left out.

The main thread is `SetupTransport`, or `InitStatsSocketFails`, and
`StatsConnection`: the listening socket of the statistics port is put into a
bufferevent instead of a listener, so the first connection to it makes libevent
read from a listening socket, get an error, and drop the only event of the base.

### Proof modules
`ClientRoutingProofs`, `ConsumersProofs`, `FramingProofs`, `AppLinkProofs`,
`AppRegistryProofs`, `SharedStreamProofs`, `ConnDispatchProofs`,
`ClientSessionProofs`: one per module, with the lemmas on lists and remainders
that each needs.

## 3. The runs

| Run | Checks | Shows |
|---|---|---|
| `routing_safety` | `TypeOK`, `MisdeliveredOnlyAfterClose`, `DroppedOnlyIfDead`, `MatchFindsOwner`, `ImplementsReplyService` | what the id check does give; no reply is refused to a client that is still there; refinement of a service without descriptors and ids |
| `routing_crosstalk` | `NoCrossTalk` (violated) | finding 1 |
| `queue` | `TypeOK`, `NobodySleepsOnWork`, `RingHoldsBacklog`, `EveryMessageRuns`, `ImplementsTaskQueue` | no lost wakeup, ring right through the wraps, every message runs; refinement with its liveness |
| `framing` | `TypeOK`, `HandedOverOnce`, `AlwaysRoom` | every cut of every stream within the bounds |
| `framing_lost` | `NoMessageLost` (violated) | finding 2 |
| `dispatch` | `TypeOK`, `NoneStranded`, `OnePlace`, `ServedAsDispatched`, `NoneForgotten`, `CrashNeedsReload`, `EveryConnServed`, `GatewayStarts`, `ImplementsHandover` | free lists, queues and bytes agree; a worker takes its connections in the order of accepts; nobody waits for ever but whom a reload gave to a worker that does not exist; the start ends; only a reload or a `thread_num_` of 0 brings the dispatch down |
| `dispatch_reload` | `ReloadIsHarmless` (violated) | finding 3 |
| `registry` | `EntryIsRegistered`, `AstrayOnlyAfterClose`, `AloneIsRoutable`, `ImplementsDirectory` | what a found name leads to; who is found; a name keeps its connection whatever happens to the descriptors |
| `link` | `TypeOK`, `LinkIsNamed`, `NoSocketLeft`, `LinkComesBack` | every failure of every call of the reconnect loop; back to a connection while descriptors last |
| `link_exhausted` | `ReconnectsForEver` (violated) | finding 4 |
| `session` | `TypeOK`, `OnlyOwnFirstLine`, `EachLineOneCall`, `FirstLineHandled` | every cut of a client's bytes, the full buffer, the limit on what is sent on, a recycled conn |
| `stream` | `TypeOK`, `OneLineEach`, `DamageHasReason`, `DamageEndsWithNext`, `OpenLineIsShort` | mixed and given-up writes, with and without the lock |

The type invariant of `AppRegistry` is proved (`RegistryTypeCorrect`) and in no run.

Bounds, and why they are enough:

* routing - two descriptors (one that is reused, one that is not), three clients
  (asker, later owner, a third for the wrap), `IdMax = 0` so that ids repeat after
  two accepts (the period is `IdMax + 2`), two pieces per reply (one before, one
  after a change of owner), one restart.  The
  violation run uses one descriptor and the code's 65535, so that the wrap plays
  no part in it.
* queue - three consumers and a capacity of 3, so that all can wait, all can
  work, and the ring can be full with somebody waiting; seven messages go around
  the ring more than twice.
* framing - a buffer of 6 and messages of 2 to 5 bytes: an empty message, one
  that just fits, up to three complete ones in a read, four in a stream.
* dispatch - two workers, blocks of two items (one for the caller, one for the
  list), three connections, so that blocks, items and conns are used again; a pipe
  of two bytes, which three connections for one worker fill up; two reloads, so
  that one can lower `thread_num_` and another raise it again.  `dispatch_reload`
  needs one.
* registry - two app servers of one name and one alone, three connections (so
  that one can come back after another), two descriptors (one that is reused
  while the other is in use), two pieces per request, one restart.
* link - five descriptors: room for two connections with their event bases while
  other threads hold up to two, and for running out.  `link_exhausted` has one
  other descriptor.
* session - two connections, one after the other over one conn, so that the second
  meets what the first has left; a token of 2, a buffer of 6, reads of up to 4:
  the token is cut, comes with the first line, two lines come in one read, a line
  fills the buffer exactly or is too long, and reads go on after it is full; a zero
  byte in the middle of a line; messages of the largest size that is sent on and of
  the smallest that is not.
* stream - three writers, so that a third can start between two that mix; messages
  of three parts, text, CR and LF (a write can stop before each of them); four
  messages, so that one can follow the damage and one the message after it.

`CHECK_DEADLOCK FALSE` in dispatch, framing, registry, session and stream: once
the bound on connections or messages is used up the system rests; in link, because
a process that ran out of descriptors has ended.

Every property of a passing run has a mutant in `PROJECT.json`: an operator next
to the original ("A slip: ...") with a bug that could have been written, under
which the same run reports the property violated.

## 4. Findings

1. **Reply to the wrong client** (`appServer_transport.cc:144-152`): the look-up
   and the write are not one critical section.  `master_thread.h:28` says the map
   prevents it.  `routing_crosstalk` shows the interleaving; the theorem
   `MisdeliveryIsLate` bounds it: it takes a close of the original connection
   while the reply is being written.
2. **A message is lost when a read ends between its CR and LF** behind a complete
   message (`appServer_transport.cc:123`, `gateway_transport.cc:338`).
   `HandsOverOnce` proves that this is the only way to lose one.
3. **Reload changes `thread_num_`** (`gatewayServer.cpp:78,102`): the comment says
   only the timeout is reloaded; with all workers up, a larger number crashes the
   next dispatch that reaches it (`worker_threads.cc:341-342`), and so does 0.
   During the start a reload does more: `InitThread` can index a worker that was
   not set up (line 79), wait for a number of workers that never comes
   (`GatewayStarts` excludes it), and after a reload that lowers the number between
   its two loops and another one that raises it again, connections are queued for a
   worker that was never created, while the process runs on, until the pipe of that
   worker is full and the master blocks (`ForNobody` in `EveryConnServed`).
   `CrashesAreFromReloads` proves that without a reload only a `thread_num_` of 0
   brings the dispatch down.
4. **Every reconnect leaks an event base** (`gateway_transport.cc:194,213`): after
   enough of them no connection comes up, against the automatic reconnect of
   `README.md:9`.

Weaknesses that the passing properties are worded around:

* **Ids start again at 1** with every gateway process and follow each other
  (`master_thread.cc:16`, `master_thread.h:28` calls them random): a reply to a
  question asked before a restart can match a connection after it.
  `MatchFindsOwner` is about replies with a tag that is not that old.
* **A connection to the statistics port ends the app server**
  (`gateway_transport.cc:67`), quietly and with exit status 0: `StatsConnection`.
  The port is unfinished by its own comment; `LinkComesBack` excepts it.
* **The first request is sent again for every later line** of the same connection
  (`worker_threads.cc:243`): the buffer is never emptied behind the token, its
  first CR becomes a terminating zero, and what stands behind it is not reached.
  `EachLineOneCall` says exactly this; a client that sends one request and no more
  does not notice.  When the buffer is full, later input is neither read nor answered.
* **A `thread_num_` of 0** is taken from the configuration unchecked
  (`gatewayServer.cpp:102`); the first connection divides by zero
  (`worker_threads.cc:341`).  `CrashNeedsReload` excepts it.
* **A request that just fits** its receive buffer can be too long for the app
  server's once it is tagged, and is then logged and dropped
  (`appServer_transport.cc:301`): the client gets no answer.  `FirstLineHandled` is
  about requests that fit both.
* **A message that was given up** leaves its first part in the stream
  (`socket_wrapper.h:93`), and the message behind it shares its line, which no
  JSON reader accepts: `DamageEndsWithNext` bounds the damage to lines with the
  lock: one line, whose end is that of the next whole message.  It does not bound
  the loss at the reader: what was left and a message of nearly
  `DATA_BUFFER_SIZE` can together be more than the reader's buffer, which then
  never sees the end of the line and takes nothing more (`AlwaysRoom` is about
  whole writes).
* **Writes without the lock** (`app_operate.cc:49`) can even come between the CR and
  the LF of another message, which then ends no line (`OneLineEach`).  Consumers without a lock, and a line of
  theirs can be longer than the reader's buffer: `OpenLineIsShort` holds only
  under the lock and as long as nothing was given up.
* **`if` around `pthread_cond_wait`** (`worker_threads.cc:375`): after a spurious
  wakeup `InitThread` returns before the workers are up, against the comment at
  line 82.  No harm follows: queues and pipes exist before the threads do, and
  `EveryConnServed` holds for connections accepted before the workers run.
* **Request to the wrong peer** (`appServer_transport.cc:195,307-317`): `mutex_`
  protects look-up and write from other workers only.  It is finding 1 in the
  other direction; `AstrayOnlyAfterClose` bounds it the same way.
* **A second app server of one name** is logged as connected and never entered
  (`appServer_transport.cc:170`); when the first one has gone, requests for the
  name are refused although an app server is there.  `AloneIsRoutable` is about
  names that one process uses.
* **Stale `g_clientInfo.sfd`** (`gateway_transport.cc:289`, `app_operate.cc:49`):
  between two connections a consumer writes its answer to whatever got the
  number.  `LinkStaysNamed` proves that it is right while a connection is served.
* **The second close** in `InitSocketFd` (266 after 394 or 414) may close a
  descriptor of another thread.  It is a step of `AppLink` (`ClosesAgain`), and the
  proofs hold with it.

## 5. Fairness

* Consumers: weak fairness of each consumer and of the producer inside `putData`.
  The mutex is held for a few statements, and `StartAppOpt` ends because
  `WriteSfd` gives up after three seconds.  Nothing about arrivals.
* ConnDispatch: weak fairness of the master outside `accept` and of each worker's
  event loop.  Nothing about clients, reloads or spurious wakeups.
* AppLink: weak fairness of the thread's own steps; strong fairness of a connect,
  a registration and the set-up of a connection; weak fairness of the start: a gateway that is up often
  enough accepts some attempt.  Nothing about connections ending, or about other
  threads.
* ClientRouting, AppRegistry, ClientSession and SharedStream have safety properties
  only.  That a client is answered is nothing the gateway can promise: an app server
  answers once, and a `WriteSfd` that gives up drops the answer (`app_operate.cc:49-52`,
  `appServer_transport.cc:152`).  What is checked instead is that the gateway refuses
  no answer to a client that is still there.

## 6. Proofs

All theorems hold for every value of the constants that satisfies the module's
`ASSUME`.

**ClientRoutingProofs.** `RoutingInv` is inductive (`RoutingInvariant`).
`MisdeliveredOnlyAfterClose` is not inductive alone: a write needs to know that
the descriptor is the writer's own until it is closed (`WriterInv`,
`OwnerIsLive`), which needs that an entry found with the right id belongs to the
last client accepted on that descriptor (`EntryIsLatest`, `LiveIsMapped`), that a
closed client that asked has left no entry of its own (`DeadIsUnmapped`), and
that ids are allocated in sequence modulo the period (`IdSequence`).
`MatchIsSafe` adds that two clients fewer than `IdPeriod` apart have different
ids (`ModDistinct`), so that a match by a fresh tag is a match with oneself.
One lemma per action; `StepKeepsInv` combines them.
`RoutingRefinesService`: a reply that is begun is begun for a client that is there
or for one that is not fresh (`MatchIsExact`), a refused one is for a client
without an entry and so for none that is open (`LiveIsMapped`), a close of a client
that asked comes after its erase (`DeadIsUnmapped`), and a piece goes to the writer
while that is not closed (`WriterInv`, `OwnerIsLive`).  The other steps of the
master and of the app servers' connections stutter.

**ConsumersProofs.** `QueueInv` = type, `NobodySleepsOnWork`, `RingHoldsBacklog`,
`TakenOnce`.  The ring is described relative to `pos`, and the lemmas `SlotAfter`,
`SlotsDiffer`, `SlotsShift` carry it over the modulo.  `QueueRefines` maps the
ring from `pos` on (`Backlog`) to the abstract queue: every step of `Consumers` is
a step of `TaskQueue` or a stutter.

**FramingProofs.** `FramingInv`: the buffer starts at a message or at the LF of one
(`StartsAtMessage`), holds no complete message after a callback (`NothingLeft`),
and what is gone was handed over or split (`GoneIsHandled`).

**AppLinkProofs.** `LinkInv`: `sfd` is the one socket that is the link's, exactly at
the places where the thread has one (`LinkIsSfd`), and from the registration on
it is the number the consumers have (`NumberIsNew`).  The second close needs
`LinkIsSfd` to see that it can hit others, never the link.

**AppRegistryProofs.** `RegistryInv`: an open connection owns its descriptor and
is the latest that got it (`OwnerIsOpen`, `OwnerIsLatest`); a name's entry holds
the descriptor of a connection that registered the name and is still the
descriptor's latest (`EntryIsLatest`), but while `ErrorCb` is between its erase and
its close (`ErrorInv`); a process' old connections stay closed
(`OldOnesStayClosed`, from `OlderOnesClosed`); the sender has what its look-up saw
(`SenderInv`).  `AstrayOnlyAfterClose` alone does not know what an entry stands
for when it is found, nor that its descriptor changes hands only by a close.
`RegistryRefinesDirectory` has to show that the connection an entry means changes
only where the directory's does: it is the one that registered (`FoundIs`), an
accept gets a descriptor that is in no entry (`AcceptStutters`), and the erase by
descriptor in `ErrorCb` takes exactly the entries of the connection that ends
(`ForgetRefines`).

**SharedStreamProofs.** `StreamInv`: a message has one writer and is not given up
while it has (`WritersInv`); no part is in the stream twice, none before it was
counted, and the LF of a message that was given up not at all (`PartsInv`); a
message that is neither in the making nor given up has its LF there (`EndInv`).
All properties need to know where the parts stand, `OneLineEach` too: an LF ends a
line only behind a CR, and in a message that was written alone it does
(`AloneEndsLine`).  `LinesInv`: the parts of a message are in order (`OrderInv`); those
of a message that none was written beside follow each other directly, and its
writer is at the end of the stream as long as it is at it (`RunInv`); whatever
stands between two parts of one message was written beside another (`MixInv`);
with the lock there is one writer at a time, and without it those that overlap are
in `beside` (`BesideInv`); and a line has a
last line end before it (`EndsInv`), which makes "the line it is in" well defined.
`DamageHasReason` is not inductive because it speaks of finished lines only and
says nothing about the part of a message that is on its way.  `DamageEndsWithNext`
uses `StrangerIsCut`: with the lock the only thing in front of a message in its
line is the remainder of one that was given up.

**ClientSessionProofs.** `SessionInv` says for every connection what its buffer
holds: until the token is complete, exactly what has come (`UntilToken`); from then
on the bytes behind the token, with a zero in place of the CR of the first
`calls[c]` lines (`BehindToken`, `Holds`), whatever is behind `rlen` from earlier
clients.  That gives each callback its meaning: `CRLFsLeft` (the CRLFs that `find`
can see are those of the lines not handled yet), `FirstIsNext` (it finds the next of
them), `LineEnded` (the C string is the first line, up to a zero byte of the
client's, each time).  The invariant
also needs that an open connection has a conn to itself (`StageInv`) and that
nothing was counted for one that is to come (`NewInv`).  `EachLineOneCall` counts
with a bijection between lines and CRLFs; `FirstLineHandled` is `HandledIsSent`
and that the buffer, when it is not full, holds all that has come.

**ConnDispatchProofs.** Nothing about the four places of an item is inductive by
itself: that a popped item is not free needs that queues and free list are apart,
and that needs each to hold no item twice.  `DispatchInv` has the types in parts;
the stages of the start (`StartInv`: which workers exist and have registered);
`NoneStranded` (a byte or a waking worker for each queued item); `HandsInv` (who
holds an item when); no list holds an item twice (`FreeOnce`, `QueuedOnce`,
`HeldOnce`), no two lists share one (`FreeApart`, `QueuedApart`), every item is
somewhere (`Somewhere`); a queued or held item carries a dispatched connection
(`Carried`), each of them once (`CarriedOnce`); a conn in use is not free and
serves one connection (`ObjInv`).  `ItemsAreInOnePlace` counts the places from
these parts.  The lemma `Frame` covers the steps that touch no list; each of the
others has a lemma of its own with one step per part.
`DispatchRefinesHandover` reads the queues of connections off the items
(`QueuedConns`): every step of `ConnDispatch` is a step of `Handover` or a stutter.
It needs that filling an item for the next connection changes none that is queued
or in a worker's hands (`QueuedApart`, `HeldOnce`), that the conn a worker sets up
is nobody else's (`ObjInv`, `ServedAsDispatched`), and that only a connection that
is served has one (`UsedIsServed`, an invariant of the proof alone).

Only model-checked: everything temporal under fairness (`EveryMessageRuns`, `EveryConnServed`, `GatewayStarts`, the fairness part of
`ImplementsTaskQueue`, `LinkComesBack`).  The prover has no rule for fairness.
Every invariant that a passing run checks is a theorem, and so are the refinements
(the safety part of `ImplementsTaskQueue`, all of the other three).

## 7. Plan

Done: all modules of section 2 with their runs; the proofs of section 6.

Next, in this order:

1. **Gateway** - routing and dispatch over their abstract specifications
   (`ReplyService`, `Handover`): the connection that a worker sets up is the one
   that the map knows.
2. **A request over both ends** - `Directory` with AppLink: an app server that
   reconnects is found again under its name.

## 8. Not modelled

* The configuration reader and logging: I/O whose state does not matter after the
  start.  What a reload changes while the gateway runs is in ConnDispatch; the app
  server's reload changes settings that are read once, at the start.
* `CThreadSafeMap`'s methods that nobody calls; the string utilities but for those
  on the message path.
* libjson, libevent and boost: external, used by their contracts.
* `SIGPIPE`, which is not ignored: a write to a connection reset by its peer ends
  the process, whatever the state; for the others that is `Restart`.
* A client's own members `cfd` and `cfdid`, and app servers that change them: see
  ClientRouting.
* A work queue of capacity 0 (`appServerXX.cpp:112`): excluded by
  `ConsumersAssumption`.
* Redis, SQL and `logic_operate.h` of the app server: not in the repository, so the
  app server does not build as it is.
