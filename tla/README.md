# fion in TLA+

fion is a small HTTP server library in C++20. It has no tests, and most of what
can go wrong in it is hard to test: descriptor numbers that are reused while
other threads still hold them, edge-triggered events, threads that are stopped
while they start, a request that fails at any of ten places. This directory
models those parts, checks them with TLC on small instances and proves every
safety property of those instances with TLAPS for all.

Run everything inside this directory:

    tlc -config conn_sound.cfg MCConnections.tla
    tlapm DeliveryProofs.tla

(`for f in *Proofs.tla; do tlapm $f; done` checks all.)

`PROJECT.json` lists the runs, the lines of the source every definition stands
for, the hazards of the code and the properties aimed at each of them, and for
every property a mutant: a plausible bug in the modelled code under which TLC
finds the property violated.

## 1. The system

| Component | State | Operations | Talks to |
|---|---|---|---|
| `Application` | a `Router`, a `Server` | `addRoute`, `addGroup`, `addResource`, `run`, `stop` | owns both, main thread |
| `Server` | `_running`, accept thread | `start`, `stop`, `accept_loop` | `Listener`, `PoolManager` |
| `Listener` | `_listenFD`, `_is_listening` | `bind`, `listen`, `acceptClient`, `close` | kernel |
| `PoolManager` | `_pools`, `_nextPoolIndex`, mutex | `add_pool`, `get_pool`, `distribute_client`, `start_all`, `stop_all` | every `Pool` |
| `Pool` | event loop, connection pool, thread | `run`, `stop`, `addClient`, `handle_client_event`, `process_request` | all below |
| `EventLoop` | `_running`, callback | `run`, `stop` | `Poller`, calls back into `Pool` |
| `Poller` | epoll or kqueue descriptor | `addFD`, `removeFD`, `poll` | kernel |
| `ConnectionPool` | map from descriptor to `Client`, mutex | `addClient`, `getClient`, `removeClient` | destroys `Client`s |
| `Client`, `Buffer` | descriptor, request and response bytes | `readRequest`, `is_request_ready`, `prepare_response`, `writeResponse`, destructor closes | kernel |
| `Router`, `Route` | vector of routes | `addRoute`, `addGroup`, `addResource`, `findRoute` | application (writes), every pool's thread (reads) |
| `Request`, `Headers`, `Version`, `URL`, `Response` | values | constructors parse and throw, `toRawResponse` | `process_request`, handlers |
| `ThreadPool` | queue, `_stop`, mutex, condition variable | `enqueue`, `worker_loop`, destructor | not used by the server |
| `Logger` | level, initialised flag, mutex; one for the process | `init`, `shutdown`, `set_level`, `log` | syslog; every `Application`, every thread |

Threads: main (in `Application::run`), one accept thread, one thread per pool,
and whatever thread or signal handler calls `stop`. The accept thread and a
pool's thread share the pool's connection map (mutex), its epoll instance and
the process's descriptor table (the kernel); the pools' threads and the
application share the routes (no lock at all). A connection is created by the
accept thread and from the registration on belongs to its pool's thread.

What is hard, and what makes each part correct:

* **Connections.** `getClient` returns a raw pointer after it has released the
  map's mutex; a descriptor number is free for anybody after `~Client`; events
  carry a number, not a connection. Correct means: every open descriptor has
  exactly one owner at every moment, a pointer in use stays valid, I/O reaches
  the connection it is meant for, nothing is closed twice or forgotten.
* **Life cycle.** `start` and `stop` race with each other, with threads that
  have not entered their loop yet and with a handler on a pool's own thread.
  Correct means: `stop` and the destructors end, leave no thread behind and
  never destroy a joinable `std::thread`.
* **Bytes and edges.** One `recv` and one `send` per event on an edge-triggered
  descriptor. Correct means: no byte is left without an event to come, nothing
  is answered early, what is complete is answered, what the handler gets is what
  the peer sent and the peer can read back what the handler returned; and all of
  that while other connections come and go on the same descriptor numbers.
* **Requests.** Parsing, search, middleware, handler and the response's text may
  each throw. Correct means: exactly one response, the right one; the first
  matching route; middleware before the handler; the path's parameters.
* **URL.** Four helpers cut pieces off one working string; a delimiter inside
  one piece must not be taken for the real one.
* **ThreadPool.** Notifications outside the mutex, a destructor that drains.
  Correct means: no lost wake-up, every accepted task once, the destructor ends.
* **Logger.** One level and one syslog for all Applications, read without the
  mutex and used from a signal handler. Correct means: level and mask agree, and
  the logger stays usable for whoever still runs.

## 2. The modules

| Module | Models | Abstract specification | Theorems |
|---|---|---|---|
| `Connections` | `accept_loop`, `get_pool`, `addClient`, `EventLoop::run`, `handle_client_event`, `ConnectionPool`, `Poller` (epoll), `~Client` | `ConnectionService` | `DeliveryProofs` |
| `Delivery` (extends `Connections`) | the same with the bytes and edges of every connection: `readRequest`, `writeResponse`, the peers | | `DeliveryProofs` |
| `Lifecycle` | `Application::run/stop/~`, `Server::start/stop/~`, `Listener`, `PoolManager::start_all/stop_all`, `Pool::run/stop`, the loops' flags | | `LifecycleProofs` |
| `RequestStream` (extends `Message`) | one connection byte by byte, on epoll and on kqueue, with `SIGPIPE`, partial sends, shutdowns and resets | | `RequestStreamProofs` |
| `Message` (extends `Text`) | `is_request_ready`, the cutting of `process_request`, `parseFromRaw`, `toRawString`, `toRawResponse` | | |
| `Text` | `find`, `rfind` and `substr` of `std::string` | | `TextProofs` (lemmas) |
| `Http` | which methods, versions and status codes the conversions know | | |
| `Router` | the table, registration, `splitPath`, `matchPattern`, one turn of `findRoute` | | `ExchangeProofs` |
| `Exchange` (extends `Router`, `Http`) | `process_request` on the pools' threads, `findRoute`'s loop | | `ExchangeProofs` |
| `URL` (extends `Text`) | the constructor of `URL` and `toString` | | `URLProofs` |
| `ThreadPool` | `network::ThreadPool` | `TaskService` | `ThreadPoolProofs` |
| `Logger` | `logging::Logger` and what it uses of syslog | | `LoggerProofs` |
| `MC*` | constants for TLC | | |

How they fit: `Connections` leaves open what an event's request says and what
becomes of it (`ReadEnds`, `ReadIncomplete`, `ReadComplete`, `Respond` are free
choices). `Delivery` makes the choice depend on bytes: it adds to every
connection what its peer has sent, what `recv` has taken and the edge the kernel
still owes, for requests that are counted in pieces. `RequestStream` looks at one
connection more closely and decides from the text of the request. `Exchange`
decides what `Respond` puts into the buffer, `URL` what path `Exchange` searches
for. `Lifecycle` has the threads that the others take for granted, and abstracts
the connections away; `Logger` has the threads' calls of the logger.

State and code, where the names are not the same:

* `Connections.sock[fd]` is the kernel's descriptor table: free, a connection,
  or a descriptor of the rest of the process; `interest[p]` is an epoll
  instance; `clients[p]` is `ConnectionPool::_clients`, where a `Client` is
  named by the connection it was made for; `batch[p]` is the vector
  `Poller::poll` returned. The third component of an event and `evConn` are
  history: which connection the event was about.
* `locked[p]` is the map's mutex while `removeClient` destroys the `Client`.
  Other critical sections are one step each and need no variable.
* `Delivery.buffer[c]` is the request buffer of the `Client` made for `c`,
  `consumed[c]` what `recv` returned on the connection: the two are the same only
  if nobody reads into another one's `Client`. `answers[c]` is history, the
  `Client`s whose response was sent on `c`, and so is `cause[c]`: why the accept
  thread refuses `c`, which is the connection whose `Client` lay in the slot, or `c`
  itself if epoll_ctl failed for it. A `recv` takes all that has arrived; the limit of
  4096 bytes is in `RequestStream`. Connections are accepted in the order of `CHOOSE` and get the
  first free descriptor, which loses no case: they differ in nothing else, and
  kernels hand out the lowest number.
* `Lifecycle.stopPc[c]` is where context `c` is in `Server::stop`; a context is
  an outside thread, main (a signal handler suspends main: `MainAt`), or a pool's
  number for a handler on that pool's thread. `~PoolManager` is `stop_all` on main.
  `Listener::listen` is three steps (the check of `_listenFD`, `::listen`,
  `_is_listening`), and so is `Listener::close` (`::close`, `_listenFD`,
  `_is_listening`); `acceptClient` reads both members before it calls accept.
  `Listener::bind` is one step: nobody accepts yet, and a stop in its middle comes
  before or behind it, or makes it fail. `listenFD` is "stale" while the member still holds a number that was
  closed.
* `RequestStream`: `sent` and `received` count the text of `request`, put together
  by `RequestText` from what the peer means, and what it sends behind it; a header is written `name: value`
  or `name:value`, both of which HTTP allows; `edge` is
  the event the kernel still owes; `poller` says which build it is; `reply` is what
  `send` accepted. `pc = "killed"` is the process after `SIGPIPE`.
* `Message`: a text is a sequence of words and of the characters the code looks
  for. Numbers in it are read by `Stoull` with wrapping and sign. The loop of
  `parseFromRaw` is stated by what it leaves: `Lines` are the lines `getline` returns,
  as pairs of positions, and of two with one key the later counts (`HeaderMap`).
* `Exchange.exchange[t]` is the frame of `process_request` on thread `t`;
  a route whose handler is `NoHandler` has a null pointer there, and `Unhandled`
  is the test of Pool.cpp:175; `storage` counts reallocations of the vector, so that an iterator into freed
  memory is visible (`Stale`), and what it then finds is `Undefined`.
* `URL.url`, `pos` and `u` are the locals and members of the constructor;
  `input` holds the components the raw string was put together from. When it has
  been read, `ParseAgain` reads what `toString` makes of it.
* `Logger.temporary` are the threads whose argument of `init` still exists;
  `ident` is whose string `openlog` was given.

Interleaving: a step is one atomic access, one system call, or one critical
section. Code between two of those that touches only the thread's own data
belongs to the step before it. Accesses to plain members that race
(`Listener` from `listen` on, `Logger`'s level) are steps of their own, each value
whole.

## 3. The runs

Passing runs (every property in them has a mutant that breaks it):

| Run | States | What it shows |
|---|---|---|
| `conn_sound` | 30 844 | 3 descriptors, 3 connections, 2 pools, epoll_ctl that works: `Ownership` and what follows from it, and that every connection is settled (`RefinesFairService`) |
| `conn_faulty` | 2 323 | 2 descriptors, 4 connections, 1 pool, epoll_ctl that fails: connections still live the life `ConnectionService` describes |
| `deliver` | 667 726 | 3 peers with requests of 2 pieces on 2 descriptors and 2 pools, shutdowns, resets, epoll_ctl that fails: no event is lost, every peer gets its own answer, and gets it in the end unless it was refused, and behind every refusal is an epoll_ctl that failed |
| `life_restart` | 424 | two runs, a stop by a signal on main once the loops run, `bind` or `listen` failing, destruction: `stop` ends and shuts down, and every accepted connection finds a running pool |
| `life_race` | 23 668 | stop at any moment, from a signal, a thread and a handler: only one acts; a destroyed server has no threads |
| `pool_tasks` | 2 562 | 2 workers, 2 other threads, 3 tasks that may enqueue tasks: no lost wake-up, `TaskService` with fairness |
| `stream_fitting` | 56 502 | the text of five requests of up to one `recv`, in all cuttings, on both Pollers, with headers in both forms, shutdowns and resets: nothing stranded, misread, answered early or left unanswered |
| `exchange` | 30 624 | requests while routes, one of them without a handler, groups, two resources and an invalid expression are registered |
| `url_parse` | 33 980 | 4 schemes, 2 user informations, 4 hosts, 7 ports, 3 paths, 4 queries, 2 fragments in all combinations, read twice |
| `log_shared` | 525 672 | 3 threads, 3 levels, one of the threads interrupted by signals: level and mask agree, and decide about racing messages |

Two runs show a disagreement between code and documentation, `life_lost_stop`
and `stream_long`; the other configurations of section 6 are run by hand.

Why these bounds are enough for the cases that matter: a descriptor number must
be reused while an old event, map entry or pointer to it may exist, which takes
more connections than descriptors or three of each with the `Other` owner; two
pools are needed for one to hold what the other frees; two descriptors in one
batch for an event to wait while another is handled. `MaxEvents = 2` stands for
64. Two `Pieces` let an event find a request incomplete, complete, or nothing at
all. Two pools and two runs make pools of an earlier run meet a later one. Three
tasks and two workers let a notification meet no waiter, one, or two. `ReadSize
= 28` stands for 4096: the requests of `Fitting` are read by one `recv` if they
have arrived, `Long` needs two. `MaxEnds = 2` bounds the shutdowns and resets of
`deliver`: one for each of two connections, or both for one. `SizeMod = 1000` stands for 2^64. Two
registrations are the least that make order and growth of the table matter;
`addGroup` and `addResource` append two and five routes, so the table grows to
seven and moves in memory four times. `exchange` has one pool's thread because
threads only read the table and do not see each other. Three threads are the
least for one to change the level while two log, and three levels for a message
to be let through by one change and held back by the next.

`CHECK_DEADLOCK FALSE` stands where the system may really stop: threads that
wait for each other in `life_race`, `life_early`, `life_handler`, `life_accept`
and `life_lost_stop` (a signal handler that interrupts `start_all` waits for
main's own mutex), likewise in `log_signal`; nothing left to do in `deliver`, a
closed connection in the `stream_*` runs, a finished URL in the `url_*` runs.

### Fairness

* `Connections`: weak fairness of the accept thread once it has a connection
  (`Distribute`) and of each pool's thread once it has a batch (`HandleEvent`).
  Neither blocks in the code except on the map's mutex, which its holder
  releases. `Accept` and `Poll` get none: a peer need not connect or send.
* `Delivery`: the same, and `epoll_wait` returns when there is an edge to report
  (`PollEdges` is enabled only then). Peers get none.
* `Lifecycle`: weak fairness of every thread that can go on, and strong fairness
  of `RunReturns`, because signals may suspend main again and again and it still
  gets to look at `_running` in between. Nobody has to call `run` or `stop`.
* `RequestStream`: weak fairness of the server, none of the peer.
* `ThreadPool`: weak fairness of workers, of a pending `notify_one` and of a
  destructor that has begun; a task that runs returns.
* `ConnectionService` and `TaskService` state their own, which the fair
  specifications of `Connections` and `ThreadPool` implement. `Exchange`, `URL` and
  `Logger` have none and no liveness is claimed of them.

## 4. The theorems

Every theorem holds for all values of the constants that the modules' named
assumptions allow; a further hypothesis is part of its statement.

### Connections

| Theorem (`DeliveryProofs`) | Says |
|---|---|
| `TypeCorrect` | `Spec => []TypeOK`; needs no assumption about epoll_ctl. The round-robin index stays below the number of pools by `RoundRobinWraps`. |
| `OwnershipHolds` | `Spec => []Ownership`, if `~ AddFdMayFail` |
| `HandOverIsSafe` | `Spec => [](ClientPointerValid /\ OwnSocketIO /\ NoOrphan /\ OnlyActiveClients)`, likewise; no run checks the first three, which `Ownership` contains |
| `ForeignDescriptorsSafe`, `DeregisteredBeforeClose` | `Spec => NoForeignClose` and `MonitoredStaysOpen`, likewise |

`ClientPointerValid` and its companions are not inductive: whether the pointer a
thread holds is valid depends on who may touch its slot, which depends on who
holds the descriptor's number. `Ownership` says it for all of them at once and
is inductive together with `TypeOK`. Its parts:

* `AcceptOwns`: what the accept thread distributes is open, monitored by nobody
  and, before `addClient`, in nobody's map;
* `SlotOwns`: a `Client` in a map has the open descriptor it was made for, in no
  other map, monitored except on its way in and out;
* `MonitoredHasClient`: a monitored descriptor has a `Client` in the same pool;
* `LoopOwns`: what a pool's thread works on is its own; between unlinking the
  `Client` and `::close`, no map and no epoll instance knows the descriptor;
* `BatchFresh`: waiting events are about monitored descriptors, each once, none
  about the one being handled;
* `NothingLost`: an open connection is in somebody's hands or monitored.

There is one lemma per action (`AcceptKeepsOwnership`, ...), with a step for each
part the action can disturb, and `QuietKeepsNothingLost` for actions that leave
descriptors, interest and hands alone. `OwnershipProtects` draws the state
properties from the invariant; the two action properties use it before the step.
With epoll_ctl failing `Ownership` is false, as `conn_leak.cfg` shows.

`ConnectionsAreServed`: `Spec => RefinesService`, whatever epoll_ctl does. The service's
`phase` and `home` of a connection are read off the descriptor table, the accept
thread and the maps (`PhaseOf`, `HomeOf`); four actions are steps of the service, all
others stutter. When epoll_ctl fails, the catch block closes a descriptor whose
`Client` stays in the map, so the invariant behind it, `Custody` (`CustodyHolds`), says
less than `Ownership`: a connection is open under one number (`Unique`); the accept
thread's descriptor is open until it is closed here or by `~Client` (`AcceptHas`);
what epoll monitors is open (`MonitoredIsOpen`); the `Client` in a slot was made for a
connection that was accepted under this number and is open there or nowhere
(`SlotHas`); a thread works for the `Client` of its slot, or for a connection that is
closed (`LoopHas`). TLC had found it true of 2 323 states with one pool and four
connections and of 1 167 with two pools and three before it was proved.

`DeliveryIsConnections` says that `Delivery` only restricts
`Connections`: no descriptor belongs to the rest of the process. Then a failing
epoll_ctl does less harm, and `Possession` is inductive whether it fails or not: a
stale `Client` may lie in a slot, but what is monitored or worked on has its own
`Client`, in one pool, in one thread's hands (`AcceptHolds`, `MonitoredIsHeld`,
`LoopHolds`, `BatchFresh`, `NothingLost`). `HandOverSurvivesFailures` and
`DeregisteredAfterFailures` follow. On top of it `ByteInv` is inductive: bytes go into
the buffer of the connection they came on, a waiting event still finds something to
do, a thread that responds has received the whole request, and no edge is lost.
`NoEdgeIsLost`, `PeersGetTheirOwnAnswer` and `NobodyIsDropped` (`EveryByteHasAnEvent`,
`OwnAnswer`, `OnlyServedCloses`) follow without a hypothesis, so for what `deliver`
checks.

`OnlyServedCloses` lets a connection be closed that the accept thread refused, so
`RefusalsHaveACause` (`RefusalsAreCaused`) says which it may refuse. One failing
epoll_ctl can cost more connections than its own: the `Client` it leaves behind closes
the descriptor of the next connection with that number, for which epoll_ctl then
fails, and so on until a number is not reused. The theorem says that this is the
only way: a connection is refused because there is no pool, epoll_ctl failed for it,
or the `Client` in its slot is that of one refused before, the chain begins with one
of the first kinds, and no pool monitors a connection that is refused. `RefusalInv`
is its invariant: what the accept thread is about to close has its cause
(`CauseKnown`), and a `Client` in a slot whose connection is closed is a refused
one's (`StaleIsRefused`).

### RequestStream

`OnlyUnfinishedPeersAreDropped` and `NoByteIsStranded` (`RequestStreamProofs`) hold for
every set of requests and both Pollers. The invariant bounds the counters, says
that a thread in `read` has bytes, an end or a reset before it, and that on epoll an
edge stands for every byte that was not read. `NoByteIsStranded` assumes
`OneReadSuffices`, that on epoll every text fits into one `recv`: without it the
property is false (`stream_long`). That a text put together by `FlattenSeq` has a
length at all is an induction over a fold (`StreamsAreText`).

`WholeRequestsAreAnswered` is `Spec => []AnswersWholeRequest`, if `RequestsAreWellFormed`: a
request's words hold none of the characters the code looks for, a body has a
`Content-Length:` in this spelling with the numeral of its length, and no header
before it is called so. `MCRequestStream` assumes that of its constants, so TLC
evaluates it; `stream_lowercase` shows what becomes of a request that spells it
differently. The proof follows `is_request_ready`: the first CRLF CRLF is the one
behind the head (`FindFinds`), a prefix of the text that has it has the head
(`FindInPrefix`), the value found there is the length that was declared
(`ValueStands`, `LengthIsDeclared`), so what is ready is whole (`ReadyIsWhole`).

`HandlersGetWhatWasSent` (`Spec => []HandlerGetsWhatWasSent`, if `RequestsArePlain`) and
`RepliesAreReadAsMeant` (`Spec => []ReplyIsTheResponse`, if `ResponsesArePlain`) are about
the same code, `ParseRequest`, on two texts. Plain is what HTTP's grammar asks for, and
nothing of it is about bodies: no word of the start line is empty or white space, no name of a header
has a colon or a line feed in it, no value has CR or LF, a header without the space has a
name and no `: ` in its value (it would be cut there), and the text is shorter than
`SizeMod`, as that of a `std::string` is. The code enforces it neither on peers nor on handlers: for
others the theorems say nothing. `MCRequestStream` assumes it of its
constants. `WellFormed` is not needed: what is parsed is what was received when the
request was whole.

A message is a start line, header lines, an empty line and a body, so one argument
serves both (`MessageIsParsed`). `FlattenLayout` says where each piece stands in what
`FlattenSeq` joins, `PieceOf` which piece a position is in. The lines `Lines` finds are then
the header lines (`LinesAreRuled`, `PiecesAreLines`), each is cut at its first colon
(`HeaderIsCut`, `KthLineIsRead`), and of two with one name the later is kept
(`LastValueCounts`). The first line feed of the text ends the start line and the first CRLF
CRLF the head (`StartLineEnds`, `HeadEnds`). Without header lines these are one
place, the count wraps around, and what `parseFromRaw` is given begins with the empty
line (`RawHeadersAre`, `NothingIsRead`). For a response `SetToSeq` lists each key once
(`KeysInOrder`), so that the order of the map does not matter. `AnswersAResponse` is the
invariant: what was prepared is a response of a handler behind `Closing`.

A header written `name:value` is dropped by `parseFromRaw`, which looks for `: `
(Headers.cpp:66), although HTTP allows that form. `HandlerGetsWhatWasSent` says what the
code does then: the handler does not see that header, and sees all else as it was
sent, an earlier header of the same name included (`BareLineReads`, `LastOfFields`).

### Router and Exchange

`AnswersStand` (`ExchangeProofs`): `Spec => AnswersAreFinal`. Registration only appends
(`TableGrows`), and the first deciding route of a longer table is the old one
(`AppendedComesLast` by way of `LeastIndex`, which takes the least element of a set of
numbers from the well-foundedness of `<`). `FirstRouteIsFound`: `Spec =>
[]SearchFindsFirst`; `SearchInv` says that the routes a loop has passed do not decide
its request and that its `end` is no longer than the table. `EveryRequestHasOneResponse`
and `MiddlewareComesFirst` (`OneResponse`, `MiddlewareFirst`): `ResponseInv` says that nothing
is in the client's buffer before a request is done and that what has run is the
beginning of its route's chain; `CaughtIsAnswered` is the catch block, `RoutesHaveMiddleware`
follows the middleware through groups and resources. All hold whatever `Try`
answers, and so whatever a pattern or a regular expression matches.

What does depend on the matching is proved for a table that is filled by the
registrations of the code, if `GroupsAreRooted` (the patterns of a group's routes
are empty or begin with a slash, so that they do not run into the prefix) and `HandlersAreOwn` (no two registrations share a handler, so that the
handler tells the route); `MCExchange` assumes both of its constants.
`HandlersSeeTheirPath` (`HandlerSeesParams`): the parameters a handler reads are the
segments of its own path; no earlier route that failed to match leaves one behind.
`GroupsNest` (`GroupsAreNested`): a group's routes answer the prefix followed by their
own path. `ResourcesAreServed` (`ResourcesAnswer`): every path whose segments are the
resource's, or those and one more, whatever that is and however its slashes are
doubled, is answered for the methods of the collection or of a member; if the
resource's own route answers, the handler finds the last segment under `id`
(`IdSplits`, `MemberMatches`). The first
parts of the module have what they need of `splitPath`: `SplitPath` is a fold, and an induction on the path shows
that it cuts at every slash and keeps the segments between (`IsSplitOf`), so that the
split of a prefix with a path behind it is the one split behind the other.

### URL

`MembersHoldTheComponents` (`Spec => []ComponentsAreFound`) and `MalformedUrlsThrow`
(`Spec => []ThrowsOnMalformed`), in `URLProofs`, hold for every set of URLs of any length, if
`InputsArePlain`: what separates one part from the next is in none before it, a colon is in
a host only between brackets, every field of the query has a key, and no port is 0
(`url_port_zero` shows what becomes of that one). `MCURL` assumes it of its constants. Both
properties are only about URLs whose first `://` is the one behind the scheme:
`url_target` shows the others.

`Stage` says what a helper may rely on: the working string is the text of the parts that
have not been cut off, and the members hold those that have. Each helper has a lemma that
takes one stage to the next (`SchemeStep`, `FragmentStep`, `QueryStep`, `AuthorityStep`).
They rest on where the first or last separator of a text put together from parts is
(`Cut`, `SchemeIsFound`, `LastColon`); on the fields of a query, which `QueryIsCut` finds where
`QueryText` put them and of which the last with a key counts (`QueryMapReads`); and on
`MalformedIs`, by which `HostAndPort` accepts what `Malformed` does not reject.

The text `toString` gives is again one put together from parts, `Second` (`TextAgain`):
the scheme in lower case, the port in decimal or left out, the fields of the map
in some order. `SecondIsWellMade`, `UnambiguousAgain` and `ObjectAgain` say that they can be
parsed by the same four steps, and to the same object; for the port that takes
`DecimalCounts`, that the digits of a number of 16 bits read as that number. The invariant
`IInv` is `Stage` of the first parts, or of the second ones of a URL that was not malformed.

### Lifecycle

`LifeInv` in `LifecycleProofs` is inductive without hypotheses: types, who owns the
`PoolManager`'s mutex, that a thread without a joinable handle does not run, and
what the destructors have already joined. `DestroyedIsQuiet` follows. The others
need hypotheses because the code needs them:

* `OneStopAtATime` (`OneStop`) assumes `MaxRuns <= 1`: with a second run, `_running` is
  true again while a slow stop of the first may still be at work.
* `NothingTerminates`, `StopIsComplete`, `AcceptedIsServed` (`NoTerminate`, `StopShutsDown`,
  `PoolsOutliveAccept`) assume `SignalStops`: only main's signal handler calls stop,
  once the loops run. `life_early`, `life_handler` and `life_lost_stop` show what happens
  otherwise. `SequenceInv` then describes which threads are up at each place of
  main and of the handler on top of it.

### ThreadPool and Logger

`ThreadPoolProofs`, for all workers, callers and tasks: `EachTaskOnce` (the queue is a
sequence without duplicates, disjoint from what runs and what is done),
`WakeupsSuffice` (`NoLostWakeup` counts the workers that are awake or about to be
notified and is inductive with the types), `StopIsSeen` (after `notify_all` nobody
sleeps, a worker that has ended leaves an empty queue) and `PoolIsService`, the
refinement of `TaskService`, which needs a worker: `pool_no_workers.cfg` fails it.

`LoggerProofs`: `MaskAgrees` and `SyslogAgrees` from `LevelInv`, mutual exclusion of the
critical sections and the one place where the mask may lag behind the level.

### Only model-checked

Every safety property that a passing run checks is a theorem. What is left is liveness,
which is out of the provers' reach: `RefinesFairService` of `Connections` and of `ThreadPool`
(their safety halves are `ConnectionsAreServed` and `PoolIsService`), `SentIsAnswered`,
`StopReturns`, `DestroyEnds`, `DestructorReturns`, `CompleteIsAnswered` and `ShutdownCloses`.

## 5. What is not modelled

* `Poller::modify_fd` (never called), the creation of an epoll or kqueue
  descriptor, a failing `epoll_wait` (logged, then polled again).
* The move operations of `Listener`, `Poller` and `Client`, and `Client::_state`: unused.
  `Buffer`'s mutex: a `Client` is used by one thread.
* A handler that returns a null response (a route without a handler is modelled), middleware that takes the request
  away, exceptions not derived from `std::exception`, a task of `ThreadPool` that
  throws: each ends the process.
* What a peer's kernel does with a response when a reset follows it.
* kqueue in `Connections` and `Delivery`: those are about epoll; `RequestStream` has
  both, and the sharing of descriptors does not depend on the Poller.
* What `std::regex` matches (a constant of `Router`), reason texts, the characters
  of words, the values' getters, socket options.
* `Logger`'s facility, options and text, and levels that are none.

## 6. Where code and documentation disagree

Each configuration violates the one property it checks.

| Configuration (module) | Property | The text | The code |
|---|---|---|---|
| `conn_leak` (`MCConnections`) | `OnlyActiveClients` | ConnectionPool.hpp:12, "active client connections" | `addFD` throws after the `Client` was stored; the descriptor is closed, the `Client` stays |
| `life_lost_stop` (`Lifecycle`) | `StopReturns` | EventLoop.hpp:62,70, Pool.hpp:65 | `run` overwrites a stop that came before it |
| `stream_long` (`MCRequestStream`) | `CompleteIsAnswered` | Pool.cpp:72,101 | one `recv` per edge strands the rest |
| `stream_partial` (`MCRequestStream`) | `ResponseSentWhole` | Client.cpp:67 | a short send truncates |
| `stream_sigpipe` (`MCRequestStream`) | `SendErrorOnlyCloses` | Pool.cpp:88 | a send to a peer that has reset ends the process |
| `stream_kqueue` (`MCRequestStream`) | `HalfCloseIsServed` | Poller.hpp:46, one abstraction over both | on kqueue a shutdown behind a request drops the request |
| `stream_lowercase` (`MCRequestStream`) | `AnswersWholeRequest` | Pool.hpp:34 | only `Content-Length:` in this spelling counts |
| `life_run_returns` (`Lifecycle`) | `RunBlocksUntilStopped` | Application.cpp:50 | `run` returns when stop begins |
| `life_bind` (`Lifecycle`) | `IsRunningIsTrue` | Server.hpp:74 | a failing `bind` leaves `_running` set |
| `life_threads` (`Lifecycle`) | `ThreadsAsAsked` | Server.hpp:58 | a second run doubles the pools |
| `life_early`, `life_handler` (`Lifecycle`) | `StopShutsDown` | Server.hpp:67 | a stop during start, or in a handler, leaves threads |
| `life_accept` (`Lifecycle`) | `NoAcceptOnClosed` | Server.hpp:67 | accept is called on a number that was closed |
| `pool_no_workers` (`ThreadPool`) | `RefinesFairService` | ThreadPool.hpp:57 | a pool of 0 threads takes tasks and drops them |
| `log_ident` (`Logger`) | `IdentExists` | Logger.hpp:25 | syslog keeps a pointer into a string that is gone |
| `log_two_apps` (`Logger`) | `OpenWhileRunning` | Application.cpp:42 | the first Application that stops closes the logger of all |
| `log_signal` (`Logger`) | `HandlerGoesOn` | main.cpp:13 | a signal handler waits for a mutex its own thread holds |
| `url_target` (`MCURL`) | `PathOnlyHasPath` | URL.cpp:51 | `://` in the query makes an absolute URL |
| `url_port_zero` (`MCURL`) | `ComponentsAreFound` | URL.hpp:98 | the text of a URL with port 0 has none |
| `route_race` (`MCExchange`) | `NoStaleIteration` | ARCHITECTURE.md:189 | `Router` has no mutex |
| `route_wildcard` (`MCExchange`) | `WildcardsMatch` | README.md:45 | `*` is compared literally |

## 7. Plan

What is left, most important first:

1. kqueue in `Delivery`, with `EV_EOF` behind unread data.
2. Several connections with the text of `Message`, on the descriptors of `Delivery`.
