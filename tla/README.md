# Formal verification of uav_router

TLA+ models of [uav_router](../src), a single-threaded C++ program that receives data on network and serial
endpoints, recognises packets in it and passes it on to other endpoints. TLC checks the models on small instances;
TLAPS proves all properties but the liveness ones for every value of the constants. Paths below are relative to the root of the
repository; `src/src` is the endpoint and event-loop library, `src/app` the router program built on it.

## 1. Inventory

Everything runs in callbacks of one `epoll` loop, in one thread. What makes the code hard is therefore not
preemption but *order*: several bits of one event, several events of one batch, a timer, a resolver answer or an Avahi
callback that comes between two events of a connection, and objects whose lifetime ends inside a callback.

| Component | Source | State | Operations | Correct when |
|---|---|---|---|---|
| TCP client | `src/src/impl/tcpcli.h` | address list and iterator, socket, weak reference to its stream, timer, resolver, Avahi group, name of the peer's service | `init`, `init_service`, `connect`, `connect_to_peer_retry`, the five `epollXXX` bits, service and group callbacks | it always has a next callback; the iterator is not used at `end()`; it comes back to a connection; nobody but the peer tears down a live one |
| Recognizers | `src/src/filters/{mavlink1,ubx,rtcm3,nmea}.h` | state of the framing automaton, a packet buffer | `write` (which calls itself on rejected bytes) | a stream is split between `next` and `rest` with no byte lost, doubled or reordered; `next` gets packets only |
| Router | `src/app/uav-router.cpp` | `Destination`s with weak references to streams, `client_entries` which own the streams, routes | `construct_routes`, `register_write_end`, callbacks on connect, read and close | data goes exactly where the routes say; nothing destroyed is used |
| Event loop | `src/src/{loop.cpp,ioloop.h,loop.h}`, `src/src/impl/epoll.h` | `_iowatches`, the batch returned by `epoll_wait` | `poll`, dispatch, `cleanup` | no event reaches an object that is gone |
| Timer | `src/src/impl/timer.h` | timerfd | `arm_oneshoot`, `arm_periodic`, `stop`, expiry | it fires once per arming |
| Address resolver | `src/src/impl/address.h` | `getaddrinfo_a` request, signalfd, retry timer | `remote`, `local`, `requery`, answer | every query is answered or retried |
| TCP server | `src/src/impl/tcpsvr.h` | listening socket, streams, resolver, timer, Avahi group | `init`, `create`, accept, the bits of a stream, write, group callbacks | it listens or tries again; a stream is ended only when its peer is, its owner told once, and the loop holds no freed stream |
| UDP client, UDP server | `src/src/impl/{udpcli,udpsvr}.h` | socket, streams by peer name, address, registration | `init` in seven modes, read, write, service added or removed, collision | it uses the configured port; reads all that arrives; is called when it may write again |
| UART and udev | `src/src/impl/{uart,udev}.h` | descriptor, retry timer, id of the device, its client | device added or removed, read, write, hang-up, retry | an attached device is opened; its client is told of its end |
| Zeroconf | `src/src/impl/{zeroconf.h,avahi-poll.h}`, `src/src/avahi-cpp.*` | services, their addresses, names, claimed ports, watchers; watches and timeouts | browser and resolver events, look-up, registration | what watchers are told agrees with what a look-up finds and with the network |
| Statistics | `src/src/impl/{stat,statobj,influx}.h`, `src/src/measure.*` | counters, events, pack, queue, timer | count, register, report, send, flush | what is reported last is true; reports go on |
| Packet filter | `src/src/filters/mavlink1.h` (`Mavlink_v1_filter`) | lists of systems and messages, silence periods | `setup_filter`, `write` | it passes what the configuration says |
| Socket addresses | `src/src/sockaddr.cpp` | – | addresses from text, interfaces, broadcast | used by the UDP endpoints |
| Files, errors, logging, YAML, hex formatter, registry of filters | `src/src/impl/{ofile,fd,yaml}.h`, `src/src/{err,log,filters}.*`, `src/src/filters/hex.h` | – | I/O and conversions | not modelled |

Interactions: endpoints register with the loop (`poll()->add`) and are called back through `epollXXX`; timer, resolver
and Zeroconf call the endpoint that owns them; the endpoint hands streams to the router through `on_connect`, and the
router owns them; streams call the router back through `on_read` and `on_close`; the router writes to a chain of
filters, which ends in `Destination`s, which write to streams, which may close in the middle of the write.

Hard behaviours: stale event bits, HUP and RDHUP of one event both handled, a timer against an established connection,
failing system calls on retry paths, list changes under an iterator, nested calls that read from the buffer they write
to, objects destroyed by a callback they are called from, addresses of streams used again. `PROJECT.json` lists these at
their lines ("hazards"), with the properties that watch them, or a note.

## 2. Plan

Order of work: what the program does for its user first (connections come back, streams are not corrupted, data goes
where it is routed), then the pieces underneath.

| Step | Modules | Composes / implements | Status |
|---|---|---|---|
| 1 | `TcpClient` | with its pieces of loop, timer and resolver | done, proved |
| 2 | `Splitter` (abstract), `Recognizer`, `Mavlink1`, `Ubx`, `Rtcm3`, `Recognizers`, `Nmea` | the binary recognizers implement `Splitter` | done; invariants, refinement and what is found proved |
| 3 | `RouteTable`, `Routing` (abstract), `Router` | `Router` implements `Routing` | done, invariants and refinement proved |
| 4 | `IOLoop` | batch of events, lifetime of the objects in it, `cleanup`; every endpoint below extends it | done |
| 5 | `ClientContract` (abstract), `TcpServer`, `SockAddr`, `UdpSocket`, `UdpServer`, `UdpClient`, `Udp` | the streams of the three implement `ClientContract` | done, invariants and refinements proved |
| 6 | `Pollable`, `Resolver`, `AvahiPoll`, `Pollables` | resolvers, timers, Avahi's watches and the signal handler on one loop | done, invariants proved |
| 7 | `Uart`, `Zeroconf` | `Uart` implements `ClientContract` | done, invariants and refinement proved |
| 8 | `MavlinkFilter`, `Influx`, `Statistics` | `Statistics` composes the other two | done, invariants proved |
| 9 | a composition of `Router` and a recognizer | a filter shared by several streams of one endpoint | planned |

Theorems: the invariants of `TcpClient`, `Splitter`, `Recognizers`, `Nmea`, `Router`, `TcpServer`, `Udp`, `Uart`,
`Zeroconf`, `Pollables` and `Statistics`, and that the recognizers implement `Splitter`, `Router` `Routing`, and TCP
server, UDP and UART `ClientContract` (done).

## 3. Modules

### TcpClient

Each callback of `TcpClientImpl` is one action (`InitHost`, `InitService`, `TimerConnect`, `TimerPeer`, `Resolved`,
`SvcResolved`, `SvcRemoved`, `GroupCreated`, `GroupEstablished`, `GroupLost`). An event of the socket takes several
steps, because the code may be overtaken between them: `Poll` fetches the bits from the kernel, `Dispatch` hands the
event to the object, `EpollIN`, `EpollOUT`, `EpollERR`, `EpollHUP`, `EpollRDHUP` handle one bit each, in the order of
`loop.cpp`. Between `Poll` and `Dispatch` handlers of other objects in the same batch run: the timer, the resolver and
Avahi may act on the client, whose event is then handled for another socket.

* `addr` is the iterator `_addr` as an index, `Len(addresses) + 1` is `end()`; using it there sets `crashed`.
* `sock` is the state of the socket behind `_fd`: `bare` has not been connected or added to the epoll set yet.
* `stream` says whether the stream handed out still remembers the number of `_fd`. `create_connection` may get the
  same number again or another one.
* A system call that fails for no reason of the peer is a nondeterministic choice, limited to `MaxFaults` callbacks.
* `canon` keeps whether `canon_peer_name` is empty, a service's name, or that of the service's endpoint, which
  `create_connection` may get from the look-up of the address, and `init_service` from the configuration (a name it knows
  already gives it all the addresses of the service at once, and it connects).
  `svc_resolved` and `svc_removed` compare with names of services, so for the name of an endpoint nothing that Avahi tells
  connects the client: without a socket it is dormant for good, though `readme.md:15` says clients connect by name.
  `WaitsForEndpoint` is that state, the one exception of `NeverDormant` besides failing calls. A client that waits for a
  *service* is no exception: `AvahiCalls` says that the service may still come, or come back.

External: the peer (`Handshake`, `PeerActs`, `NetworkChanges`), Avahi (in which order its callbacks come), the owner of
the stream (`DropStream`). Left out: the bytes of the stream and `is_writeable`.

### Splitter and the recognizers

`Splitter` is the promise of a recognizer: bytes already passed on, bytes kept, and bytes not looked at yet are
together the stream, in this order (`Lossless`); what goes to `next` is a packet with a correct checksum (`OnlyGood`).

After a bad packet the `write` of every recognizer passes on the first byte (`UBX`: two) and calls `write` again with a
pointer *into the array in which packets are assembled*, and this may nest. `Recognizer` keeps that array (`packet`) and
the stack of active calls (`frames`, each with its source, position and length), and says what the four classes have in
common: looking for the start byte, copying up to a size, a good and a bad packet. `Mavlink1`, `Ubx` and `Rtcm3` add the
states and lengths of their protocols. One action is one iteration of the loop of the innermost call. A checksum is the
constant set `Good`; the sizes of header, trailer and array are constants, scaled down in the MC modules. The payload
length is any function of the header that leaves room for the packet in the array: the assumptions hold of the arrays of
263, 65543 and 1029 bytes with lengths of 8, 16 and 10 bits. `Recognizers` is a system that runs one of the three, chosen
by `which`, and has the refinement mapping to `Splitter`: `Pend` is the part of the array in use, `Todo` what the active
calls have still to read, one after the other. `Parse` defines the packets of a stream in one pass over the whole of it,
and `FindsThePackets` compares.

`Nmea` differs: a sentence has no length field, so a sentence that does not fit the array is given up as well
(`NmeaTooLong`), and a byte that should have been a line feed discards the sentence without another look (`NmeaNoLf`).
The line feed that ends a sentence is put into the packet but *not consumed*, so it is taken up again as a byte between
sentences: `Nmea` does not implement `Splitter`, and `OnlyLineFeedsDoubled` says how far it is from it. (Its counters, too,
count that line feed twice, so they exceed the bytes of the stream that `readme.md:38` says they count.) For a
sentence of fewer than `NmeaTail` bytes `valid_checksum` reads in front of the array; what it finds is left open, so both
`NmeaGood` and `NmeaBad` are possible.
`Sentences` is the reference for NMEA; what is no good sentence there costs a `$`, or, if its carriage return has no line
feed, the bytes up to it. For a line that does not fit the array this is the `$` alone, however much of the line had
arrived when the code gave it up.

`MCRecognizers` gives `Recognizers` its constants, `MCNmea` runs the fourth recognizer.

### RouteTable, Routing and Router

`RouteTable` says what a set of routes asks for. `Routing` is the promise: data read from a stream is written to the
connected write ends its routes name and to no others; of two streams with one name, the later has the name.

`Router` is `Destination`, `EndpointStore`, `construct_routes` and the callbacks of `setup_endpoint`, with objects at
addresses: `heap` holds the stream at each address, `entries` is `client_entries` (the only owner of streams), `dests`
the weak pointers of each `Destination` *keyed by address*, so that a new stream at the address of an earlier one meets
its expired reference. `Connect`, `Close` and `Read` are the three callbacks. `Read` refers to the map entry that was
there when the stream connected, writes through all chained destinations, prunes expired references, and closes streams
whose peers turn out to be gone while it writes. Use of a destroyed object sets `undefined`, after which nothing
happens.

Assumed of the configuration, and named in the module: `NoShadow`, no route delivers to a plain name that a regular
expression some route delivers to matches. With such a pair `EndpointStore` connects the two destinations, and data for
the name goes to all that the expression matches (a hazard in `PROJECT.json`). Abstracted: the filters on a
route, which choose bytes but not receivers. External: `weak_ptr` and `shared_ptr`, by what they do.

### IOLoop and ClientContract

`IOLoop` is `IOLoopImpl::run` with `Poll`: `poll.set` is the interest set of the kernel, `poll.listed` how often an object
is in `_iowatches`, `batch` what `epoll_wait` returned, with raw pointers, and `event` the bits of the object being
called. An object leaves the set when its descriptor is closed, the list only through `Poll::del`, which does nothing
for a descriptor that is not in the set. `Wait` takes any ready objects, `Dispatch` sets `loop` to `undefined` if the
object was freed meanwhile; `Current` and `Handled` give the bits in the order of the code, `Stopped` is a handler that
returns `STOP`; `LeaveLoop` is the `cleanup` of every object in the list. An endpoint extends the module and says which
bits are ready.

`ClientContract` is the promise of `inc/endpoints.h` to the owner of a stream: announced once, read only while open,
told of the close at most once and never called afterwards. The property `KeepsContract` of three runs is its refinement.

### TcpServer

The server and its streams are objects of one loop. `conn` is a stream with its connection, `rx` whether its data were
read, `room` the stream's own `_is_writeable`, `lsock`, `timer`, `resolv` and `group` the ways of the server to
be called again. `InitAddress`, `InitName`, `Resolved`, `Create` make the socket; `Accept` is `epollIN`, with a namesake
replaced by the owner; `StreamIN`, `StreamOUT`, `StreamERR`, `StreamHUP` are the bits of a stream; `OwnerWrites` may come
from any handler, and a broken connection is closed in it. Met while modelling, and in the model:
after the data of a burst have been read, `FIONREAD` is 0 and a living connection is closed (`HangsUpOnlyAfterData`
says that this is the only way); the resolver's callback takes the wildcard address for one address and the
first for several; a failing group is destroyed inside its own callback; a group of which Avahi cannot say whether it is
empty calls neither `on_create` nor `on_failure` (`avahi-cpp.cpp:290`), and the server waits for ever (`UnaskedGroup`, an
exception of `NeverDormant`).

### SockAddr, UdpSocket, UdpServer, UdpClient, Udp

`SockAddr` computes addresses from small sets of texts and interfaces. `UdpSocket` is what the two endpoints share: the
socket, `queue`, the edge-triggered `edge`, `entry` (`_streams`, weak pointers by name), `life`, `told` and `got` of the
streams, `mute`, why a stream may not write. `UdpServer` and `UdpClient` add where they bind and send to and how they
register a service. `Udp` composes them and states their properties; an endpoint is one or the other for a whole
behaviour.

Facts of the code the properties make exceptions for: a datagram without payload looks like an empty queue to
`FIONREAD`, stays at its head and blocks it; broadcasting by interface loses the port; `init_broadcast` and
`init_multicast` test the text of the interface the wrong way round; `SockAddrList::interface` is always empty, as it
skips both `AF_INET` and `AF_INET6`; the local address gives only a family; an IPv6 server address always fails,
the socket being `AF_INET`; a server whose registration fails while Avahi is down is not tried again; a client does not
follow a service that moves; a text that is no address returns whatever `errno` was left, and so does an unknown interface.
The port the kernel gives to a socket bound without one is chosen from `GivenPort` anew at every bind. A client takes the
services that appear on its interface only. `PortAsConfigured` compares ports and claims nothing about interface or
destination, which those errors reach. A registration that Avahi takes up later, when its client comes up (`client_create`),
is left out, so `NeverDeaf` makes an exception of a server registered while Avahi is down.

### Uart

The device and the udev monitor are two objects of the loop. `path` says which way the device is configured, `fd` is
`hung` once the device is pulled, `msgs` are udev's messages not yet received, `timer` is the 5 s retry. Every callback
is an action, and `Plug`, `Unplug`, `Change` and `DataArrives` are the kernel. Three variables remember how the code leaves
what it should be doing. `orphan` are the clients without a device of their own: a handler of the batch closed the descriptor
while an event of it was waiting (`stale`), whose `IN` or `OUT` bit then makes a client on descriptor -1 (a device unplugged
and plugged before the start needs no more: the late `remove` closes what the start has opened), or
`init_uart` closed an open descriptor without a word and could not open it again. `changed`: udev told of a `change`, which
`udev.h:74` takes for a removal and after which no `add` comes (`readme.md:9` promises that an attached device is opened).

### Zeroconf

`air` is what the network announces, `msgs` the ordered messages of the daemon, `asking` its resolvers at work. The
tables are those of `ServiceListener`: `service`, `names`, `aliases`, `ports`; `known` is what watchers were told and
`doing` a handler between its tables and its watchers, in the order of the code, which is tables first for a new service,
and watchers first for a removed one. A record is a service *on an interface*: the removal of one interface erases
the service. `broken` marks services for which the code has no way to learn the truth: a resolver that failed is not
asked again, neither is one that could not be made, one that answers after the removal is believed, one interface of
several went. `LooksUpWhatItTells` asks that
the names and addresses of a service lead back to it only if the service is `Distinct`: of two services with an address or
a name in common (also an endpoint's name that is another service's) the later one takes the entry, and the removal of
either erases it. A failure of the Avahi client is told to nobody, since `AvahiGroupImpl::queries` is never filled.

### Pollable, Resolver, AvahiPoll and Pollables

These four follow the *numbers* of descriptors, which the endpoints leave out: `fd` is what an object remembers, `owner`
who opened the number, and a closed number is given out again. `Resolver` is `AddrInfo` with the one SIGUSR1 of the
process (`pending`), `ret` and `result` of its request (which the constructor leaves as the memory has it: null or
`unset`, so that a first lookup without a result may free any pointer), `unheard` a lookup that ended without its resolver having read a
signal. `AvahiPoll` is Avahi's poll API, whose objects Avahi frees when it likes. `stale` marks the branch of
`AddrInfo::init` that closes a descriptor and keeps its number, after which another object's descriptor may be closed. A
second watch of one connection is refused by the kernel and not noticed; `timeout_update(NULL)` does not disable the
timer.

### MavlinkFilter, Influx and Statistics

`MavlinkFilter` is `setup_filter` and `passed`. A list under `deny` replaces the one under `allow`; a list of messages
sets `allow_sys`, and what is found among the messages is compared with the end of the *other* set, so a list of
messages rejects everything: `DoesWhatItSays` claims the rest. (The class is in no registry of `filters.cpp:11`, though
`readme.md:22` lists it.) `Influx` is the stream of metrics, each a function from its fields to values: `pack` has
metrics and line feeds in their order, which together are its size, and `queue` is a number of strings. While the
pack is full, a metric goes to the pack without its line feed (`influx.h:32`), and an empty string to the queue. `Flush` turns
the queue into line feeds only. A metric that no line feed separates from its neighbours is none that a reader gets, so
`LastMetricIsTrue` asks for the last one `OnALine`; it holds until a metric finds the pack full or a sink takes a part of it
(`spoilt`); from then on metrics are glued to one another, although `readme.md:42` promises the line protocol.

The sink is one of four. A file takes all. A UDP client takes a pack or refuses it, for lack of room, after which its
`EPOLLOUT` calls `flush`, or with another error (`room` is `error`), after which only another event of the socket does. The
streams of TCP client and server, the UART and a `Destination` of the router take a part as well, and never call back:
none of them calls `writeable()` a second time, and there the pack grows without end. `KeepsReporting` says that a
registered object has a running timer, and that a full pack is never left with a UDP client that takes data and has no
callback due; what the others do is what it cannot claim. `Statistics` is one period of `StatHandlerImpl` with two
objects, counters and events. The specification of the three is `StatSpec`.

## 4. Runs

| Run | Asks | Shows |
|---|---|---|
| `tcp_client` | without Zeroconf: is the client ever dormant, does it use `end()`, does it drop its only connection, does it come back | All hold. `Reconnects`: once all peers stay reachable, the client is connected again and again, unless a timer or a query could not be started at all (`GaveUp`), which the code does not retry |
| `tcp_client_service` | the same safety with Zeroconf | Holds, with two exceptions: a client that waits for an endpoint (`WaitsForEndpoint`), and the one `NoEndDereference` names, a service removed during the 500 ms between registration and connect leaves an empty list, and the timer dereferences its `end()` |
| `tcp_client_told` | is the stream told of a close, as the comment in `inc/endpoints.h:18` says of `TCP_CLI` | No: `epollHUP`/`epollRDHUP` close the socket and call nobody; a counterexample is expected |
| `recognizers` | Mavlink v1, UBX and RTCM3: every stream of up to 7 bytes, cut into writes in every way | each implements `Splitter`, never overwrites unread bytes, finds exactly the packets `Parse` finds, and every `write` returns |
| `nmea` | the same for NMEA | no byte is lost and none but line feeds doubled; the sentences are those `Sentences` defines, but for ones too short to have a checksum |
| `router` | all tables of at most two of ten routes (51 tables), streams connecting, being replaced, closing and breaking | every delivery goes where `Routing` says; streams and entries own each other one to one; destroyed objects are used only if routes lead from a stream to itself (`SafeUnlessEcho`); data is doubled only for a write end the routes name twice (`TwiceOnlyIfNamedTwice`) |
| `tcp_server` | does the loop ever hold a freed stream, does the server go dormant, whom does it hang up on | a freed stream stays in the list only if a namesake replaced it, and in the batch if another handler's write broke it; the server listens or will be called, but for a service Avahi refuses or a group of which it does not say whether it is empty; a peer that is there is hung up on only after its data; `ClientContract` is kept |
| `udp` | 13 server and 10 client configurations: do they read what arrives, hear their peers, write when there is room, use the configured port | yes, with the exceptions named at `UdpSocket` above; `ClientContract` is kept |
| `uart` | is an attached device opened, and its client told when it goes | `AttachedIsOpened` is a liveness property: whoever notices the device, it is opened, but for a `change`, a timer that could not be armed, or a device that could not be put into the loop; only an `orphan` has no device; `ClientContract` is kept |
| `zeroconf` | do tables, watchers and look-ups agree with the network | when nothing is under way they do, but for services in `broken`; a watcher finds what it is told of; what stays announced becomes known (`EventuallyKnown`) |
| `pollables` | do descriptors leak, or belong to two objects; is a freed object called; is a query forgotten | each only in the named cases: the stale number, an event already fetched for an object Avahi frees, a second watch of one connection, an `ar_result` freed again or never set, a signal another resolver read |
| `statistics` | do filters pass what the configuration says, is the last metric true, do reports go on | yes, except for lists of messages and systems under both `allow` and `deny`; once the pack was full or taken in part; and for sinks that do not call back |

Bounds, and why they are enough:

* `MaxList` 3 (2 with Zeroconf): the iterator can be before, in and at the end of the list, and skipping one address
  (HUP and RDHUP of one event) differs from going round. Two addresses suffice, for the code only asks whether the
  attempt at the current one succeeds. `MaxFaults` 1: one failing callback reaches every error path; a second one would
  only repeat it. The theorems hold for every `MaxList`, `MaxFaults` and `Addr`.
* `MaxFed` 7 with packets of 3 to 6 bytes in arrays of 4 to 6, and three byte values that are all start bytes of some
  protocol as well as lengths, payload and checksums (four values for NMEA: `$`, CR, LF and another): a packet inside or
  overlapping a rejected one, two packets in a stream, nested rejections and an array that is exactly full all occur. A
  longer packet only repeats the copying of payload bytes.
* Two addresses and four identities of streams: an address is used again while references to its former stream are still
  held. Streams have two names and two endpoints, one of which cannot be written to. Addresses and identities are
  interchangeable, so symmetry is sound for the invariants and the (safety) refinement.
* `tcp_server`: two streams (one may replace, outlive or share a batch with the other), a backlog of 2, one faulty
  handler.
* `udp`: two streams and one name, so a name is used again; a queue of 2, so that a datagram waits behind another. Only
  one configuration of each kind has traffic (`Traffic`): reading and writing do not depend on the address.
* `uart`: three moves of the device (it goes, comes back and changes), one fault, two clients (of a device and the one
  after it).
* `zeroconf`: one service on two interfaces at one address, two services that share an address, four changes: a service
  comes, goes, comes again and another interferes.
* `pollables`: two resolvers (each may read the other's signal), two watches of one connection, eight objects with as
  many numbers, one fault and four calls of clients, Avahi or the kernel.
* `statistics`: two messages and two systems, three configurations (systems allowed, systems denied, messages of both
  kinds), a pack of size one, so that one metric with its line feed exceeds it, a queue of one string, two packets, one stall,
  one event and three shots of the timer (`MaxShots`): the pack is written, refused, full, and flushed with the queue, which
  shrinks.

Deadlock is checked for `tcp_client`. It is switched off where the system may really stop: a client with Zeroconf has
dereferenced `end()`, a recognizer has been fed all of the bounded stream, the router has used a destroyed object; the
loop of an endpoint has ended or used freed memory (`tcp_server`, `udp`, `uart`, `pollables`), all events of the bounded
run have happened (`zeroconf`, `statistics`).

Fairness is assumed of what the program and the kernel do by themselves. `TcpClient`: the loop polls and dispatches,
the bits of a dispatched event are handled, armed timers expire, the resolver answers, the kernel ends connection
attempts; of peers and Avahi nothing is assumed. Recognizers: a call of `write` that
has begun goes on (it is an ordinary loop); that more bytes come is not assumed. `Router` has no
liveness property. `Uart`: the loop goes on while there is something to do, armed timers expire; that devices are
plugged in or that messages come is not assumed. `Zeroconf`: the loop reads the daemon's messages, and the daemon ends
each resolver, as it does after a timeout of its own. Liveness is checked without symmetry.

Every property has a mutant in `PROJECT.json`: a plausible bug in one definition with which TLC finds the property
violated.

## 5. Proofs

`TcpClient_proofs` proves, for any set of addresses, list bound and number of faults, assuming only
`TcpClientAssumption` (the types of the constants):

* `Invariance`: `Spec => []IInv`, and from it `TypeCorrect`, `AlwaysAwake` (`NeverDormant`), `IteratorSafe`
  (`NoEndDereference`) and `SingleAddressIsStable` (`SingleAddressStable`).
* `IInv` is needed because none of these is inductive. That the client is awake after a hang-up depends on the
  iterator: it may be at `end()` only while the list is empty (`IteratorInv`). A socket in the epoll set implies a list
  (`SocketInv`), the states Avahi alone brings about do not occur without it (`PlainInv`), and whatever is not awake
  waits for a service, waits for an endpoint or gave up (`WakeInv`). For one address, a fetched hang-up bit and a running timer exclude a live
  socket (`SingleInv`): this is what forbids a stale event or the 3 s timer to tear down a connection.
* The lemmas `WalkResult`, `WalkSocket`, `ConnectResult` and `RetryResult` say once what `connect` and
  `connect_to_peer_retry` may leave behind; `NextIInv` has a step per action.

`Recognizers_proofs` proves, for any bytes, good packets, sizes and payload lengths (`Mavlink1Assumption`,
`UbxAssumption`, `Rtcm3Assumption`: a packet is longer than its header, the array has room for every packet a header can
announce, and the two start bytes of UBX differ), and streams of any length:

* `SplitterIsLossless`: type correctness, `Lossless` and `OnlyGood` hold in every behaviour of `Splitter`.
* `Invariance`: `Spec => []IInv` of `Recognizers`, and from it `TypeCorrect` (`TypeOK`) and `ReadsAheadAlways`
  (`ReadsAhead`). In `IInv`, `StateInv` keeps `packet_len` below the length of the packet that is being assembled, `Prefix`
  says that passed-on and kept bytes are the beginning of the stream, and `Calls` relates the stack of active calls to it:
  there are positions in the stream at which each call reads on from where the one inside it will end (`ReadOn`), and the
  calls that read the array are ahead of its kept bytes and of each other (`Ahead`). `ReadsAhead` alone is not inductive: that
  a nested call may start at the second byte of a bad packet needs that all outer calls read behind its last.
* The lemmas about `Calls` say what a call may do to the others: read on (`ShorterCalls`), write over bytes it has read
  (`OverwriteCalls`), call itself on bytes in front of them (`NestedCalls`). `KeepStep`, `FoundStep`, `GoodStep` and
  `BadStep` are then the actions of `Recognizer`, once for all protocols.
* `RecognizersImplementSplitter`: `Spec => ImplementsSplitter`. `View` says that `out`, `Pend` and `Todo` are three adjoining
  parts of the stream, so that a step is described by two numbers (`Advances`, `Delivers`, `Rejects`). `Todo` is a
  concatenation of as many pieces as there are active calls, and `FlattenParts` computes it: the folding function exists, and
  it agrees with the parts up to the least piece at which it does not (`LeastNumber`, `UpTo`).
* `RecognizersAreLossless`: `Lossless` and `OnlyGood` of the recognizers, under the same mapping.
* `PacketsAreFound` (`FindsThePackets`): what goes to `next` are the packets `Parse` defines. `FindsThePackets` speaks of
  quiet states only; what is inductive speaks of the future. `FoundInv`: *however the stream goes on*, its packets are those
  passed on and those of what is not yet passed on. A step that keeps a byte changes neither part; passing on a byte with
  which no packet starts, or a whole good packet, is one step of `Parse` whatever follows. `BegunInv` says that the kept
  bytes begin like a packet, which is where UBX, which passes on both its start bytes, needs them to differ.
* `WriteGetsOn`: every iteration passes on a byte or keeps one more, however often rejected bytes are read again
  (`GetsOn`). As out and kept bytes together are no more than the stream, this is why `write` returns; that it does is
  `WriteReturns`, which TLC checks.

For NMEA the same module proves, for any bytes, good sentences, tail and array of more than two bytes, assuming that `$`,
CR and LF differ and good sentences are not too short for their checksum (`NmeaAssumption`):

* `NmeaTypeCorrect` (`TypeOK`), `NmeaDoublesLineFeedsOnly` (`OnlyLineFeedsDoubled`) and `SentencesAreFound`
  (`FindsTheSentences`), from `NmeaInvariance`.
* `NmeaState` says that the array holds the beginning of a line, with room for two more bytes, and `NmeaCalls` is the
  invariant of nested calls. `TextInv` and `SentInv` are the two properties for every state and every future of the
  stream. A step leaves the text as it is or doubles a line feed in it (`LfDoubled`), and leaves the sentences of every
  future as they are (`SameFuture`) or finds the next one (`Takes`): `Moved`, proved for each action. That the second look
  at a line feed finds nothing new is `LfTwice`. That the code gives up a line before its carriage return has arrived, and
  `Sentences` knows where the line ends, makes no difference: the line is already longer than the array.

Recursive functions (`Parse`, `Sentences`, `Among`, and `Report` below) are brought into reach without induction over an
operator: a function that solves the equations on sequences up to a length, or up to a round of a loop, exists and is
unique up to the least number at which it does not (`LeastNumber`), hence for all.

`Router_proofs` proves, for any names, patterns, addresses, identities and tables of routes, assuming
`RouteTableAssumption` (the types of patterns) and `RouterAssumption` (names of endpoints, clients and files are names;
no table has a shadowed name; `None` is no stream, entry or identity; streams are not files):

* `Invariance`: `Spec => []IInv`, and from it `TypeCorrect`, `StreamsAreOwned` (`OwnedByItsEntry`), `SafeWithoutEcho`
  (`SafeUnlessEcho`) and `OnceUnlessNamedTwice` (`TwiceOnlyIfNamedTwice`).
* `IInv` adds to those properties: `RoutedAsAsked` (an entry leads to what the routes of its name and its endpoint ask
  for), `References` (exactly the destinations that name a living stream hold a reference to it) and `Identities`. That a
  write destroys its own entry only under echo routes follows from `References`: what it reaches it names. The reverse
  direction, that nothing named is missed, is what the refinement needs. `Construct` is where `NoShadow` is used.
* `RouterImplementsRouting`: `Spec => ImplementsRouting`. `ConnectRefines`, `CloseRefines` and `ReadRefines` map the three
  callbacks to the three actions of `Routing`; `SinksAreReceivers` equates what is written to with what is promised.

The same module proves of the statistics, for any sizes of pack and queue, counters, messages, systems and
configurations, and any number of events, packets and stalls (`InfluxAssumption`, `MavlinkFilterAssumption`,
`StatisticsAssumption`):

* `StatInvariant`, and from it `StatisticsKeepReporting` (`KeepsReporting`), `LastMetricsAreTrue` (`LastMetricIsTrue`) and
  `FilterDoesWhatItSays` (`DoesWhatItSays`).
* `SaysTheCounters` is `LastMetricIsTrue` of pack and sink apart, and `Neat` says that both are made of whole lines until the
  stream is `spoilt`. What one `Send`, `Flush` or report does to what a stream says of
  a counter are lemmas (`Agree`), as is that it waits for its sink if it did (`Wakes`). `SetupIs` says what a chapter of
  the configuration does to a filter.

The endpoints' proofs all have the same shape: `InitIInv`, a lemma per action, `NextIInv`, `Invariance`, and the
properties from `IInv`; then `StepRefines`, which maps every step to one of `ClientContract` or to a stutter, under the
mapping the run `KeepsContract` uses.

`TcpServer_proofs`, for any finite set of streams, backlog and number of faults (`TcpServerAssumption`), with and without
Zeroconf:

* `LoopSafe` (`LoopKnowsItsObjects`), `AlwaysAwake` (`NeverDormant`), `NoHangUpOnLivePeer` (the action property
  `HangsUpOnlyAfterData`) and `StreamsKeepContract` (`KeepsContract`).
* A hang-up on a live peer would come from a stale bit: `BitsInv` says that the bits fetched for an open stream tell the
  truth and that `HUP` is not among them. That the loop forgets a closed stream depends on `Poll::del` finding it in the
  interest set (`SetInv`), and what a stream may be told on who let go of it (`UntoldInv`). Streams are finite because
  the end of the loop closes them one by one.

`Udp_proofs`, for any configuration of server and client, any table of interfaces, any names and clients, assuming that a
server's mode is unicast, broadcast or multicast and that a client of a service has no port of its own
(`UdpServerAssumption`, `UdpClientAssumption`: `init_service` takes no port):

* `LeavesNothing` (`NothingLeftUnread`), `AlwaysHears` (`NeverDeaf`), `WritersWake` (`WritableWhenRoom`),
  `SocketsOnConfiguredPort` (`PortAsConfigured`) and `ClientsKeepContract` (`KeepsContract`).
* The socket is edge-triggered, so that an event is neither lost nor pretended must be said of all its stages: kernel,
  batch, event at hand (`UnreadInv`, `WriteInv`). `HearInv` says who will add a socket that is not in the loop yet.
  `PlaceInv` follows an address through interfaces and registration; `ServerPlace`, `BroadcastPlace` and `MulticastPlace`
  are the lemmas about the address computation of `sockaddr.cpp`, `CreateResult` and `BeginResult` about the helpers.

`Uart_proofs`, for any clients and any number of moves of the device (`UartAssumption`): `NoClientWithoutDevice`
(`ClientHasDevice`) and `ClientsKeepContract`. A client can be made *after* its device went, by the `IN` bit of an event
whose `HUP` bit is still to come; `DeviceInv` says that this bit is then at hand. Without it, the descriptor was closed by
another handler after the event was fetched, and the client is an `orphan`.

`Zeroconf_proofs`, for any services, interfaces, addresses and number of changes (`ZeroconfAssumption`):

* `TablesFollowTheNetwork` (`KnowsTheNetwork`) and `LookUpsAgree` (`LooksUpWhatItTells`).
* Both speak of quiet states; what is inductive speaks of the queue. `ArrivalInv`: of an announced record the queue holds
  news behind every removal, or its resolver or the tables have it. `DepartureInv`: behind everything that could make a
  departed service known there is a removal. `WatcherInv` and `TellInv` say the same of the watchers in the middle of a
  handler, `NamesInv` that names, aliases and addresses agree with the services.

`Pollables_proofs`, for any resolvers, watches, timeouts, numbers, faults and calls, assuming `Kinds` (the kinds of
objects are disjoint, every resolver has its own timer) and that there are finitely many objects:

* `NothingLeaks` (`HoldsItsOwn`), `NothingFreedIsUsed` (`NoFreedObject`) and `NobodyIsForgotten` (`NeverForgotten`).
* `FdInv` relates numbers, owners, interest set and list: `Sound` holds always, `Tidy` until `AddrInfo::init` has kept a
  stale number. `WatchInv` and `BatchInv` follow the objects Avahi frees, `ResultInv` the request of `getaddrinfo_a`, and
  `DrivenInv` who will call a waiting resolver: its signal, its timer, a signal still pending or in the batch. That a
  number is free is a pigeonhole argument with cardinalities; that there is a lowest one, `WFMin`.

Proving changed some of what was stated. The exemption of `LooksUpWhatItTells` was too small for services whose names
collide, `HoldsItsOwn` now also says that an object polls and lists what it holds, and adding a UDP socket to the loop raises
an edge whenever there is something to read or room to write, which the model had for one of the branches only.

For the last theorems `Influx` and `Statistics` were written without recursive operators, the reference definitions moved
from the MC modules to `Recognizers` and `Nmea`, and the distinctness of the start bytes of UBX and of NMEA's delimiters was
added to their assumptions: without the latter a sentence could begin at its own line feed.

Only model-checked: the four liveness properties `Reconnects`, `WriteReturns`, `AttachedIsOpened` and `EventuallyKnown`,
as liveness under fairness is out of the prover's reach. All other properties of the passing runs are theorems. The type
invariants of `TcpServer`, `Udp`, `Uart`, `Zeroconf`, `Pollables`, `Router` and `Statistics` are proved and no longer checked by a run of
their own. The counterexample of `tcp_client_told` is TLC's.

## 6. Not modelled

* For good: formatting, logging, error texts, reading of the YAML configuration, files (`OFileStream` is a write end
  that never closes), the hex formatter and the registry of filters: input and output or conversions with no state that
  interacts with anything else. The parameters of a serial line and the `ioctl`s that set them. The `others` directory
  (experiments and test programs), tests and build files are not part of the router.
* Not yet: the filters shared by the streams of one endpoint (step 9); the bytes of the TCP client's stream;
  durations and several periods of the statistics; look-ups of host names through Avahi.
* Of `Zeroconf`: `AvahiImpl` has four listeners, one per type of service, which do not interact; the model is of one.
* Several endpoints on one loop appear together only in `Router` (as sources of streams) and in `Pollables`; each endpoint
  module has its own loop, in which handlers of others are steps between `Poll` and `Dispatch`.

## 7. Running

    tlc -config MCRouter.cfg MCRouter        # and likewise for the other runs of PROJECT.json
    tlapm TcpClient_proofs.tla               # and likewise for the other modules named *_proofs
