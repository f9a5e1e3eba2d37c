# Verification of go-meshtastic-serial2tcp

The program shares one serial Meshtastic radio between many TCP clients.
Radio apps expect to own the radio: each opens with a *config handshake*
(`WantConfigId` with a nonce, answered by a dump of frames and
`config_complete_id` with that nonce), and each sends packets the firmware
echoes. The **broker** (`internal/broker`) makes several of them live on one
serial link: it caches the dump, rewrites nonces, routes echoes, promotes a new
*primary* when the owner leaves, and disconnects clients that cannot keep up.
This directory holds a TLA+ model of it, the TLC runs that check it, and proofs
checked by TLAPS.

## 1. Inventory

| Component | State | Operations | Interacts through |
|---|---|---|---|
| Broker core, `broker/broker.go` | `clients`, `primary`, each client's `send` channel and `done`; `configCache`; `pendingConfig`; `outboundByPacket`; broker `done` | `Run`, `readSerial` (config, complete, rebooted, packet, glitch, error), `AddClient`, `readLoop`/`handleClientPayload`, `writeLoop`, `removeClient`, `CloseAll`, `bootstrapConfig`, `PublishStatus` | one goroutine for the radio, two per client, mutexes per map, channels |
| Web chat, `broker/chat.go` | none | `SendTextMessage` | HTTP goroutine writing to the radio and broadcasting |
| Canned messages, `broker/canned.go` | waiters by packet id, two-minute cache | `FetchCannedMessages`, `tryDeliverCanned` | HTTP goroutine waiting for `readSerial` with a timeout |
| Supervisor, `server/server.go`, `serial/serial_unix.go` | current broker, rapid-failure count, descriptor of the device | wait for device, open, run a session, close everything, retry; accept loop | `Run`'s result, context, accept error |
| Frame codec, `frame/frame.go` | none | `ReadFrame`, `WriteFrame` | bytes of both sides |
| Web UI hub, `webui/hub.go`, `chat.go`, `nodes.go`, `packet_proto.go`, `observer.go` | event ring, chat log, channels, nodes, status, subscriber channels | `Record`, `RecordChat`, `SetStatus`, `Subscribe`, snapshots | called by broker goroutines; read by SSE handlers |
| HTTP server, `webui/server.go` | none | pages, JSON, SSE | hub |
| Config, serial device, termios, mDNS, main, generated protobuf | configuration, descriptors | start-up and system calls | constants and the external line of the model |

**What is hard.** Any goroutine may run `removeClient` for any client at any
time. The lock is dropped between the registry, `pendingConfig`, the client's
`done` and the status. `handleRebooted` empties `pendingConfig` and refills it
piecemeal. A packet is on the wire before its id is recorded. A cache snapshot
is replayed into the queue that also receives live frames. The radio reboots in
the middle of a dump, a peer stops reading, the line dies during a write. The
hazards, each at its line and with the properties aimed at it, are listed in
`PROJECT.json`.

**What makes each part correct.** The registry always has one owner and no
closed client. A request is answered once, to its owner, completely, and in the
end. The cache is never older than the radio. A packet's reply reaches its
sender. A slow client is disconnected, never skipped. A session's end
disconnects everybody and lets the supervisor go on; the supervisor gives up
exactly after `maxRapidFails` failures in a row and leaves no descriptor behind.
Reading frames is the inverse of writing them, whatever the line does. A canned-message request gets
its own answer or an error, and leaves no waiter. The hub logs a chat
message that has a packet id once, tells a page everything unless its channel is
full or another page's channel is closed under the goroutine that tells, tells
nothing twice, and never holds up the broker.

## 2. Modules

| Module | Contents |
|---|---|
| `Broker` | the broker core, `SendTextMessage`, and the part of the supervisor that accepts connections and ends a session; the properties; `...Mutant` operators are deliberate mistakes used to show that each property can fail |
| `Handshake` | abstract specification: the life of a config request (open, then answered once or dropped); `Broker` refines it |
| `Session` | abstract specification: one session as its callers see it (members, closed connections, `done`, `readSerial`, `Run`); `Broker` and every session of `Sessions` refine it, which is what lets `Sessions` leave out a broker's inside |
| `Sessions` | the supervisor and the accept loop over several sessions, each reduced to its clients, `done`, `readSerial` and `Run`; the canned-message fetch of HTTP handlers; the status shown across sessions |
| `Frame` | `WriteFrame`, `writeSerial` and `ReadFrame` over one serial line, byte by byte |
| `Hub` | the web UI hub: observation of payloads, chat log, packet texts, nodes, subscribers, pages |
| `MCSessions`, `MCHub`, `MCFrame` | symmetry, payloads, noise and starting points for their runs |
| `MCBroker` | event budgets and environments, orders of slots, symmetry of clients and nonces |
| `BrokerTypes` | proof of type correctness, `TypeCorrect` |
| `BrokerRegistry` | proof that the registry is always consistent, `RegistryCorrect` |
| `BrokerSession` | proofs that `Broker` implements `Session`, that the status shown is consistent and that read-only mode is respected |
| `BrokerHandshake` | proofs that no request is answered twice or to another client and, but for one race that a reboot opens, that `pendingConfig` keeps one request per client and none for clients that are gone |
| `BrokerDelivery` | proofs of what reaches a client: the echo of its packets, packets of the mesh without a gap, complete answers, the cached config and nothing older; and that `Broker` implements `Handshake` |
| `SessionsSafety` | proofs of all properties of `Sessions`, the refinement of `Session` included |
| `HubSafety` | proofs of the properties of `Hub`; for `NeverHeldUp`, that a goroutine in the hub always has a step |
| `FrameSafety` | proofs of all properties of `Frame` |

### How `Broker` corresponds to the code

*Goroutines are threads.* `Serial`, `Runner`, `Boot`, `Web`, `Acceptor`,
`Server`, and `Reader(c)`, `Writer(c)` for each connection. `pc[t]` says where
a goroutine is; one action is one lock section, one channel operation or one
device access, so two goroutines interleave wherever the code lets go of a
lock. `removeClient` and `PublishStatus` are called from many places: `call[t]`
is the step goroutine `t` is at inside them (`Unlink`, `DropRemoved`, `Close`,
then `ReadRegistry`, `ReadCache`, `SetStatus`), and its `pc` waits meanwhile.
Locals that survive a step are `frm` (frame being sent), `todo` (clients still
to visit), `req` (config request being served), `old` (requests taken by
`handleRebooted`), `snap` (cache snapshot being replayed).

*Queues.* `out[c]` is every frame `c.send` has accepted and `taken[c]` how many
`writeLoop` has received, so the channel holds `Len(out[c]) - taken[c]` frames;
keeping the history lets properties speak of what a client was sent. A peer
that stops reading is a writer that stays at `flush`.

*Data.* A cached frame is a version number per slot (0 when absent); slots stand
for `my_info`, one config, one channel and so on, replayed in the order `Rank`.
A request id is the client and the number of its message; the broker rewrites
ids and never looks inside. A packet is its sender, a number and a port class:
`chat` (echo suppressed), `rpc`, or `anon` (packet id 0, never recorded).

*Time.* The 30 s life of an outbound entry is the event `OutboundExpires`; the
5 s send timeout of a replay is the freedom to give up whenever the queue is
full. A nonce is any unused one; `NonceReuse` says whether one drawn before may
be drawn again.

*External.* The radio (`RadioAnswers`, `RadioUpdates`, `RadioHears`,
`RadioReboots`), the line (`LinkFails`), the process context (`Cancel`) and the
peers are modelled from what the broker expects of them: a dump in `DumpOrder`
followed by the nonce, at most one echo per packet, a reboot that loses any
suffix of what it was sending and any prefix of what it had not read.

### The abstract specifications

`Handshake` knows clients, requests and slots, and no nonce, queue, cache,
reboot or goroutine. `Broker` implements it (`ImplementsHandshake`) with *open*
mapped to the requests that are in `pendingConfig`, in `old`, in some
goroutine's `req`, or in a completion frame about to be queued; *sent*, *known*
and *answers* are read off the queues' histories, an answer with its place in the
queue. So a request that `handleRebooted`
carries from one table to another, or that is issued again under a new nonce,
stays the same open request, and once it is answered or dropped nothing in the
broker can bring it back.

`Session` is the contract between the broker and the supervisor. `Broker`
implements it (`ImplementsSession`) with its registry, its closed clients and
`readSerial`'s `pc`; in `Sessions` each session `s` implements it
(`EachSession`), `S(s)` being the instance for its members, `done[s]`, `rpc[s]`
(the steps of delivering an answer count as reading), `runErr[s]` and `link[s]`.
Both modules therefore agree on what happens at the boundary: when `done` may
close, when `Run` may return, that nothing closed is ever registered again.

### How `Sessions` corresponds to the code

`spc` is the supervisor's place in `server.Run`, `apc` the accept loop's,
`rpc[s]` that of `readSerial` of session `s`, `cpc[c]` that of a connection's
goroutines and `fpc[f]` that of an HTTP handler in `FetchCannedMessages`.
`current` is the variable both loops share; the accept loop's `active` is its
copy, so a session may end between `PickBroker` and `AddClient`. `removeClient`
is one step here (its inside is in `Broker`), `PublishStatus` after it another.
`provider` with `current = 0` is a nil `*broker.Broker` inside a non-nil `Radio`
(`NilRadio`): the first call on it panics. `net/http` recovers panics of
handlers; one in a goroutine of the broker ends the program (`crashed`).
A fetch is also its packet id; `mailbox[f]` is the waiter's channel of capacity
one, and the radio may answer late or twice. `serial.Open` is two steps, the descriptor and the set-up that may still fail;
`held` says whose descriptors are open. `Close` frees one at once unless
`readSerial` is inside a read: the file is in blocking mode, so the read keeps it
until it returns (`Release`). Whether a session reached
`minRuntime`, when timers fire and when the two-minute cache ages are free
choices. `outcomes` and `answered` only record history for the properties. The
device (`Unplug`, `Plug`), the radio and the context are external; one counter,
`MaxEvents`, bounds all their events together, so every mix of them is tried.

### How `Hub` corresponds to the code

A goroutine `t` is handed a payload: a mesh packet, with or without a text
(`Chats`) and with or without an id (`Anon`, packet id 0), something else that
touches a node (`"node"`), or any other; or it sets a status that names the local
node. `pc[t]` walks through what `ObservePayload` does with it: update the node
and notify (a packet that names no sender skips that), cache the packet's text,
and for a chat packet check for a duplicate, append and notify; in the end record
the event and notify. Each lock section is a step and each send on a subscriber's
channel is one, with `rest[t]` the part of the copied subscriber list not yet
served. A packet without an id is neither cached nor recognised by the check.

`role[t]` says whose goroutine it is, which matters when it panics: one of the
broker (`"broker"`), whose panic ends the program, or an HTTP handler, whose
panic `net/http` recovers. A handler meets the hub inside the broker (`"http"`),
when `SendTextMessage` or a canned-message request writes its packet and copies
it to clients, and again in `SendChat` (`"direct"`), which enters at the duplicate
check. It does one thing at a time (`NotInHand`) and records its message once
(`posting`); after a panic it does nothing more. A chat packet is first observed
by the one goroutine it comes from (`begun`, `known`): its echo, its copies to
clients and `SendChat`'s own record can only follow. All outgoing
messages have one text on one channel, and whether two were sent within two
seconds is a free choice. `mergeDuplicateChat` fills in a missing JSON text; as
every recorded message has one, it changes nothing and is part of the check.
Events are numbers. The list of nodes is the number of updates it shows:
`notifyNodes` takes it in one lock section and copies the subscribers in another
(`NotifyNodes`, `NodeSubs`). A page's handler takes the snapshot of the events,
subscribes three times, reads, and unsubscribes in reverse order. `feed`,
`owed` and `missed` are history for the properties: what a page was given, what
was stored while it was subscribed and has neither been sent nor met a full
channel, and what a goroutine that panicked had still to send it. The
fields of nodes, the table of channels and the rest of the snapshot are left out.

### How `Frame` corresponds to the code

`line` is every byte the device has accepted. A writer looks at `done`, waits
for `serialMu`, and hands header and payload to `writeAll`, which may get rid of
any number of bytes at a time (`WriteSome`) or fail (`WriteFails`); some callers
close `done` then, `SendTextMessage` does not (`Failed`). `rst` is where
`ReadFrame` is, one step per byte, so the reader runs at any distance behind the
writers. Lengths are two bytes, big-endian, and bytes are the code's numbers;
`MaxSize` is a constant so that its boundary can be reached. Noise and the end
of the line are external.

## 3. Runs

In the instances of `Broker`, `Budget` says how often each event of the
environment may happen, all else is the code's own doing. `Spent` is the set of
budgets already used up at the start: `All` starts with nothing spent, and
`MembersSpent`, `TrafficSpent` and `AnswerSpent` give the run several environments, explored one
after the other, instead of one with everything in it. `Starts` does the same in
`Hub`. Deadlock is not checked: when the budget is spent and all goroutines wait
for input the system rests, as the program does.

| Run | Instance | Shows |
|---|---|---|
| `handshake` | 1 client that joins, 2 slots, 3 nonces that may be drawn again, queue of 4; 2 messages, 1 reboot, 1 update | `ImplementsHandshake`; `RadioAnswerComplete`: an answer the radio completed comes after every slot; `NoMissedUpdate`: once a client has had an answer it has been queued the version of every slot the cache holds, or is being removed because its queue is full; `CacheFollowsRadio`: no slot is cached in a version from before a reboot once the line is read empty |
| `members` | 2 clients (one joins late), queue of 2; 2 messages (want, disconnect, heartbeat or other) and either 1 hang-up and 1 glitch or 1 update | `TypeOK`; `RegistryOK`: a primary exactly when a client is registered, no closed client registered; `AnsweredOnce`: no answer twice or to another client; `NoGhostRequests`, `OneRequestPerClient`: `pendingConfig` keeps nothing for clients that are gone and one entry per client, as long as the radio does not reboot; `NoMissedUpdate` |
| `traffic` | 2 clients, read-only mode, queue of 1; 2 messages (packet of any port, raw bytes), or 1 message, 1 expiry and 1 hang-up | `EchoReachesSender`: the echo of a packet that is not chat is queued for its sender, unless that is being removed because its queue is full; `ReadOnlyRespected` |
| `answer` | 1 client, web UI attached, 4 nonces; 1 message and 1 reboot, or 1 hang-up and 1 web message; `FairSpec` | `WantAnswered`, `BootstrapFillsCache`; `StatusConsistent`: the published count and primary belong together |
| `shutdown` | 1 client that joins, queue of 1; 3 mesh packets, 1 drain, cancellation, link failure, accept failure; `FairSpec` | `NoSilentLoss`: between the first and the last packet queued for a client none is missing; `ShutdownClosesClients`; `ImplementsSession` |
| `partial` | 2 clients, 2 slots, 2 messages | **violated**: `CachedAnswerComplete` |
| `failure` | 1 client, 1 packet, 1 link failure; `FairSpec` | **violated**: `FailureEndsRun` |
| `sessions` | 2 connections, 2 fetches, 2 sessions, `maxRapidFails` 2, 4 events | `SessionsTypeOK`; `EachSession`; `ShownWhileInstalled`: the status says connected as long as a session is installed; `GivesUpInTime`; `WaitersOwned`, `CannedAnswerReal`: no waiter is left behind or given another's answer; `NoStrayClient`: a connection added to a session that is over is closed or somebody is bound to close it; `NoLeakedDescriptor` |
| `radio` | 1 connection, 1 fetch, 1 session, 2 events | **violated**: `NilRadioRefused` |
| `hub` | 2 goroutines, a chat message with an id, one without, a packet that is not chat, look-back of 1, channels of 1; 2 pages and 1 payload, 1 page and 2 payloads, or no page and 4 payloads | `HubTypeOK`; `NoDuplicateChat`: of messages with an id; `UpdatesReachPages`: events, messages and nodes reach subscribed pages, unless a channel is full or a goroutine panicked on its way at another page's closed channel; `EventsOnce`; `NeverHeldUp` |
| `unsub` | 1 goroutine, 1 page, 1 payload | **violated**: `NoSendOnClosed` |
| `frame` | 2 writers, 3 frames, `MaxSize` 2, payloads of 1, 2 (a header's magic) and 3 (too large) bytes, one piece of noise out of 6 | `FrameTypeOK`; `Framed`: each frame read stands in the line as it would have been written, and no byte is in two frames; `FramesArrive`: without a stray magic byte exactly the frames written whole are read, in order |

**Why the bounds are enough.** The races are between two goroutines over one
client or one request, or between two clients over one registry: two clients,
two requests and one disturbance of each kind reach every pair of steps. One
queue slot is enough for a queue to be full and two slots of config for a dump
to be partial. `StatusConsistent` holds in the environments of `answer` with two
clients as well; the run has one because the liveness properties beside it admit
no symmetry. In `sessions` four events are enough for a connection, a failure,
a request and its answer to meet in any order, and two sessions for what is left
of one to meet the next. In `hub` a look-back and channels of one make both
limits reachable; whether a page is told of a change depends on that change and
one other (and, for a panic on the way, on a second page), the chat log on the
order of copies, which pages do not influence: a message, two copies of it at once
and one other message are four payloads. In
`frame` two writers contend, one frame follows another that was cut short or
preceded by noise, and a third shows that reading is in step again.
Counters in frames only name them. The theorems of section 4 hold for every
value of the constants, so for the properties they state nothing rests on these
bounds; it is for the others, listed at the end of that section, that they matter.

**Fairness** (`FairSpec`). Weak fairness for each goroutine's own steps: the Go
scheduler runs what can run, and mutexes are held for a bounded time. A reader
or writer blocked on a connection is only assumed to return once the connection
has been closed here. The supervisor reacts to the context and to `Run`. The
radio answers what it reads. Nothing is assumed of peers: they may never send,
read or hang up.

### Findings

- `partial`: `ready()` looks at `my_info` alone, the first frame of a dump. A
  request that arrives before the rest is answered with the fragment and a
  `config_complete_id`, which its comment says it avoids.
- `failure`: `Run` selects on the context and `errCh` only. After a failed write
  closes `done`, `readSerial` may return without posting, and the bridge neither
  ends nor reconnects.
- `radio`: between sessions the provider returns a nil broker in a non-nil
  interface, so the `nil` checks of `SendChat`, `FetchCanned` and
  `tryRecordChatPacket` never hold. A page's request is aborted by a panic; a
  packet of a client that is observed in that moment ends the program.
- `unsub`: subscriber lists are copied under the lock and used after it, while a
  leaving page closes its channel. A send on the closed channel panics in the
  goroutine that shows a payload and ends the program.

Observations without a run of their own:
- while `handleRebooted` has a client's request in hand, outside the map (lines 745
  to 754), a retry of that client finds nothing to drop, although the comment in
  `handleClientPayload` says it drops the request in flight: the retry and the
  request issued again both end up in `pendingConfig`, and the client is answered
  for each. A client that leaves in that moment, after the look at `isClosed`,
  leaves an entry behind until the radio answers it. With a reboot in the budget TLC
  finds `OneRequestPerClient` and `NoGhostRequests` violated in this way. The
  `members` run is therefore without reboots; that nothing but this race breaks the
  two properties is proved (section 4);
- the radio's echo of a chat message can be read between the write and
  `noteOutboundPacket` and is then broadcast to its sender too (line 923);
- after `SetStatus(false)` the removals of `CloseAll` publish a connected radio
  again, which stays until the next session (`server.go`, line 130);
- an accept error ends the accept loop for good while the supervisor goes on to
  reconnect the radio (`server.go`, line 45);
- an answer to a canned-message request whose waiter has gone is broadcast to all
  clients (`canned.go`, line 89);
- a page takes its snapshot before it subscribes and misses what is recorded in
  between (`webui/server.go`, line 156); `EventsOnce` is the other half, it is
  never given anything twice;
- a message whose first copy is taken for a repetition of the text sent just
  before is logged by a later copy, and two of those can pass the duplicate check
  at once and both be appended; `NoDuplicateChat` excepts such messages (the page
  itself drops the second one by its packet id);
- a chat packet with id 0, as a client may send it, is never recognised by its id
  (`chat.go`, lines 231 and 266): unless it is outgoing and its text was logged
  within two seconds, it is logged again when it is written to the radio and with
  every copy to a client; `NoDuplicateChat` excepts such packets;
- when a page leaves while an HTTP handler is sending, the panic is recovered, but
  the pages behind it on the handler's list never get what was stored, although
  their channels have room, and the handler's packet goes no further (`chat.go`,
  line 112; `Lost` in `UpdatesReachPages`);
- events are sent outside the lock that orders them, so two goroutines may
  deliver theirs in the opposite order (`hub.go`, line 98);
- after a stray `0x94` the reader throws the next byte away, even when that is
  the `0x94` of a frame, which is then skipped (`frame.go`, line 36); noise of
  this kind is in the `frame` run, and `Framed` holds with it, `FramesArrive` is
  stated without;
- `serialConn.Close` does not wake a `readSerial` blocked in a read: after an
  accept error the old session's reader keeps its descriptor, and its read may take the
  first bytes meant for the next session (`server.go`, line 131);
- a signal while the device is being waited for makes `Run` return an error, so
  `main` exits with status 1 and without withdrawing the mDNS service
  (`main.go`, line 86);
- an update broadcast while a snapshot is replayed can be followed by the older
  version from the snapshot (`sendCachedConfig`, line 1193);
- a reboot with no request pending empties the cache and asks the radio for
  nothing, so the web UI stays without config until a client asks (line 750);
- the comment of `isPrimary` says only the primary's `WantConfigId` is
  forwarded; on a cache miss anybody's is (line 895).

## 4. Proofs

The theorems hold for every value of the constants: any number of clients,
sessions, pages and writers, every size of queues and logs, every budget of
events. Each proof has one lemma per action, with a step for each part of the
invariant the action can disturb, and one lemma (`Undisturbed`, or `...Kept`) for
the parts it leaves alone. The inductive invariants were first checked with TLC
on the instances of the runs; `ArriveInv` of `FrameSafety` was not, because it
asks for a sequence of positions TLC would have to search for.

The assumptions are those of the modules: names for different things differ,
sizes are not zero. Four need a word. `Rank` is one order of slots with
`my_info` first, as `sendCachedConfig` replays them. `NilIsNoFrame` says that
"nothing" is not a frame. `Window <= MaxChat` says that the duplicate check
looks back no further than the log is kept (8 of 500 in the code).
`MaxSize < 256 * 256` is what two bytes of length can say.

### Broker

`TypeCorrect == Spec => []TypeOK`: besides the types, that a queue never exceeds
its bound (`Len(out[c]) <= taken[c] + SendBuffer`) and that a client is only sent
frames that clients may receive, the radio only messages
for the radio. `TypeOK` is not inductive: a goroutine's locals have a type that
depends on where it is. The strengthening has two parts. `LocalsOK` says what
`frm`, `req`, `todo` and `victim` hold at each `pc` and `call` (a goroutine at
`write` holds a message for the radio, one at `replay` serves a request of its
own client, one inside `removeClient` has a victim). `SenderOK` says that the
packet a reader forwards names its own client as sender, which is what keeps
`outboundByPacket` a map to clients.

`RegistryCorrect == Spec => []RegistryOK` shows, for any number
of concurrent `AddClient`, `removeClient` and `CloseAll`, that there is a
primary exactly when a client is registered, that it is registered, and that no
closed client is. `RegistryOK` alone is not inductive. `Close` needs `RemovalOK`:
a client in the second half of `removeClient` is no longer registered. To keep
that, `AddClient` must never add a client somebody is still closing, and this is
`JoinedOK`: nothing (registry, queues of work, requests pending or taken by
`handleRebooted`, remembered packets) refers to a connection before `AddClient`
has started its goroutines.

`AnsweredCorrect == Spec => []AnsweredOnce`, with reboots and reused nonces. The
invariant `HandshakeInv` follows a request id through the *places* that can hold
it: a goroutine's `req`, `pendingConfig`, the requests `handleRebooted` has taken
(`old`), a `ConfigCompleteId` being sent. `IdsOK` says an id is in one place at a
time, is not newer than the client's last message, and is in none once it is in a
queue; `OwnerOK` and `ReaderOK` say whose it is, `SendingOK` that an answer is on
its way to one client only. Most steps only forget ids, and one lemma settles
them all; `Reserve`, `SerialComplete`, `SwapPending` and `Reissue` move them, and
only a client's own `ReadWant` brings in a new one.

`OneRequestCorrect` and `NoGhostsCorrect` allow any number of reboots and exclude
one race, `Overlooked`: a reader calls `dropPendingForClient` while `handleRebooted`
has a request of its client in hand, outside the map. That race is what the first
observation of section 3 describes, and TLC finds both properties violated when it
is allowed. `SingleInv` counts a client's requests where they can be parked:
`pendingConfig`, `old` and the request `readSerial` is reserving. A client has at
most one (`SingleOK`), because when its reader reserves there is none (`RetryOK`).
`ServeOK` says that only its reader and `readSerial` serve a client. A reader that
has stopped removes its own client (`StopOK`), and nothing of it is parked once
`dropPendingForClient` is behind it (`GhostOK`). `CalmCorrect` adds that without
reboots the race cannot happen, so that both properties then hold on every schedule:
no notice of a reboot is on the line and `readSerial` has no request in hand
(`CalmInv`).

`StatusCorrect` needs every copy that `PublishStatus` is putting together to be
consistent (`StatOK`), so an old copy set last is consistent too. `ReadOnlyCorrect`
needs that being allowed to transmit is stable: a connection that was primary
when its packet passed the check may be removed before the packet is written, but
it never becomes an ordinary client, because `AddClient` adds a connection once.
`BrokerIsSession == Spec => ImplementsSession` is proved step by step: each action
is a step of `Session` or changes nothing it speaks of. `Unlink` and `Close` are
both `Remove` there, which never leaves a closed connection registered; that, and
that `AddClient` takes only new connections, is what `RegistryInv` provides.

`BrokerDelivery` is about what reaches a client. `readSerial` alone broadcasts
what the radio sends, one frame at a time, and removes whoever cannot take one
before it goes on. A frame it has read is therefore in a client's queue (`Got`),
in `readSerial`'s hands with the client still to be visited (`Coming`), or that
client is being removed (`Slow`): together `Reached(c, f)`, which every step keeps
as long as the client is registered. `SourcesInv` says who may hold which frame,
so nobody else's frame is taken for one of these.

- `EchoCorrect == Spec => []EchoReachesSender` is `Reached` for each packet heard
  (`EchoOK`). The proof found an exception that the property did not make at
  first and the runs' longer queues hid: between finding the sender's queue full
  and removing it the sender is still registered. The `traffic` run has a queue
  of one since.
- `SilentCorrect == Spec => []NoSilentLoss` needs more, because a client that is
  removed and still on the list of a broadcast may be handed one more frame.
  `NumbersOK` and `LatestOK` say that the mesh's packets are read in the order of
  their numbers and the one in hand is the latest; `GapOK` says that what is
  missing at the end of a client's queue is either still to be queued (`Due`) or
  nothing will follow it (`Cut`).
- `CacheCorrect` follows from `CacheInv`: the last frame on the line that touches a
  slot carries the radio's version or is a reboot notice, and if there is none
  the cache has the radio's version already or nothing.
- `CompleteCorrect` and `MissedCorrect` follow from `AnswersInv`. A client is
  `Waiting` when it has asked and found the cache without `my_info`. `DumpOK`: for
  any completion on the line and any client that waits, each slot has `Reached` the
  client or stands in the line before the completion. It speaks of any completion,
  because a nonce may have been drawn before and the completion may end a dump that
  somebody else asked for. This is kept when a client begins to wait because of
  `StartOK`: a completion on the line has its whole dump before it, from `my_info`
  on and without a reboot between, or the cache is ready and no reboot is in the way;
  so whoever finds the cache not ready still has the whole dump ahead.
  `ReplayOK` and `SlotsOK` carry a version cached after the snapshot to a client that
  is being replayed the cache; `UpToDate` is the property itself.

`BrokerIsHandshake` (`ImplementsHandshake`) rests on both modules. The
open requests are the ids in the places of `HandshakeInv` (`OpenIds`). A step that
queues nothing finds every id in a place where some id was before, so it is a
`Drop` of what is missing (`FromOpen`, `ForgetContract`). A step that queues a
frame must leave the others open: by `UniqueOK` one place is emptied, and
`BusyOK` says that a goroutine has a request in hand only while it serves it.
That the radio's answer comes after the dump is `AnswerOK`.

Four of these have hypotheses, each no more than what the argument uses.
`[][~Damaged({"cfg"})]_vars` (`CompleteCorrect`, `MissedCorrect`,
`BrokerIsHandshake`): a frame `readSerial` cannot parse is skipped, and when it is a
part of the config it is missing from the cache, the queues and the dump, and the
properties fail. Any other frame may be damaged, the completion and the notice of a
reboot included; `CacheCorrect` also excludes that notice, without which the cache
keeps what was before. `MyInfoFirst` (the first three): the radio begins a dump with
`my_info`, as `dumpConfig` of `internal/broker/e2e_test.go` (line 125) does, which
plays "the sequence of FromRadio frames a real device answers". With that, nonces may be drawn again without
harm: a client that waits found no `my_info`, so a dump that is still on its way is
as good as its own. Without it, the end of a dump whose first parts were read before
the client joined could answer that client. `RadioSlots = Slots` (`MissedCorrect`): a
slot that no dump contains may have been cached from live traffic before the client
joined, and then nothing sends it to that client when the radio answers it.

### Sessions

All properties follow from `SessionsInv`, a conjunction along the parts of the
state. `SuperOK` ties `current` and the status to the supervisor's place
(`ShownCorrect`). `CountOK` says that `rapid` is the exact number of failures at
the end of the history, which is what makes `GivesUpInTime` an equivalence.
`DescriptorsOK` is `NoLeakedDescriptor` with what `link` and `rpc` say of each
other. `WaitOK`, `AnswerOK`, `StoredOK`, `MailOK` and `ReplyOK` trace an answer
from the radio to the page. `OverOK` is the reason why no connection is left
alone: when a session is over its `done` is closed, the context is done or
accepting has stopped, and a connection still open is on `CloseAll`'s list, or will
be, or has a writer that will see `done`. `SessionsRefine == Spec => EachSession`
maps each step to a step of the one session it belongs to and to a stutter of all
others.

### Hub

`HubInv` says what a goroutine knows at each step. For `UpdatesCorrect`, what a
page is owed is in the hands of somebody whose list of subscribers has the page
in it, or was in those of somebody who panicked at another page's closed channel
(`OwedOK`, with the property itself; the page's own channel is open as long as it
is subscribed, `PageOK`). Nothing is excepted when the panic is recovered, or when it
ends the program. For `EventsOnceCorrect`, numbers of
events grow, a number in a goroutine's hands has not been given to the pages
still on its list, and a snapshot comes before all subscriptions (`NumbersOK`,
`FeedOK`, `SendOK`). For `NoDuplicateCorrect`, the log is the end of everything
ever appended (`ChatOK`), a packet is with one goroutine only until its first
observation is over (`ItemOK`), by then it has been appended or was taken for a
repetition (`LoggedOK`), and whoever is about to append a packet with an id again is
further behind its first entry than the check looks back (`AppendOK`). A panic on the
way leaves the packet with nobody: it is begun and never known, so no copy follows.

`NeverHeldUp` is stated with `ENABLED`, which the prover does not know.
`NeverHeldUpCorrect` proves what it means: `GoesOn(t)` gives every variable one next
value, computed from the state, and wherever `t` is that is a step of `Work(t)`. It
needs what `NodeItemInvariant` adds to `HubInv` (whoever tells pages of a node knows
what to go on with), that a cache over its limit has a subset of the size that is
kept (`SubsetOfSize`), and that a full or closed channel has a step of its own.

### Frame

`FrameTypeCorrect` includes that `serialMu` keeps writers apart. For
`FramedCorrect`, `ReadInv` says what the line holds between the place where the
reader began its current item (`Base`) and where it is: which bytes of a header
it has seen, and that `part` is what stands in the line behind it. For
`FramesArriveCorrect`, `ArriveInv` asserts positions: where each frame written
whole begins, where the empty frames of noise do, and where the frame being written or
cut short does. They follow each other without overlap, no other magic byte
stands before the last of them (`Layout`), and the reader's `Base` is never
inside one of them (`Reads`); so it meets every whole frame at its first byte. A
frame cut short is the end of the line (`CutShort`): a write fails when the device
is gone, and it accepts nothing after that.

### Only model-checked

- `WantAnswered`, `BootstrapFillsCache` and `ShutdownClosesClients` hold under
  fairness, which is out of the prover's reach.
- `NeverHeldUp` as it stands, with `ENABLED`; `NeverHeldUpCorrect` is its content.
- What the hypotheses above exclude: `NoMissedUpdate` with one damaged frame of any
  kind is checked for two clients and one slot.

## 5. Not modelled

Logging and debug output (`broker/debug.go`); the text checks of
`SendTextMessage`; the fields of events and nodes and the table of channels of
the hub; HTTP routes, JSON and the page. `config.go` reads its values once.
`termios` and the flags in `serial` are system calls on one descriptor whose
only state is the kernel's; `DisableHUPCL` leaves none behind. `mdns.go` is one
library call and `main.go` wiring. None of it changes what the properties speak
of. Thirty of the thirty-four thousand lines of Go are the generated
`*.pb.go` of `internal/meshtastic`: accessors and descriptors without control of
their own. The protobuf variants the broker tells apart appear as kinds of
frames; the rest of that code is nothing a model could add to. The share of
code mapped is therefore to be read against the four thousand lines written by
hand.

## 6. State of the work

What can be modelled faithfully is, and every safety invariant and every
refinement a run checks is also a theorem (`NeverHeldUp` in the form that section 4
gives). Liveness stays with TLC. The hazards of `PROJECT.json` that have no property
say there what the code does about them.
