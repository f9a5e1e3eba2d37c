------------------------------- MODULE Broker -------------------------------
(***************************************************************************)
(* The broker of internal/broker: one serial radio session multiplexed     *)
(* over many TCP clients.  Every goroutine of the program is a thread of   *)
(* this module and every lock section, channel operation or device access  *)
(* is one step, so steps of different goroutines interleave as in the      *)
(* code.  The radio, the serial line and the TCP peers are external: they  *)
(* are modelled from what the broker expects of them.                      *)
(***************************************************************************)
EXTENDS Naturals, Sequences, FiniteSets

CONSTANTS
    Clients,          \* TCP connections; an app that reconnects is a new client
    Early,            \* those connected before readSerial starts
    Nil,              \* no client / no frame
    Nonces,           \* wire ids reserveConfigRequest may draw
    Slots,            \* keys of the config cache: my_info, one per config,
                      \* module config, channel, node, metadata, device UI
    MyInfo,           \* the slot that configCache.ready() looks at
    Rank,             \* replay position of a slot in a cache snapshot
    DumpOrder,        \* order in which the radio dumps its slots (external)
    SendBuffer,       \* clientSendBuffer
    ReadOnlyClients,  \* the READ_ONLY_CLIENTS option
    Observability,    \* TRUE when the web UI hub is attached
    NonceReuse,       \* FALSE: a 32-bit random nonce is never drawn twice
    Inputs,           \* kinds of ToRadio messages the clients send
    Ports,            \* classes of packets the clients send
    Budget,           \* how often each environment event may happen
    Spent             \* what of it is spent at the start: one environment per member

\* Ways the environment can act; Budget bounds each of them.
Events == {"msg", "hangup", "update", "mesh", "reboot", "glitch", "web",
           "linkfail", "cancel", "expire", "acceptfail", "drain"}

InputKinds == {"want", "disconnect", "packet", "other", "raw"}
PortKinds  == {"chat", "rpc", "anon"}   \* "anon" is a packet whose id is 0

ASSUME BrokerAssumptions ==
    /\ {Nil, "web", "mesh"} \cap Clients = {}
    /\ Early \subseteq Clients
    /\ MyInfo \in Slots
    /\ Rank \in [Slots -> Nat]
    /\ \A s, u \in Slots : Rank[s] = Rank[u] => s = u
    /\ \A s \in Slots : Rank[MyInfo] <= Rank[s]
    /\ DumpOrder \in Seq(Slots)
    /\ SendBuffer \in Nat \ {0}
    /\ ReadOnlyClients \in BOOLEAN
    /\ Observability \in BOOLEAN
    /\ NonceReuse \in BOOLEAN
    /\ Inputs \subseteq InputKinds
    /\ Ports \subseteq PortKinds
    /\ Budget \in [Events -> Nat] /\ Spent \subseteq [Events -> Nat]

VARIABLES
    clients,    \* Broker.clients
    primary,    \* Broker.primary
    closed,     \* closed[c]: c.done is closed and the connection with it
    out,        \* out[c]: every frame c.send has accepted, in order
    taken,      \* taken[c]: how many of them writeLoop has received
    cache,      \* configCache: version held per slot, 0 when absent
    pendingConfig, \* Broker.pendingConfig, a request or NoReq per nonce
    issued,     \* nonces drawn so far
    outbound,   \* packets in Broker.outboundByPacket
    expired,    \* the ones among them whose deadline has passed
    done,       \* Broker.done is closed
    hub,        \* the last Status given to the web UI hub
    pc,         \* where each goroutine is
    frm,        \* frame or message a goroutine is sending
    todo,       \* clients its broadcast or CloseAll still has to visit
    req,        \* config request it is serving
    old,        \* requests handleRebooted took out of pendingConfig
    snap,       \* snap[c]: what sendCachedConfig still has to replay
    call,       \* step of removeClient/PublishStatus a goroutine is in
    victim,     \* the client removeClient was called with
    removed,    \* removeClient found the client registered
    stat,       \* the Status PublishStatus is putting together
    link,       \* the serial device (external)
    toRadio,    \* bytes on their way to the radio, as messages
    fromRadio,  \* bytes on their way to the broker, as messages
    radioCfg,   \* the radio's current version of each slot
    heard,      \* packets readSerial has received
    cancelled,  \* the process context is done
    asked,      \* asked[c]: messages c has sent
    used        \* used[e]: how often event e has happened

registryVars == <<clients, primary, closed>>
queueVars    == <<out, taken>>
configVars   == <<cache, pendingConfig, issued>>
echoVars     == <<outbound, expired, heard>>
workVars     == <<frm, todo, req, old, snap>>
callVars     == <<call, victim, removed, stat>>
wireVars     == <<link, toRadio, fromRadio, radioCfg>>
envVars      == <<cancelled, asked, used>>
vars == <<registryVars, queueVars, configVars, echoVars, done, hub, pc,
          workVars, callVars, wireVars, envVars>>

-----------------------------------------------------------------------------
(* Goroutines *)

Serial    == <<"serial", Nil>>      \* readSerial
Runner    == <<"run", Nil>>         \* Run
Boot      == <<"boot", Nil>>        \* bootstrapConfig
Web       == <<"web", Nil>>         \* an HTTP handler calling SendTextMessage
Acceptor  == <<"accept", Nil>>      \* the accept loop calling AddClient
Server    == <<"server", Nil>>      \* the supervisor calling CloseAll
Reader(c) == <<"reader", c>>        \* readLoop
Writer(c) == <<"writer", c>>        \* writeLoop
Threads   == {Serial, Runner, Boot, Web, Acceptor, Server}
                \cup {Reader(c) : c \in Clients} \cup {Writer(c) : c \in Clients}

\* Where a goroutine goes once it has dealt with one message.
Home(t) == CASE t = Serial -> "loop"
             [] t = Boot   -> "stopped"
             [] t = Web    -> "idle"
             [] OTHER      -> "read"

At(t, label) == pc[t] = label /\ call[t] = "none"
Goto(t, label) == pc' = [pc EXCEPT ![t] = label]
Spend(e) == used[e] < Budget[e] /\ used' = [used EXCEPT ![e] = @ + 1]

-----------------------------------------------------------------------------
(* Messages.  A request id is the pair of the client and the number of its *)
(* message: the broker never looks inside an id.                           *)

RequestIds == Clients \X Nat
BootId     == <<Nil, 1>>                       \* brokerBootstrapConfigID
Requests   == [client : Clients, id : RequestIds]
                \cup {[client |-> Nil, id |-> BootId]}
NoReq      == [client |-> Nil, id |-> <<Nil, 0>>]
Packets    == [from : Clients \cup {"web", "mesh"}, seq : Nat, port : PortKinds]

CfgFrame(s, v)    == [kind |-> "cfg", slot |-> s, ver |-> v]
PktFrame(p, via)  == [kind |-> "pkt", pkt |-> p, via |-> via]
DoneFrame(i, via) == [kind |-> "done", id |-> i, via |-> via]
Complete(n)       == [kind |-> "complete", nonce |-> n]
Rebooted          == [kind |-> "rebooted"]
WantMsg(n)        == [kind |-> "want", nonce |-> n]
OtherMsg          == [kind |-> "other"]

CfgFrames  == [kind : {"cfg"}, slot : Slots, ver : Nat]
PktFrames  == [kind : {"pkt"}, pkt : Packets, via : {"radio", "echo"}]
DoneFrames == [kind : {"done"}, id : RequestIds, via : {"radio", "cache"}]
WantMsgs   == [kind : {"want"}, nonce : Nonces]
Completes  == [kind : {"complete"}, nonce : Nonces]

ToClient  == CfgFrames \cup PktFrames \cup DoneFrames
ToRadio   == WantMsgs \cup PktFrames \cup {OtherMsg}
FromRadio == CfgFrames \cup PktFrames \cup Completes \cup {Rebooted}

ASSUME NilIsNoFrame == Nil \notin ToClient \cup ToRadio

-----------------------------------------------------------------------------
(* configCache *)

NoCache == [s \in Slots |-> 0]
Ready   == cache[MyInfo] # 0
Held(m) == {s \in Slots : m[s] # 0}
\* The slot a replay sends next: my_info, configs, module configs, channels,
\* nodes, metadata, device UI, each group in key order.
First(m) == {s \in Held(m) : \A u \in Held(m) : Rank[s] <= Rank[u]}

(* client.send: a buffered channel that is never closed *)

HasRoomMutant(c) == Len(out[c]) - taken[c] <= SendBuffer
HasRoom(c) == Len(out[c]) - taken[c] < SendBuffer
Accept(c, f) == out' = [out EXCEPT ![c] = Append(@, f)]

FreeNonces == {n \in Nonces : /\ pendingConfig[n] = NoReq
                              /\ NonceReuse \/ n \notin issued}

-----------------------------------------------------------------------------
(* removeClient and PublishStatus.  Any goroutine may be inside them:      *)
(* call[t] is the step it is at, and its own pc waits meanwhile.           *)

NoStat == [serial |-> TRUE, clients |-> {}, primary |-> Nil, ready |-> FALSE]

StartRemove(t, c) == /\ call' = [call EXCEPT ![t] = "unlink"]
                     /\ victim' = [victim EXCEPT ![t] = c]
                     /\ UNCHANGED <<removed, stat>>
StartPublish(t) == /\ call' = [call EXCEPT ![t] = IF Observability THEN "publish" ELSE "none"]
                   /\ UNCHANGED <<victim, removed, stat>>

\* Who may own the radio once c has left: map iteration picks any remaining client.
HeirsMutant(c) == IF primary # c THEN {primary} ELSE clients
Heirs(c) == IF primary # c THEN {primary}
            ELSE IF clients = {c} THEN {Nil} ELSE clients \ {c}

\* The section under clientsMu.
Unlink(t) ==
    /\ call[t] = "unlink"
    /\ clients' = clients \ {victim[t]}
    /\ primary' \in Heirs(victim[t])
    /\ removed' = [removed EXCEPT ![t] = victim[t] \in clients]
    /\ call' = [call EXCEPT ![t] = "drop"]
    /\ UNCHANGED <<closed, queueVars, configVars, echoVars, done, hub, pc, workVars,
                   victim, stat, wireVars, envVars>>

\* dropPendingForClient
DropPendingMutant(c) == UNCHANGED pendingConfig
DropPending(c) == pendingConfig' = [n \in Nonces |->
                     IF pendingConfig[n].client = c THEN NoReq ELSE pendingConfig[n]]

DropRemoved(t) ==
    /\ call[t] = "drop"
    /\ DropPending(victim[t])
    /\ call' = [call EXCEPT ![t] = "close"]
    /\ UNCHANGED <<registryVars, queueVars, cache, issued, echoVars, done, hub, pc,
                   workVars, victim, removed, stat, wireVars, envVars>>

Close(t) ==
    /\ call[t] = "close"
    /\ closed' = [closed EXCEPT ![victim[t]] = TRUE]
    /\ call' = [call EXCEPT ![t] = IF removed[t] /\ Observability THEN "publish" ELSE "none"]
    /\ victim' = [victim EXCEPT ![t] = Nil]
    /\ removed' = [removed EXCEPT ![t] = FALSE]
    /\ UNCHANGED <<clients, primary, queueVars, configVars, echoVars, done, hub, pc,
                   workVars, stat, wireVars, envVars>>

\* PublishStatus reads the registry, then the cache, then replaces the status.
ReadRegistry(t) ==
    /\ call[t] = "publish"
    /\ stat' = [stat EXCEPT ![t] = [NoStat EXCEPT !.clients = clients, !.primary = primary]]
    /\ call' = [call EXCEPT ![t] = "look"]
    /\ UNCHANGED <<registryVars, queueVars, configVars, echoVars, done, hub, pc,
                   workVars, victim, removed, wireVars, envVars>>

ReadCacheMutant(t) ==
    /\ call[t] = "look"
    /\ stat' = [stat EXCEPT ![t].ready = Ready, ![t].clients = clients]
    /\ call' = [call EXCEPT ![t] = "post"]
    /\ UNCHANGED <<registryVars, queueVars, configVars, echoVars, done, hub, pc,
                   workVars, victim, removed, wireVars, envVars>>
ReadCache(t) ==
    /\ call[t] = "look"
    /\ stat' = [stat EXCEPT ![t].ready = Ready]
    /\ call' = [call EXCEPT ![t] = "post"]
    /\ UNCHANGED <<registryVars, queueVars, configVars, echoVars, done, hub, pc,
                   workVars, victim, removed, wireVars, envVars>>

SetStatus(t) ==
    /\ call[t] = "post"
    /\ hub' = stat[t]
    /\ stat' = [stat EXCEPT ![t] = NoStat]
    /\ call' = [call EXCEPT ![t] = "none"]
    /\ UNCHANGED <<registryVars, queueVars, configVars, echoVars, done, pc,
                   workVars, victim, removed, wireVars, envVars>>

CallStep(t) == \/ Unlink(t) \/ DropRemoved(t) \/ Close(t)
               \/ ReadRegistry(t) \/ ReadCache(t) \/ SetStatus(t)

-----------------------------------------------------------------------------
(* Steps several goroutines share *)

\* The goroutine is through with its message and forgets its locals.
Finish(t) == /\ Goto(t, Home(t))
             /\ frm' = [frm EXCEPT ![t] = Nil]
             /\ req' = [req EXCEPT ![t] = NoReq]
             /\ todo' = [todo EXCEPT ![t] = {}]

\* reserveConfigRequest: any nonce that is not in use.
Reserve(t) ==
    /\ At(t, "reserve")
    /\ \E n \in FreeNonces :
          /\ pendingConfig' = [pendingConfig EXCEPT ![n] = req[t]]
          /\ issued' = issued \cup {n}
          /\ frm' = [frm EXCEPT ![t] = WantMsg(n)]
    /\ req' = [req EXCEPT ![t] = NoReq]
    /\ Goto(t, "forward")
    /\ UNCHANGED <<registryVars, queueVars, cache, echoVars, done, hub, todo, old, snap,
                   callVars, wireVars, envVars>>

\* A failed write: everyone but SendTextMessage calls fail(), which closes
\* done, and gives its message up; handleRebooted returns from its loop.
SerialFailed(t) ==
    /\ Finish(t)
    /\ done' = (done \/ t # Web)
    /\ old' = IF t = Serial THEN [n \in Nonces |-> NoReq] ELSE old
    /\ UNCHANGED <<registryVars, queueVars, configVars, echoVars, hub, snap, callVars,
                   wireVars, envVars>>

\* writeSerial looks at done first ...
Forward(t) ==
    /\ At(t, "forward")
    /\ \/ /\ done
          /\ SerialFailed(t)
       \/ /\ ~done
          /\ Goto(t, "write")
          /\ UNCHANGED <<registryVars, queueVars, configVars, echoVars, done, hub,
                         workVars, callVars, wireVars, envVars>>

AfterWrite(t) == CASE frm[t].kind = "pkt" /\ t # Web -> "note"
                   [] frm[t].kind = "pkt" /\ t = Web -> "cast"
                   [] frm[t].kind = "want" /\ t = Serial -> "reissue"
                   [] OTHER -> Home(t)

\* ... and then writes one frame under serialMu.
WriteSerial(t) ==
    /\ At(t, "write")
    /\ \/ /\ link = "up"
          /\ toRadio' = Append(toRadio, frm[t])
          /\ Goto(t, AfterWrite(t))
          /\ frm' = IF frm[t].kind = "pkt" THEN frm ELSE [frm EXCEPT ![t] = Nil]
          /\ UNCHANGED <<registryVars, queueVars, configVars, echoVars, done, hub, todo,
                         req, old, snap, callVars, link, fromRadio, radioCfg, envVars>>
       \/ /\ link = "down"
          /\ SerialFailed(t)

\* broadcastExcept: copy the registry, leave out the goroutine's own client.
Cast(t) ==
    /\ At(t, "cast")
    /\ LET targets == clients \ {t[2]} IN
       \/ /\ targets = {}
          /\ Finish(t)
       \/ /\ targets # {}
          /\ todo' = [todo EXCEPT ![t] = targets]
          /\ Goto(t, "send")
          /\ UNCHANGED <<frm, req>>
    /\ UNCHANGED <<registryVars, queueVars, configVars, echoVars, done, hub, old, snap,
                   callVars, wireVars, envVars>>

\* disconnectSlowClient
DisconnectSlowMutant(t, c) == UNCHANGED callVars
DisconnectSlow(t, c) == IF closed[c] THEN UNCHANGED callVars ELSE StartRemove(t, c)

\* sendToClient: enqueue without blocking, else disconnect the slow client.
Send(t, c) ==
    /\ At(t, "send")
    /\ c \in todo[t]
    /\ IF todo[t] = {c}
         THEN Finish(t)
         ELSE /\ todo' = [todo EXCEPT ![t] = @ \ {c}]
              /\ UNCHANGED <<pc, frm, req>>
    /\ \/ /\ ~closed[c] /\ HasRoom(c)
          /\ Accept(c, frm[t])
          /\ UNCHANGED callVars
       \/ /\ closed[c] \/ ~HasRoom(c)
          /\ DisconnectSlow(t, c)
          /\ UNCHANGED out
    /\ UNCHANGED <<registryVars, taken, configVars, echoVars, done, hub, old, snap,
                   wireVars, envVars>>

SharedStep(t) == \/ CallStep(t) \/ Reserve(t) \/ Forward(t) \/ WriteSerial(t)
                 \/ Cast(t) \/ \E c \in Clients : Send(t, c)

-----------------------------------------------------------------------------
(* readSerial *)

SerialLoop ==
    /\ At(Serial, "loop")
    /\ Goto(Serial, IF done THEN "stopped" ELSE "read")
    /\ UNCHANGED <<registryVars, queueVars, configVars, echoVars, done, hub, workVars,
                   callVars, wireVars, envVars>>

\* One frame of the given kind is read; the radio sees no difference.
ReadFrame(kind) == /\ At(Serial, "read")
                   /\ fromRadio # <<>>
                   /\ Head(fromRadio).kind = kind
                   /\ fromRadio' = Tail(fromRadio)
                   /\ UNCHANGED <<link, toRadio, radioCfg>>

\* A damaged or unparseable frame is dropped and the loop goes on.
SerialGlitch ==
    /\ At(Serial, "read")
    /\ fromRadio # <<>>
    /\ Spend("glitch")
    /\ fromRadio' = Tail(fromRadio)
    /\ Goto(Serial, "loop")
    /\ UNCHANGED <<registryVars, queueVars, configVars, echoVars, done, hub, workVars,
                   callVars, link, toRadio, radioCfg, cancelled, asked>>

\* Any other read error is left for Run ("posted") and ends the goroutine.
SerialError ==
    /\ At(Serial, "read")
    /\ link = "down"
    /\ Goto(Serial, "posted")
    /\ UNCHANGED <<registryVars, queueVars, configVars, echoVars, done, hub, workVars,
                   callVars, wireVars, envVars>>

SerialConfigMutant ==
    /\ ReadFrame("cfg")
    /\ cache' = [cache EXCEPT ![Head(fromRadio).slot] = Head(fromRadio).ver]
    /\ Goto(Serial, "loop")
    /\ UNCHANGED <<registryVars, queueVars, pendingConfig, issued, echoVars, done, hub,
                   workVars, callVars, envVars>>
SerialConfig ==
    /\ ReadFrame("cfg")
    /\ LET f == Head(fromRadio) IN
          /\ cache' = [cache EXCEPT ![f.slot] = f.ver]
          /\ frm' = [frm EXCEPT ![Serial] = f]
    /\ Goto(Serial, "cast")
    /\ UNCHANGED <<registryVars, queueVars, pendingConfig, issued, echoVars, done, hub,
                   todo, req, old, snap, callVars, envVars>>

\* takeConfigRequest
TakeRequestMutant(n) == UNCHANGED pendingConfig
TakeRequest(n) == pendingConfig' = [pendingConfig EXCEPT ![n] = NoReq]

AddresseeMutant(r) == clients
Addressee(r) == {r.client}

\* handleConfigComplete: the request leaves pendingConfig, and its client, if
\* it has one, is sent the id it asked with.
SerialComplete ==
    /\ ReadFrame("complete")
    /\ LET n == Head(fromRadio).nonce
           r == pendingConfig[n]
       IN /\ TakeRequest(n)
          /\ \/ /\ r = NoReq
                /\ Goto(Serial, "loop")
                /\ UNCHANGED <<frm, todo, callVars>>
             \/ /\ r # NoReq /\ r.client = Nil
                /\ Goto(Serial, "loop")
                /\ StartPublish(Serial)
                /\ UNCHANGED <<frm, todo>>
             \/ /\ r.client # Nil
                /\ frm' = [frm EXCEPT ![Serial] = DoneFrame(r.id, "radio")]
                /\ todo' = [todo EXCEPT ![Serial] = Addressee(r)]
                /\ Goto(Serial, "send")
                /\ UNCHANGED callVars
    /\ UNCHANGED <<registryVars, queueVars, cache, issued, echoVars, done, hub, req, old,
                   snap, envVars>>

\* configCache.reset
ResetCacheMutant == UNCHANGED cache
ResetCache == cache' = NoCache

\* handleRebooted: reset the cache, take all pending requests, and issue each
\* of them again under a new nonce.
SerialRebooted ==
    /\ ReadFrame("rebooted")
    /\ ResetCache
    /\ Goto(Serial, "swap")
    /\ UNCHANGED <<registryVars, queueVars, pendingConfig, issued, echoVars, done, hub,
                   workVars, callVars, envVars>>

SwapPending ==
    /\ At(Serial, "swap")
    /\ old' = pendingConfig
    /\ pendingConfig' = [n \in Nonces |-> NoReq]
    /\ Goto(Serial, "reissue")
    /\ UNCHANGED <<registryVars, queueVars, cache, issued, echoVars, done, hub, frm, todo,
                   req, snap, callVars, wireVars, envVars>>

\* A request whose client has been closed is not issued again.
ObsoleteMutantBoot(r) == r.client = Nil
ObsoleteMutantClient(r) == r.client # Nil
Obsolete(r) == r.client # Nil /\ closed[r.client]

Reissue(n) ==
    /\ At(Serial, "reissue")
    /\ old[n] # NoReq
    /\ old' = [old EXCEPT ![n] = NoReq]
    /\ \/ /\ Obsolete(old[n])
          /\ UNCHANGED <<pc, req>>
       \/ /\ ~Obsolete(old[n])
          /\ req' = [req EXCEPT ![Serial] = old[n]]
          /\ Goto(Serial, "reserve")
    /\ UNCHANGED <<registryVars, queueVars, configVars, echoVars, done, hub, frm, todo,
                   snap, callVars, wireVars, envVars>>

ReissueDone ==
    /\ At(Serial, "reissue")
    /\ \A n \in Nonces : old[n] = NoReq
    /\ Goto(Serial, "loop")
    /\ UNCHANGED <<registryVars, queueVars, configVars, echoVars, done, hub, workVars,
                   callVars, wireVars, envVars>>

\* consumeOutboundOrigin: who sent this packet, if its echo is still expected.
Origin(p) == IF p \in outbound \ expired /\ ~closed[p.from] THEN p.from ELSE Nil

\* packetSuppressesOriginEcho
SuppressesMutant(p) == TRUE
Suppresses(p) == p.port = "chat"

\* A packet from the radio.  The echo of a client's packet goes to nobody when
\* it is chat and to the sender otherwise; all else is broadcast.
SerialPacket ==
    /\ ReadFrame("pkt")
    /\ LET p == Head(fromRadio).pkt IN
          /\ heard' = heard \cup {p}
          /\ outbound' = outbound \ {p}
          /\ expired' = expired \ {p}
          /\ \/ /\ Origin(p) = Nil
                /\ frm' = [frm EXCEPT ![Serial] = Head(fromRadio)]
                /\ Goto(Serial, "cast")
                /\ UNCHANGED todo
             \/ /\ Origin(p) # Nil /\ Suppresses(p)
                /\ Goto(Serial, "loop")
                /\ UNCHANGED <<frm, todo>>
             \/ /\ Origin(p) # Nil /\ ~Suppresses(p)
                /\ frm' = [frm EXCEPT ![Serial] = Head(fromRadio)]
                /\ todo' = [todo EXCEPT ![Serial] = {Origin(p)}]
                /\ Goto(Serial, "send")
    /\ UNCHANGED <<registryVars, queueVars, configVars, done, hub, req, old, snap,
                   callVars, envVars>>

SerialStep == \/ SerialLoop \/ SerialError \/ SerialConfig \/ SerialComplete
              \/ SerialRebooted \/ SwapPending \/ ReissueDone \/ SerialPacket
              \/ \E n \in Nonces : Reissue(n)

-----------------------------------------------------------------------------
(* readLoop and handleClientPayload.  A peer's bytes may sit in the read    *)
(* buffer, so messages are still handled after the connection is closed.   *)

\* Client c's next message, of the given kind, has been read.
Message(c, kind) == /\ At(Reader(c), "read")
                    /\ kind \in Inputs
                    /\ Spend("msg")
                    /\ asked' = [asked EXCEPT ![c] = @ + 1]
                    /\ UNCHANGED cancelled
NextId(c) == <<c, asked[c] + 1>>

\* The peer hung up or sent a broken frame, or the connection was closed here.
ReadError(c) ==
    /\ At(Reader(c), "read")
    /\ \/ closed[c] /\ UNCHANGED envVars
       \/ ~closed[c] /\ Spend("hangup") /\ UNCHANGED <<cancelled, asked>>
    /\ Goto(Reader(c), "stopped")
    /\ StartRemove(Reader(c), c)
    /\ UNCHANGED <<registryVars, queueVars, configVars, echoVars, done, hub, workVars,
                   wireVars>>

\* WantConfigId: answered from the cache once it is ready.
ReadWant(c) ==
    /\ Message(c, "want")
    /\ req' = [req EXCEPT ![Reader(c)] = [client |-> c, id |-> NextId(c)]]
    /\ Goto(Reader(c), IF Ready THEN "snapshot" ELSE "drop")
    /\ UNCHANGED <<registryVars, queueVars, configVars, echoVars, done, hub, frm, todo,
                   old, snap, callVars, wireVars>>

DropOwn(c) ==
    /\ At(Reader(c), "drop")
    /\ DropPending(c)
    /\ Goto(Reader(c), "reserve")
    /\ UNCHANGED <<registryVars, queueVars, cache, issued, echoVars, done, hub, workVars,
                   callVars, wireVars, envVars>>

\* Disconnect removes the client; the radio never hears of it.
ReadDisconnect(c) ==
    /\ Message(c, "disconnect")
    /\ StartRemove(Reader(c), c)
    /\ UNCHANGED <<registryVars, queueVars, configVars, echoVars, done, hub, pc, workVars,
                   wireVars>>

MayTransmitMutant(c) == TRUE
MayTransmit(c) == primary = c \/ ~ReadOnlyClients

\* A packet, heartbeat or other message is forwarded or, from a read-only
\* client, ignored.
ReadTraffic(c, kind, msg, allowed) ==
    /\ Message(c, kind)
    /\ \/ /\ allowed
          /\ frm' = [frm EXCEPT ![Reader(c)] = msg]
          /\ Goto(Reader(c), "forward")
       \/ /\ ~allowed
          /\ UNCHANGED <<pc, frm>>
    /\ UNCHANGED <<registryVars, queueVars, configVars, echoVars, done, hub, todo, req,
                   old, snap, callVars, wireVars>>

ReadPacket(c) == \E port \in Ports :
    ReadTraffic(c, "packet",
                PktFrame([from |-> c, seq |-> asked[c] + 1, port |-> port], "echo"),
                MayTransmit(c))
ReadOther(c)  == ReadTraffic(c, "other", OtherMsg, MayTransmit(c))
\* Bytes that are no ToRadio message pass only from the primary.
ReadRaw(c)    == ReadTraffic(c, "raw", OtherMsg, primary = c)

\* noteOutboundPacket: purge what has expired, remember the packet by its id.
Note(c) ==
    /\ At(Reader(c), "note")
    /\ LET p == frm[Reader(c)].pkt IN
       \/ p.port = "anon" /\ UNCHANGED <<outbound, expired>>
       \/ /\ p.port # "anon"
          /\ outbound' = (outbound \ expired) \cup {p}
          /\ expired' = {}
    /\ Goto(Reader(c), "cast")
    /\ UNCHANGED <<registryVars, queueVars, configVars, heard, done, hub, workVars,
                   callVars, wireVars, envVars>>

\* sendCachedConfig: copy the cache, then send it slot by slot.
Snapshot(c) ==
    /\ At(Reader(c), "snapshot")
    /\ snap' = [snap EXCEPT ![c] = cache]
    /\ Goto(Reader(c), "replay")
    /\ UNCHANGED <<registryVars, queueVars, configVars, echoVars, done, hub, frm, todo,
                   req, old, callVars, wireVars, envVars>>

\* sendToClientBlocking: waits for room, or until the client or the broker is
\* done or the timeout passes, which abandons the replay.
Replay(c) ==
    /\ At(Reader(c), "replay")
    /\ \/ /\ HasRoom(c)
          /\ \/ /\ \E s \in First(snap[c]) :
                      /\ Accept(c, CfgFrame(s, snap[c][s]))
                      /\ snap' = [snap EXCEPT ![c][s] = 0]
                /\ UNCHANGED <<pc, frm, todo, req>>
             \/ /\ Held(snap[c]) = {}
                /\ Accept(c, DoneFrame(req[Reader(c)].id, "cache"))
                /\ Finish(Reader(c))
                /\ UNCHANGED snap
          /\ UNCHANGED callVars
       \/ /\ closed[c] \/ done \/ ~HasRoom(c)
          /\ DisconnectSlow(Reader(c), c)
          /\ snap' = [snap EXCEPT ![c] = NoCache]
          /\ Finish(Reader(c))
          /\ UNCHANGED out
    /\ UNCHANGED <<registryVars, taken, configVars, echoVars, done, hub, old, wireVars,
                   envVars>>

\* What a client sends, and the steps that handle it.
ClientInput(c) == \/ ReadWant(c) \/ ReadDisconnect(c) \/ ReadPacket(c) \/ ReadOther(c)
                  \/ ReadRaw(c)
ReaderStep(c) == DropOwn(c) \/ Note(c) \/ Snapshot(c) \/ Replay(c)

-----------------------------------------------------------------------------
(* writeLoop: select over broker done, client done and the next frame *)

WriterStops(c) ==
    /\ At(Writer(c), "select")
    /\ \/ done /\ StartRemove(Writer(c), c)
       \/ closed[c] /\ UNCHANGED callVars
    /\ Goto(Writer(c), "stopped")
    /\ UNCHANGED <<registryVars, queueVars, configVars, echoVars, done, hub, workVars,
                   wireVars, envVars>>

WriterTakes(c) ==
    /\ At(Writer(c), "select")
    /\ taken[c] < Len(out[c])
    /\ taken' = [taken EXCEPT ![c] = @ + 1]
    /\ Goto(Writer(c), "flush")
    /\ UNCHANGED <<registryVars, out, configVars, echoVars, done, hub, workVars, callVars,
                   wireVars, envVars>>

\* The peer accepts the bytes, which a stalled peer may never do.
WriterWrote(c) ==
    /\ At(Writer(c), "flush")
    /\ ~closed[c]
    /\ Spend("drain")
    /\ Goto(Writer(c), "select")
    /\ UNCHANGED <<registryVars, queueVars, configVars, echoVars, done, hub, workVars,
                   callVars, wireVars, cancelled, asked>>

WriterFails(c) ==
    /\ At(Writer(c), "flush")
    /\ \/ closed[c] /\ UNCHANGED envVars
       \/ ~closed[c] /\ Spend("hangup") /\ UNCHANGED <<cancelled, asked>>
    /\ StartRemove(Writer(c), c)
    /\ Goto(Writer(c), "stopped")
    /\ UNCHANGED <<registryVars, queueVars, configVars, echoVars, done, hub, workVars,
                   wireVars>>

WriterStep(c) == WriterStops(c) \/ WriterTakes(c)

-----------------------------------------------------------------------------
(* bootstrapConfig: one WantConfigId of the broker's own *)

BootStart ==
    /\ At(Boot, "start")
    /\ Goto(Boot, IF Ready THEN "stopped" ELSE "scan")
    /\ UNCHANGED <<registryVars, queueVars, configVars, echoVars, done, hub, workVars,
                   callVars, wireVars, envVars>>

BootScan ==
    /\ At(Boot, "scan")
    /\ LET mine == {n \in Nonces : pendingConfig[n].id = BootId} IN
       \/ mine # {} /\ Goto(Boot, "stopped") /\ UNCHANGED req
       \/ /\ mine = {}
          /\ req' = [req EXCEPT ![Boot] = [client |-> Nil, id |-> BootId]]
          /\ Goto(Boot, "reserve")
    /\ UNCHANGED <<registryVars, queueVars, configVars, echoVars, done, hub, frm, todo,
                   old, snap, callVars, wireVars, envVars>>

\* SendTextMessage of chat.go: refused after done, and until my_info is cached
\* (ErrNodeIDUnknown); the text checks before that change nothing.
WebSend ==
    /\ At(Web, "idle") /\ Observability
    /\ Spend("web")
    /\ \/ /\ ~done /\ Ready
          /\ frm' = [frm EXCEPT ![Web] =
                PktFrame([from |-> "web", seq |-> used["web"] + 1, port |-> "chat"], "echo")]
          /\ Goto(Web, "forward")
       \/ /\ done \/ ~Ready
          /\ UNCHANGED <<pc, frm>>
    /\ UNCHANGED <<registryVars, queueVars, configVars, echoVars, done, hub, todo, req,
                   old, snap, callVars, wireVars, cancelled, asked>>

-----------------------------------------------------------------------------
(* Run, and its callers in internal/server: the accept loop and the        *)
(* supervisor that closes everything when the session is over.             *)

\* Run's select; after fail() it returns, done being closed.
RunReturnsMutant ==
    /\ At(Runner, "select")
    /\ cancelled \/ pc[Serial] = "posted"
    /\ Goto(Runner, "returned")
    /\ UNCHANGED <<registryVars, queueVars, configVars, echoVars, done, hub, workVars, callVars,
                   wireVars, envVars>>
RunReturns ==
    /\ At(Runner, "select")
    /\ cancelled \/ pc[Serial] = "posted"
    /\ done' = TRUE
    /\ Goto(Runner, "returned")
    /\ UNCHANGED <<registryVars, queueVars, configVars, echoVars, hub, workVars, callVars,
                   wireVars, envVars>>

\* The accept loop finds this broker current (it is, until the supervisor
\* wakes) and then adds the connection to it.
AcceptConn(c) ==
    /\ At(Acceptor, "idle")
    /\ pc[Server] = "wait"
    /\ pc[Reader(c)] = "off"
    /\ todo' = [todo EXCEPT ![Acceptor] = {c}]
    /\ Goto(Acceptor, "add")
    /\ UNCHANGED <<registryVars, queueVars, configVars, echoVars, done, hub, frm, req, old,
                   snap, callVars, wireVars, envVars>>

\* The first client of an empty registry becomes primary.
NewPrimary(c) == IF primary = Nil THEN c ELSE primary

AddClient(c) ==
    /\ At(Acceptor, "add")
    /\ c \in todo[Acceptor]
    /\ clients' = clients \cup {c}
    /\ primary' = NewPrimary(c)
    /\ pc' = [pc EXCEPT ![Acceptor] = "idle", ![Reader(c)] = "read", ![Writer(c)] = "select"]
    /\ todo' = [todo EXCEPT ![Acceptor] = {}]
    /\ StartPublish(Acceptor)
    /\ UNCHANGED <<closed, queueVars, configVars, echoVars, done, hub, frm, req, old, snap,
                   wireVars, envVars>>

\* The supervisor's select: context, accept error or the end of Run.
ServerWakes ==
    /\ At(Server, "wait")
    /\ \/ (cancelled \/ pc[Runner] = "returned") /\ UNCHANGED used
       \/ At(Acceptor, "idle") /\ Spend("acceptfail")
    /\ Goto(Server, "status")
    /\ UNCHANGED <<registryVars, queueVars, configVars, echoVars, done, hub, workVars,
                   callVars, wireVars, cancelled, asked>>

ServerStatusMutant ==
    /\ At(Server, "status")
    /\ hub' = IF Observability THEN [NoStat EXCEPT !.serial = FALSE] ELSE hub
    /\ Goto(Server, "closeall")
    /\ UNCHANGED <<registryVars, queueVars, configVars, echoVars, done, workVars, callVars,
                   wireVars, envVars>>
ServerStatus ==
    /\ At(Server, "status")
    /\ hub' = IF Observability THEN [NoStat EXCEPT !.serial = FALSE] ELSE hub
    /\ Goto(Server, "list")
    /\ UNCHANGED <<registryVars, queueVars, configVars, echoVars, done, workVars, callVars,
                   wireVars, envVars>>

\* CloseAll: copy the registry and remove each client in it.
ListClients ==
    /\ At(Server, "list")
    /\ todo' = [todo EXCEPT ![Server] = clients]
    /\ Goto(Server, "closeall")
    /\ UNCHANGED <<registryVars, queueVars, configVars, echoVars, done, hub, frm, req, old,
                   snap, callVars, wireVars, envVars>>

RemoveListed(c) ==
    /\ At(Server, "closeall")
    /\ c \in todo[Server]
    /\ todo' = [todo EXCEPT ![Server] = @ \ {c}]
    /\ StartRemove(Server, c)
    /\ UNCHANGED <<registryVars, queueVars, configVars, echoVars, done, hub, pc, frm, req,
                   old, snap, wireVars, envVars>>

CloseSerial ==
    /\ At(Server, "closeall")
    /\ todo[Server] = {}
    /\ link' = "down"
    /\ Goto(Server, "stopped")
    /\ UNCHANGED <<registryVars, queueVars, configVars, echoVars, done, hub, workVars,
                   callVars, toRadio, fromRadio, radioCfg, envVars>>

ServerStep == \/ ServerStatus \/ ListClients \/ CloseSerial
              \/ \E c \in Clients : RemoveListed(c)

-----------------------------------------------------------------------------
(* The environment (external): the radio, the line and the peers *)

Dump == [i \in 1..Len(DumpOrder) |-> CfgFrame(DumpOrder[i], radioCfg[DumpOrder[i]])]

\* The radio answers a WantConfigId with a dump that ends in the nonce; a
\* packet it transmits may come back as an echo.
RadioAnswers ==
    /\ link = "up"
    /\ toRadio # <<>>
    /\ toRadio' = Tail(toRadio)
    /\ LET m == Head(toRadio) IN
       \/ m.kind = "want" /\ fromRadio' = fromRadio \o Append(Dump, Complete(m.nonce))
       \/ m.kind = "pkt" /\ fromRadio' = Append(fromRadio, PktFrame(m.pkt, "radio"))
       \/ m.kind # "want" /\ UNCHANGED fromRadio
    /\ UNCHANGED <<registryVars, queueVars, configVars, echoVars, done, hub, pc, workVars,
                   callVars, link, radioCfg, envVars>>

\* A setting changes and the radio says so.
RadioUpdates(s) ==
    /\ link = "up"
    /\ Spend("update")
    /\ radioCfg' = [radioCfg EXCEPT ![s] = @ + 1]
    /\ fromRadio' = Append(fromRadio, CfgFrame(s, radioCfg[s] + 1))
    /\ UNCHANGED <<registryVars, queueVars, configVars, echoVars, done, hub, pc, workVars,
                   callVars, link, toRadio, cancelled, asked>>

\* Mesh traffic from another node.
RadioHears ==
    /\ link = "up"
    /\ Spend("mesh")
    /\ fromRadio' = Append(fromRadio,
          PktFrame([from |-> "mesh", seq |-> used["mesh"] + 1, port |-> "rpc"], "radio"))
    /\ UNCHANGED <<registryVars, queueVars, configVars, echoVars, done, hub, pc, workVars,
                   callVars, link, toRadio, radioCfg, cancelled, asked>>

\* A reboot loses any suffix of what the radio was sending and any prefix of
\* what it had not read.
RadioReboots ==
    /\ link = "up"
    /\ Spend("reboot")
    /\ \E k \in 0..Len(fromRadio), m \in 0..Len(toRadio) :
          /\ fromRadio' = Append(SubSeq(fromRadio, 1, k), Rebooted)
          /\ toRadio' = SubSeq(toRadio, m + 1, Len(toRadio))
    /\ UNCHANGED <<registryVars, queueVars, configVars, echoVars, done, hub, pc, workVars,
                   callVars, link, radioCfg, cancelled, asked>>

LinkFails ==
    /\ link = "up"
    /\ Spend("linkfail")
    /\ link' = "down"
    /\ UNCHANGED <<registryVars, queueVars, configVars, echoVars, done, hub, pc, workVars,
                   callVars, toRadio, fromRadio, radioCfg, cancelled, asked>>

Cancel ==
    /\ ~cancelled
    /\ Spend("cancel")
    /\ cancelled' = TRUE
    /\ UNCHANGED <<registryVars, queueVars, configVars, echoVars, done, hub, pc, workVars,
                   callVars, wireVars, asked>>

\* outboundEchoSuppress passes for a remembered packet.
OutboundExpires(p) ==
    /\ p \in outbound \ expired
    /\ Spend("expire")
    /\ expired' = expired \cup {p}
    /\ UNCHANGED <<registryVars, queueVars, configVars, outbound, heard, done, hub, pc,
                   workVars, callVars, wireVars, cancelled, asked>>

-----------------------------------------------------------------------------
Init ==
    /\ clients = Early /\ primary \in IF Early = {} THEN {Nil} ELSE Early
    /\ closed = [c \in Clients |-> FALSE]
    /\ out = [c \in Clients |-> <<>>] /\ taken = [c \in Clients |-> 0]
    /\ cache = NoCache /\ pendingConfig = [n \in Nonces |-> NoReq] /\ issued = {}
    /\ outbound = {} /\ expired = {} /\ heard = {}
    /\ done = FALSE
    /\ hub = IF Observability THEN [NoStat EXCEPT !.clients = Early, !.primary = primary]
                              ELSE NoStat
    /\ pc = [t \in Threads |->
                CASE t = Serial -> "loop"
                  [] t = Runner -> "select"
                  [] t = Boot -> IF Observability THEN "start" ELSE "stopped"
                  [] t \in {Web, Acceptor} -> "idle"
                  [] t = Server -> "wait"
                  [] t \in {Reader(c) : c \in Early} -> "read"
                  [] t \in {Writer(c) : c \in Early} -> "select"
                  [] OTHER -> "off"]
    /\ frm = [t \in Threads |-> Nil] /\ todo = [t \in Threads |-> {}]
    /\ req = [t \in Threads |-> NoReq] /\ old = [n \in Nonces |-> NoReq]
    /\ snap = [c \in Clients |-> NoCache]
    /\ call = [t \in Threads |-> "none"] /\ victim = [t \in Threads |-> Nil]
    /\ removed = [t \in Threads |-> FALSE] /\ stat = [t \in Threads |-> NoStat]
    /\ link = "up" /\ toRadio = <<>> /\ fromRadio = <<>>
    /\ radioCfg = [s \in Slots |-> 1]
    /\ cancelled = FALSE /\ asked = [c \in Clients |-> 0]
    /\ used \in Spent

Next ==
    \/ \E t \in Threads : SharedStep(t)
    \/ SerialStep \/ SerialGlitch \/ BootStart \/ BootScan \/ WebSend \/ RunReturns
    \/ ServerStep \/ ServerWakes
    \/ \E c \in Clients : \/ ClientInput(c) \/ ReaderStep(c) \/ ReadError(c)
                          \/ WriterStep(c) \/ WriterWrote(c) \/ WriterFails(c)
                          \/ AcceptConn(c) \/ AddClient(c)
    \/ RadioAnswers \/ RadioHears \/ RadioReboots \/ LinkFails \/ Cancel
    \/ \E s \in Slots : RadioUpdates(s)
    \/ \E p \in outbound : OutboundExpires(p)

Spec == Init /\ [][Next]_vars

\* Goroutines are scheduled, reads and writes of a closed connection return, and
\* the radio keeps up with its input.  Nothing makes a peer send, read or hang up.
Fairness ==
    /\ \A t \in Threads : WF_vars(SharedStep(t))
    /\ WF_vars(SerialStep) /\ WF_vars(BootStart \/ BootScan) /\ WF_vars(RunReturns)
    /\ WF_vars(ServerStep)
    /\ WF_vars((cancelled \/ pc[Runner] = "returned") /\ ServerWakes)
    /\ WF_vars(RadioAnswers)
    /\ \A c \in Clients : /\ WF_vars(ReaderStep(c) \/ (closed[c] /\ ReadError(c)))
                          /\ WF_vars(WriterStep(c) \/ (closed[c] /\ WriterFails(c)))
                          /\ WF_vars(AddClient(c))

FairSpec == Spec /\ Fairness

-----------------------------------------------------------------------------
(* What this module implements *)

\* A request is open while a goroutine or one of the two tables has it.
OpenRequests ==
    {r.id : r \in {req[t] : t \in Threads} \cup {pendingConfig[n] : n \in Nonces}
                    \cup {old[n] : n \in Nonces}}
    \cup {frm[t].id : t \in {u \in Threads : frm[u] # Nil /\ frm[u].kind = "done"}}
RadioSlots == {DumpOrder[i] : i \in 1..Len(DumpOrder)}
SlotsSent(c) == {out[c][i].slot : i \in {k \in 1..Len(out[c]) : out[c][k].kind = "cfg"}}
Dones(c) == {i \in 1..Len(out[c]) : out[c][i].kind = "done"}
Answers(c) == {[at |-> i, id |-> out[c][i].id, via |-> out[c][i].via] : i \in Dones(c)}

Contract == INSTANCE Handshake WITH
    joined <- clients, open <- OpenRequests \ {NoReq.id, BootId}, Dump <- RadioSlots,
    sent <- [c \in Clients |-> Len(out[c])], known <- [c \in Clients |-> SlotsSent(c)],
    answers <- [c \in Clients |-> Answers(c)]

Outside == INSTANCE Session WITH
    Conns <- Clients, members <- clients, gone <- {c \in Clients : closed[c]},
    reader <- IF pc[Serial] \in {"posted", "stopped"} THEN pc[Serial] ELSE "reading",
    returned <- pc[Runner] = "returned", line <- link = "up"

\* The broker implements the abstract handshake: under retries, reboots, reused nonces
\* and lost answers every request is answered at most once, to its client, never after
\* it was dropped, and by the radio only after the whole dump.
ImplementsHandshake == Contract!Spec

\* The broker is a session as the supervisor expects one: done is closed for good and
\* only after the device failed or the context was cancelled, Run returns only with
\* done closed, and a connection that was closed is never registered again.
ImplementsSession == Outside!Spec

-----------------------------------------------------------------------------
(* Properties *)

Labels == {"loop", "read", "posted", "swap", "reissue", "reserve", "forward", "write",
           "cast", "send", "drop", "note", "snapshot", "replay", "start", "scan", "idle",
           "add", "select", "flush", "returned", "wait", "status", "list", "closeall", "off",
           "stopped"}
CallSteps == {"none", "unlink", "drop", "close", "publish", "look", "post"}
Statuses  == [serial : BOOLEAN, clients : SUBSET Clients, primary : Clients \cup {Nil},
              ready : BOOLEAN]

RegistryType ==
    /\ clients \subseteq Clients /\ primary \in Clients \cup {Nil}
    /\ closed \in [Clients -> BOOLEAN]
QueueType ==
    /\ out \in [Clients -> Seq(ToClient)] /\ taken \in [Clients -> Nat]
    /\ \A c \in Clients : taken[c] <= Len(out[c]) /\ Len(out[c]) <= taken[c] + SendBuffer
ConfigType ==
    /\ cache \in [Slots -> Nat] /\ issued \subseteq Nonces
    /\ pendingConfig \in [Nonces -> Requests \cup {NoReq}]
EchoType == /\ outbound \subseteq {p \in Packets : p.from \in Clients}
            /\ expired \subseteq outbound /\ heard \subseteq Packets
StatusType == done \in BOOLEAN /\ hub \in Statuses
WorkType ==
    /\ pc \in [Threads -> Labels]
    /\ frm \in [Threads -> ToClient \cup ToRadio \cup {Nil}]
    /\ todo \in [Threads -> SUBSET Clients]
    /\ req \in [Threads -> Requests \cup {NoReq}]
    /\ old \in [Nonces -> Requests \cup {NoReq}]
    /\ snap \in [Clients -> [Slots -> Nat]]
CallType ==
    /\ call \in [Threads -> CallSteps] /\ victim \in [Threads -> Clients \cup {Nil}]
    /\ removed \in [Threads -> BOOLEAN] /\ stat \in [Threads -> Statuses]
WireType ==
    /\ link \in {"up", "down"} /\ radioCfg \in [Slots -> Nat]
    /\ toRadio \in Seq(ToRadio) /\ fromRadio \in Seq(FromRadio)
EnvType == cancelled \in BOOLEAN /\ asked \in [Clients -> Nat] /\ used \in [Events -> Nat]

\* Type correctness.  Every variable of the broker and of its environment stays in
\* its type; in particular no client.send ever holds more than clientSendBuffer
\* frames and writeLoop never runs ahead of it.
TypeOK == /\ RegistryType /\ QueueType /\ ConfigType /\ EchoType /\ StatusType
          /\ WorkType /\ CallType /\ WireType /\ EnvType

\* There is a primary exactly when a client is registered, the primary is
\* registered, and a closed client never is: whichever goroutines run
\* removeClient at once, the radio keeps a responsible owner.
RegistryOK ==
    /\ IF clients = {} THEN primary = Nil ELSE primary \in clients
    /\ \A c \in Clients : closed[c] => c \notin clients

Got(c, f) == \E i \in 1..Len(out[c]) : out[c][i] = f
\* readSerial found the queue of c full and is about to remove it.
Slow(c) == call[Serial] = "unlink" /\ victim[Serial] = c

\* A WantConfigId is answered at most once, and only to the client that sent
\* it, whatever retries, reboots and late answers of the radio do.
AnsweredOnce == \A c \in Clients : \A i, j \in Dones(c) :
    /\ out[c][i].id[1] = c
    /\ out[c][i].id = out[c][j].id => i = j

\* The slots of which c was sent a frame before its i-th frame.
SentBefore(c, i) == {out[c][j].slot : j \in {k \in 1..(i - 1) : out[c][k].kind = "cfg"}}
\* When a registered client is told that the radio has completed its config,
\* every slot of the radio's dump has been queued for it before.
RadioAnswerComplete == \A c \in clients : \A i \in Dones(c) :
    out[c][i].via = "radio" => RadioSlots \subseteq SentBefore(c, i)

\* A client that has had an answer stays up to date: whichever part of the config the
\* broker caches has been queued for it in that very version, although the replay of
\* a cache snapshot, live broadcasts and joining run in goroutines of their own.  Only
\* the part being broadcast may still be on its way, and a client too slow to take it
\* may have missed one.
NoMissedUpdate == \A c \in clients, s \in Held(cache) : Dones(c) # {} =>
    \/ Got(c, CfgFrame(s, cache[s]))
    \/ frm[Serial] = CfgFrame(s, cache[s])
    \/ Slow(c)

\* The same of an answer from the cache.  (comment of configCache.ready)
CachedAnswerComplete == \A c \in clients : \A i \in Dones(c) :
    out[c][i].via = "cache" => RadioSlots \subseteq SentBefore(c, i)

\* Once the broker has read all that the radio sent, each slot it caches is the
\* radio's current one, also across reboots that cut a dump short.
CacheFollowsRadio == fromRadio = <<>> =>
    \A s \in Slots : cache[s] \in {0, radioCfg[s]}

\* A request stays in pendingConfig only while its client can still be served or
\* a goroutine is about to drop it.  (comment in handleClientPayload)
NoGhostRequests == \A n \in Nonces, c \in Clients :
    pendingConfig[n].client = c /\ closed[c]
        => pc[Reader(c)] # "stopped" \/ call[Reader(c)] \in {"unlink", "drop"}

\* A client has one request in flight at a time: a retry replaces it.
OneRequestPerClient == \A n, m \in Nonces :
    pendingConfig[n].client \in Clients /\ pendingConfig[n].client = pendingConfig[m].client
        => n = m

MeshSeqs(c) == {out[c][i].pkt.seq : i \in {k \in 1..Len(out[c]) :
                    out[c][k].kind = "pkt" /\ out[c][k].pkt.from = "mesh"}}

\* A client is disconnected rather than skipped: between the first and the last
\* mesh packet queued for it, no packet the broker has received is missing.
NoSilentLoss == \A c \in Clients : \A i, k \in MeshSeqs(c) : \A p \in heard :
    p.from = "mesh" /\ i < p.seq /\ p.seq < k => p.seq \in MeshSeqs(c)

\* The radio's echo of an admin or other RPC packet reaches the client that sent
\* it, if it is still registered, also when the echo overtakes noteOutboundPacket
\* or comes after its deadline.  It is missed only by a client that is being removed
\* because of it.
EchoReachesSender == \A p \in heard :
    p.from \in clients /\ p.port # "chat" =>
        \/ Got(p.from, PktFrame(p, "radio"))
        \/ frm[Serial] = PktFrame(p, "radio")
        \/ Slow(p.from)

\* With READ_ONLY_CLIENTS, no packet of a registered client other than the primary
\* is ever on its way to the radio.  (README: only the primary may transmit)
ReadOnlyRespected == ReadOnlyClients =>
    \A i \in 1..Len(toRadio) : toRadio[i].kind = "pkt" =>
        toRadio[i].pkt.from \notin clients \ {primary}

\* The status shown by the web UI names a primary exactly when it counts a client,
\* and the primary it names is one of those counted.
StatusConsistent == IF hub.clients = {} THEN hub.primary = Nil ELSE hub.primary \in hub.clients

Asks(c, k) == req[Reader(c)].id = <<c, k>>

\* Every WantConfigId is answered unless the client goes away, the session ends
\* or the client asks again: lost dumps and reboots included.
WantAnswered == \A c \in Clients, k \in 1..Budget["msg"] :
    Asks(c, k) ~> \/ \E via \in {"radio", "cache"} : Got(c, DoneFrame(<<c, k>>, via))
                  \/ closed[c] \/ done
                  \/ \E j \in (k + 1)..Budget["msg"] : Asks(c, j)

\* When the session is over, every client still registered is disconnected,
\* also one whose peer has stopped reading.
ShutdownClosesClients == \A c \in Clients :
    pc[Server] = "wait" /\ (cancelled \/ pc[Runner] = "returned") /\ c \in clients
        ~> closed[c]

\* The bootstrap request fills the cache without any TCP client, also when the
\* radio reboots in the middle of the dump.
BootstrapFillsCache == Observability => <>(Ready \/ done)

\* Once the broker has failed, Run returns and the supervisor can reconnect.
\* (README, "Reconnect resilience"; comments of readSerial)
FailureEndsRun == done ~> pc[Runner] = "returned"
=============================================================================
