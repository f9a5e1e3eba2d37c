------------------------------ MODULE Sessions ------------------------------
(***************************************************************************)
(* The supervisor of internal/server, the accept loop beside it, and what  *)
(* reaches a session from outside: TCP connections, and HTTP handlers of   *)
(* the web UI that find the session through the hub's radio provider and   *)
(* fetch canned messages from it.  A session is one broker on one opened   *)
(* serial device; module Broker has its inside, here it is reduced to its  *)
(* clients, its done channel, readSerial and the result of Run.            *)
(***************************************************************************)
EXTENDS Naturals, Sequences, FiniteSets

CONSTANTS
    Conns,          \* TCP connections, each made at most once
    Fetches,        \* canned-message requests of the web UI; also their packet ids
    Nil,            \* no connection, no fetch
    MaxSessions,    \* bound: how often the device is opened
    MaxRapidFails,  \* maxRapidFails
    ReconnectDelay, \* TRUE when cfg.ReconnectDelay > 0
    MaxEvents       \* bound: how many events the environment causes

ASSUME SessionsAssumptions ==
    /\ Nil \notin Conns \cup Fetches
    /\ MaxSessions \in Nat \ {0}
    /\ MaxRapidFails \in Nat \ {0}
    /\ ReconnectDelay \in BOOLEAN
    /\ MaxEvents \in Nat

SessionIds == 1..MaxSessions    \* 0 is no session

VARIABLES
    spc,        \* where the supervisor is
    err,        \* brokerErr, and at the end how Run returned
    rapid,      \* rapidFailCount
    outcomes,   \* ghost: how each attempt to hold a session went
    opened,     \* number of the latest session
    current,    \* the broker the accept loop and the provider see
    provider,   \* hub.radioProvider is set
    shown,      \* Status.SerialConnected in the hub
    todo,       \* clients CloseAll still has to remove
    apc,        \* where the accept loop is
    conn,       \* the connection it has accepted
    active,     \* the broker it has picked for it
    acceptErr,  \* acceptErrCh is full
    members,    \* members[s]: registered clients of session s
    home,       \* home[c]: the session c was added to
    cpc,        \* where the goroutines of connection c are
    shut,       \* connections that have been closed
    done,       \* done[s]: Broker.done is closed
    runErr,     \* runErr[s]: what Run has put on serialErrCh
    rpc,        \* where readSerial of session s is
    link,       \* link[s]: the opened device (external)
    fpc,        \* where the handler of a fetch is
    radio,      \* radio[f]: the session the provider returned to it
    waiters,    \* waiters[s]: Broker.cannedWaiters, as packet ids
    mailbox,    \* mailbox[f]: the buffered channel of f's waiter
    reply,      \* reply[f]: what the handler answers
    wire,       \* requests the radio has received (external)
    answer,     \* answer[s]: the packet readSerial is delivering
    answered,   \* ghost: the answers the radio has given
    canned,     \* canned[s]: Broker.cannedCache
    held,       \* sessions whose descriptor of the device is open; 0: one being set up
    present,    \* the device file exists (external)
    cancelled,  \* the process context is done
    crashed,    \* a goroutine outside net/http has panicked
    used        \* how many events the environment has caused

superVars   == <<spc, err, rapid, outcomes, opened, current, provider, todo>>
acceptVars  == <<apc, conn, active, acceptErr>>
clientVars  == <<members, home, cpc, shut>>
sessionVars == <<done, runErr, rpc, link, held>>
fetchVars   == <<fpc, radio, waiters, mailbox, reply>>
cannedVars  == <<wire, answer, answered, canned>>
envVars     == <<present, cancelled, crashed, used>>
vars == <<superVars, shown, acceptVars, clientVars, sessionVars, fetchVars, cannedVars, envVars>>

\* An event of the environment: a connection, a packet, a page, an answer of the
\* radio, a failure, a signal, time passing.
Event == used < MaxEvents /\ used' = used + 1
\* After Run has returned main exits, and a panic ends the process too.
Alive == spc # "returned" /\ ~crashed

\* The provider converts a nil *broker.Broker to a Radio: the interface is not nil
\* and the first method that is called on it panics.
NilRadio == provider /\ current = 0

-----------------------------------------------------------------------------
(* The supervisor: one session after the other *)

Return(result) == spc' = "returned" /\ err' = result
Pause == IF ReconnectDelay THEN "sleep" ELSE "wait"

DeviceFound ==
    /\ spc = "wait" /\ present
    /\ spc' = "open"
    /\ UNCHANGED <<err, rapid, outcomes, opened, current, provider, todo, shown, acceptVars,
                   clientVars, sessionVars, fetchVars, cannedVars, envVars>>

DeviceAbandoned ==
    /\ spc = "wait" /\ ~present /\ cancelled
    /\ Return("cancel")
    /\ UNCHANGED <<rapid, outcomes, opened, current, provider, todo, shown, acceptVars,
                   clientVars, sessionVars, fetchVars, cannedVars, envVars>>

\* One more rapid failure; the last one that is allowed ends the program.
CountFailure ==
    /\ rapid' = rapid + 1
    /\ outcomes' = Append(outcomes, "fail")
    /\ IF rapid + 1 >= MaxRapidFails THEN Return("toomany") ELSE spc' = Pause /\ UNCHANGED err

\* waitForDevice only looks whether the file exists: it may be gone again, or the
\* device busy.  (DisableHUPCL before it uses a descriptor of its own, closes it, and
\* its failure is only logged.)
OpenFailsMutant ==       \* a failed open is not counted
    /\ spc = "open" /\ ~present
    /\ outcomes' = Append(outcomes, "fail")
    /\ spc' = Pause
    /\ UNCHANGED <<err, rapid, opened, current, provider, todo, shown, acceptVars, clientVars,
                   sessionVars, fetchVars, cannedVars, envVars>>
OpenFails ==
    /\ spc = "open"
    /\ \/ ~present /\ UNCHANGED used
       \/ present /\ Event
    /\ CountFailure
    /\ UNCHANGED <<opened, current, provider, todo, shown, acceptVars, clientVars,
                   sessionVars, fetchVars, cannedVars, present, cancelled, crashed>>

\* serial.Open has a descriptor and goes on to set the line up.
OpenDevice ==
    /\ spc = "open" /\ present /\ opened < MaxSessions
    /\ held' = held \cup {0}
    /\ spc' = "setup"
    /\ UNCHANGED <<err, rapid, outcomes, opened, current, provider, todo, shown, acceptVars,
                   clientVars, done, runErr, rpc, link, fetchVars, cannedVars, envVars>>

\* Any of its steps may fail, for a baud rate it does not know or a device that has
\* just been pulled out; each of them closes the descriptor.
SetupFailsMutant ==      \* the descriptor stays open
    /\ spc = "setup"
    /\ \/ ~present /\ UNCHANGED used
       \/ present /\ Event
    /\ CountFailure
    /\ UNCHANGED <<opened, current, provider, todo, shown, acceptVars, clientVars,
                   sessionVars, fetchVars, cannedVars, present, cancelled, crashed>>
SetupFails ==
    /\ spc = "setup"
    /\ \/ ~present /\ UNCHANGED used
       \/ present /\ Event
    /\ held' = held \ {0}
    /\ CountFailure
    /\ UNCHANGED <<opened, current, provider, todo, shown, acceptVars, clientVars, done, runErr,
                   rpc, link, fetchVars, cannedVars, present, cancelled, crashed>>

\* The session begins: its broker is made and the provider set.
OpenWorks ==
    /\ spc = "setup" /\ present
    /\ opened' = opened + 1
    /\ held' = (held \ {0}) \cup {opened + 1}
    /\ link' = [link EXCEPT ![opened + 1] = "up"]
    /\ provider' = TRUE
    /\ spc' = "announce"
    /\ UNCHANGED <<err, rapid, outcomes, current, todo, shown, acceptVars, clientVars, done,
                   runErr, rpc, fetchVars, cannedVars, envVars>>

\* SetStatus and the new broker's PublishStatus say the same.
Announce ==
    /\ spc = "announce"
    /\ shown' = TRUE
    /\ spc' = "install"
    /\ UNCHANGED <<err, rapid, outcomes, opened, current, provider, todo, acceptVars,
                   clientVars, sessionVars, fetchVars, cannedVars, envVars>>

\* current = b, and Run starts readSerial.
Install ==
    /\ spc = "install"
    /\ current' = opened
    /\ rpc' = [rpc EXCEPT ![opened] = "read"]
    /\ spc' = "serve"
    /\ UNCHANGED <<err, rapid, outcomes, opened, provider, todo, shown, acceptVars, clientVars,
                   done, runErr, link, held, fetchVars, cannedVars, envVars>>

\* The select of the supervisor.
SessionEnds ==
    /\ spc = "serve"
    /\ \/ cancelled /\ err' = "cancel" /\ UNCHANGED acceptErr
       \/ acceptErr /\ err' = "accept" /\ acceptErr' = FALSE
       \/ runErr[opened] # "none" /\ err' = runErr[opened] /\ UNCHANGED acceptErr
    /\ spc' = "unset"
    /\ UNCHANGED <<rapid, outcomes, opened, current, provider, todo, shown, apc, conn, active,
                   clientVars, sessionVars, fetchVars, cannedVars, envVars>>

UnsetCurrentMutant ==    \* the status is cleared before current
    /\ spc = "unset"
    /\ shown' = FALSE
    /\ spc' = "status"
    /\ UNCHANGED <<err, rapid, outcomes, opened, current, provider, todo, acceptVars,
                   clientVars, sessionVars, fetchVars, cannedVars, envVars>>
UnsetCurrent ==
    /\ spc = "unset"
    /\ current' = 0
    /\ spc' = "status"
    /\ UNCHANGED <<err, rapid, outcomes, opened, provider, todo, shown, acceptVars, clientVars,
                   sessionVars, fetchVars, cannedVars, envVars>>

ShowDisconnected ==
    /\ spc = "status"
    /\ shown' = FALSE
    /\ spc' = "list"
    /\ UNCHANGED <<err, rapid, outcomes, opened, current, provider, todo, acceptVars,
                   clientVars, sessionVars, fetchVars, cannedVars, envVars>>

\* CloseAll: a snapshot of the clients, then removeClient for each.
ListClients ==
    /\ spc = "list"
    /\ todo' = members[opened]
    /\ spc' = "closeall"
    /\ UNCHANGED <<err, rapid, outcomes, opened, current, provider, shown, acceptVars,
                   clientVars, sessionVars, fetchVars, cannedVars, envVars>>

\* removeClient
Unregister(c) == members' = [members EXCEPT ![home[c]] = @ \ {c}]
Registered(c) == c \in members[home[c]]

CloseNextMutant(c) ==    \* the connection is not closed
    /\ spc = "closeall" /\ c \in todo
    /\ Unregister(c)
    /\ todo' = todo \ {c}
    /\ spc' = IF Registered(c) THEN "publish" ELSE "closeall"
    /\ UNCHANGED <<err, rapid, outcomes, opened, current, provider, shown, acceptVars, home,
                   shut, cpc, sessionVars, fetchVars, cannedVars, envVars>>
CloseNext(c) ==
    /\ spc = "closeall" /\ c \in todo
    /\ Unregister(c)
    /\ shut' = shut \cup {c}
    /\ todo' = todo \ {c}
    /\ spc' = IF Registered(c) THEN "publish" ELSE "closeall"
    /\ UNCHANGED <<err, rapid, outcomes, opened, current, provider, shown, acceptVars, home,
                   cpc, sessionVars, fetchVars, cannedVars, envVars>>

\* PublishStatus always says that the serial link is connected.
ClosePublish ==
    /\ spc = "publish"
    /\ shown' = TRUE
    /\ spc' = "closeall"
    /\ UNCHANGED <<err, rapid, outcomes, opened, current, provider, todo, acceptVars,
                   clientVars, sessionVars, fetchVars, cannedVars, envVars>>

\* Close marks the file closed; the descriptor goes with it, unless readSerial is in
\* a read, which on a blocking file keeps it until it returns.
CloseSerial ==
    /\ spc = "closeall" /\ todo = {}
    /\ link' = [link EXCEPT ![opened] = "closed"]
    /\ \/ held' = held \ {opened}
       \/ rpc[opened] = "read" /\ UNCHANGED held
    /\ spc' = "judge"
    /\ UNCHANGED <<err, rapid, outcomes, opened, current, provider, todo, shown, acceptVars,
                   clientVars, done, runErr, rpc, fetchVars, cannedVars, envVars>>

\* A session may have been shorter than minRuntime or not.
Judge ==
    /\ spc = "judge"
    /\ \/ err = "cancel" /\ Return("nil") /\ UNCHANGED <<rapid, outcomes>>
       \/ err # "cancel" /\ CountFailure
       \/ /\ err # "cancel"
          /\ rapid' = 0
          /\ outcomes' = Append(outcomes, "ok")
          /\ spc' = Pause
          /\ UNCHANGED err
    /\ UNCHANGED <<opened, current, provider, todo, shown, acceptVars, clientVars, sessionVars,
                   fetchVars, cannedVars, envVars>>

SleepEnds ==
    /\ spc = "sleep"
    /\ \/ spc' = "wait" /\ UNCHANGED err
       \/ cancelled /\ Return("nil")
    /\ UNCHANGED <<rapid, outcomes, opened, current, provider, todo, shown, acceptVars,
                   clientVars, sessionVars, fetchVars, cannedVars, envVars>>

-----------------------------------------------------------------------------
(* The accept loop *)

Accept(c) ==
    /\ apc = "accept" /\ home[c] = 0 /\ c \notin shut
    /\ Event
    /\ conn' = c
    /\ apc' = "pick"
    /\ UNCHANGED <<superVars, shown, active, acceptErr, clientVars, sessionVars, fetchVars,
                   cannedVars, present, cancelled, crashed>>

\* Any other error is final; a deadline that passes is not, unless the context is done.
AcceptStops ==
    /\ apc = "accept"
    /\ \/ Event /\ acceptErr' = TRUE
       \/ cancelled /\ UNCHANGED <<acceptErr, used>>
    /\ apc' = "stopped"
    /\ UNCHANGED <<superVars, shown, conn, active, clientVars, sessionVars, fetchVars,
                   cannedVars, present, cancelled, crashed>>

\* Read current; without a session the connection is refused.
PickBrokerMutant ==      \* the nil check is dropped
    /\ apc = "pick"
    /\ active' = current
    /\ apc' = "add"
    /\ UNCHANGED <<superVars, shown, conn, acceptErr, clientVars, sessionVars, fetchVars,
                   cannedVars, envVars>>
PickBroker ==
    /\ apc = "pick"
    /\ active' = current
    /\ apc' = IF current = 0 THEN "accept" ELSE "add"
    /\ shut' = IF current = 0 THEN shut \cup {conn} ELSE shut
    /\ UNCHANGED <<superVars, shown, conn, acceptErr, members, home, cpc, sessionVars,
                   fetchVars, cannedVars, envVars>>

\* AddClient does not look whether its broker is still alive.
AddClient ==
    /\ apc = "add"
    /\ members' = [members EXCEPT ![active] = @ \cup {conn}]
    /\ home' = [home EXCEPT ![conn] = active]
    /\ cpc' = [cpc EXCEPT ![conn] = "run"]
    /\ apc' = "publish"
    /\ UNCHANGED <<superVars, shown, conn, active, acceptErr, shut, sessionVars, fetchVars,
                   cannedVars, envVars>>

AcceptPublish ==
    /\ apc = "publish"
    /\ shown' = TRUE
    /\ apc' = "accept"
    /\ UNCHANGED <<superVars, conn, active, acceptErr, clientVars, sessionVars, fetchVars,
                   cannedVars, envVars>>

-----------------------------------------------------------------------------
(* The goroutines of a client *)

\* removeClient, called by the client's reader or writer.
Leave(c) ==
    /\ cpc[c] = "run"
    /\ Unregister(c)
    /\ shut' = shut \cup {c}
    /\ cpc' = [cpc EXCEPT ![c] = IF Registered(c) THEN "publish" ELSE "ended"]
    /\ UNCHANGED <<superVars, shown, acceptVars, home, sessionVars, fetchVars, cannedVars,
                   present, cancelled, crashed>>

\* The peer hangs up.
ClientGone(c) == Event /\ Leave(c)
\* writeLoop sees the broker or the client done.
WriterSees(c) == done[home[c]] \/ c \in shut
ClientStops(c) == home[c] # 0 /\ WriterSees(c) /\ Leave(c) /\ UNCHANGED used

LeavePublish(c) ==
    /\ cpc[c] = "publish"
    /\ shown' = TRUE
    /\ cpc' = [cpc EXCEPT ![c] = "ended"]
    /\ UNCHANGED <<superVars, acceptVars, members, home, shut, sessionVars, fetchVars,
                   cannedVars, envVars>>

\* A packet of the client is shown to the hub, which asks the radio for its node
\* number, and written to the device; a failed write fails the broker.
ClientPacket(c) ==
    /\ cpc[c] = "run"
    /\ Event
    /\ crashed' = NilRadio
    /\ done' = [done EXCEPT ![home[c]] = @ \/ (~NilRadio /\ link[home[c]] # "up")]
    /\ UNCHANGED <<superVars, shown, acceptVars, clientVars, runErr, rpc, link, held, fetchVars,
                   cannedVars, present, cancelled>>

-----------------------------------------------------------------------------
(* Run and readSerial of session s *)

\* A closed file's descriptor is released when the read that kept it returns.
Release(s) == held' = IF link[s] = "closed" THEN held \ {s} ELSE held

\* readSerial returns silently when it finds done closed at the top of its loop.
ReaderStops(s) ==
    /\ rpc[s] = "read" /\ done[s]
    /\ rpc' = [rpc EXCEPT ![s] = "stopped"]
    /\ Release(s)
    /\ UNCHANGED <<superVars, shown, acceptVars, clientVars, done, runErr, link, fetchVars,
                   cannedVars, envVars>>

ReaderFails(s) ==
    /\ rpc[s] = "read" /\ link[s] # "up"
    /\ rpc' = [rpc EXCEPT ![s] = "posted"]
    /\ Release(s)
    /\ UNCHANGED <<superVars, shown, acceptVars, clientVars, done, runErr, link, fetchVars,
                   cannedVars, envVars>>

\* Run fails the broker and returns the first error given to fail.
RunEndsMutant(s) ==      \* Run returns without fail
    /\ runErr[s] = "none" /\ rpc[s] = "posted"
    /\ runErr' = [runErr EXCEPT ![s] = "closed"]
    /\ UNCHANGED <<superVars, shown, acceptVars, clientVars, done, rpc, link, held, fetchVars,
                   cannedVars, envVars>>
RunEnds(s) ==
    /\ runErr[s] = "none" /\ rpc[s] # "off"
    /\ \E e \in {"cancel", "closed"} :
          /\ e = "cancel" => cancelled
          /\ e = "closed" => rpc[s] = "posted"
          /\ runErr' = [runErr EXCEPT ![s] = IF done[s] THEN "closed" ELSE e]
    /\ done' = [done EXCEPT ![s] = TRUE]
    /\ UNCHANGED <<superVars, shown, acceptVars, clientVars, rpc, link, held, fetchVars, cannedVars,
                   envVars>>

-----------------------------------------------------------------------------
(* Hub.FetchCanned and Broker.FetchCannedMessages, in an HTTP handler *)

\* The handler answers r; net/http recovers a panic of its handlers.
Answer(f, r) == fpc' = [fpc EXCEPT ![f] = "back"] /\ reply' = [reply EXCEPT ![f] = r]

FetchRadio(f) ==
    /\ fpc[f] = "idle"
    /\ Event
    /\ radio' = [radio EXCEPT ![f] = current]
    /\ \/ ~provider /\ Answer(f, "error")
       \/ NilRadio /\ Answer(f, "panic")
       \/ ~NilRadio /\ provider /\ fpc' = [fpc EXCEPT ![f] = "cached"] /\ UNCHANGED reply
    /\ UNCHANGED <<superVars, shown, acceptVars, clientVars, sessionVars, waiters, mailbox,
                   cannedVars, present, cancelled, crashed>>

\* cachedCanned; a cache older than two minutes is dropped.
FetchCached(f) ==
    /\ fpc[f] = "cached"
    /\ \/ canned[radio[f]] = "fresh" /\ Answer(f, "list") /\ UNCHANGED canned
       \/ /\ canned[radio[f]] # "fresh"
          /\ canned' = [canned EXCEPT ![radio[f]] = "none"]
          /\ fpc' = [fpc EXCEPT ![f] = "check"]
          /\ UNCHANGED reply
    /\ UNCHANGED <<superVars, shown, acceptVars, clientVars, sessionVars, radio, waiters,
                   mailbox, wire, answer, answered, envVars>>

\* The broker must be alive and the node number known, which it may not be yet;
\* then registerCannedWait.
FetchRegister(f) ==
    /\ fpc[f] = "check"
    /\ \/ Answer(f, "error") /\ UNCHANGED waiters
       \/ /\ ~done[radio[f]]
          /\ waiters' = [waiters EXCEPT ![radio[f]] = @ \cup {f}]
          /\ fpc' = [fpc EXCEPT ![f] = "forward"]
          /\ UNCHANGED reply
    /\ UNCHANGED <<superVars, shown, acceptVars, clientVars, sessionVars, radio, mailbox,
                   cannedVars, envVars>>

\* Every way out of FetchCannedMessages from here on runs unregisterCannedWait.
GiveBack(f, r) == fpc' = [fpc EXCEPT ![f] = "leave"] /\ reply' = [reply EXCEPT ![f] = r]

\* writeSerial shows the request to the hub before it writes it.
FetchForward(f) ==
    /\ fpc[f] = "forward"
    /\ LET s == radio[f] IN
       \/ done[s] /\ GiveBack(f, "error") /\ UNCHANGED wire
       \/ ~done[s] /\ NilRadio /\ GiveBack(f, "panic") /\ UNCHANGED wire
       \/ ~done[s] /\ ~NilRadio /\ link[s] # "up" /\ GiveBack(f, "error") /\ UNCHANGED wire
       \/ /\ ~done[s] /\ ~NilRadio /\ link[s] = "up"
          /\ wire' = wire \cup {<<s, f>>}
          /\ fpc' = [fpc EXCEPT ![f] = "wait"]
          /\ UNCHANGED reply
    /\ UNCHANGED <<superVars, shown, acceptVars, clientVars, sessionVars, radio, waiters,
                   mailbox, answer, answered, canned, envVars>>

\* The select on the answer, the broker's end, the timer and the page's context.
FetchAnswered(f) ==
    /\ fpc[f] = "wait" /\ mailbox[f] # "none"
    /\ GiveBack(f, IF mailbox[f] = "list" THEN "list" ELSE "error")
    /\ UNCHANGED <<superVars, shown, acceptVars, clientVars, sessionVars, radio, waiters,
                   mailbox, cannedVars, envVars>>

FetchTimeout(f) ==
    /\ fpc[f] = "wait"
    /\ GiveBack(f, "error")
    /\ UNCHANGED <<superVars, shown, acceptVars, clientVars, sessionVars, radio, waiters,
                   mailbox, cannedVars, envVars>>

UnregisterWaitMutant(f) ==   \* the waiter stays
    /\ fpc[f] = "leave"
    /\ fpc' = [fpc EXCEPT ![f] = "back"]
    /\ UNCHANGED <<superVars, shown, acceptVars, clientVars, sessionVars, radio, waiters, mailbox,
                   reply, cannedVars, envVars>>
UnregisterWait(f) ==
    /\ fpc[f] = "leave"
    /\ waiters' = [waiters EXCEPT ![radio[f]] = @ \ {f}]
    /\ fpc' = [fpc EXCEPT ![f] = "back"]
    /\ UNCHANGED <<superVars, shown, acceptVars, clientVars, sessionVars, radio, mailbox, reply,
                   cannedVars, envVars>>

-----------------------------------------------------------------------------
(* tryDeliverCanned, in readSerial *)

\* The radio answers a request, perhaps not for the first time; readSerial shows
\* the packet to the hub first.
RadioAnswers(s, f, kind) ==
    /\ <<s, f>> \in wire /\ link[s] = "up" /\ rpc[s] = "read"
    /\ Event
    /\ crashed' = NilRadio
    /\ answered' = answered \cup {<<s, f, kind>>}
    /\ answer' = [answer EXCEPT ![s] = [id |-> f, kind |-> kind]]
    /\ rpc' = [rpc EXCEPT ![s] = "lookup"]
    /\ UNCHANGED <<superVars, shown, acceptVars, clientVars, done, runErr, link, held, fetchVars,
                   wire, canned, present, cancelled>>

\* Who waits for the packet; nobody: it is broadcast like any other.
WaitingMutant(s) == waiters[s]
Waiting(s) == waiters[s] \cap {answer[s].id}

LookupWaiter(s) ==
    /\ rpc[s] = "lookup"
    /\ \/ Waiting(s) = {} /\ rpc' = [rpc EXCEPT ![s] = "read"] /\ UNCHANGED answer
       \/ \E f \in Waiting(s) :
             /\ answer' = [answer EXCEPT ![s].id = f]
             /\ rpc' = [rpc EXCEPT ![s] = "deliver"]
    /\ UNCHANGED <<superVars, shown, acceptVars, clientVars, done, runErr, link, held, fetchVars,
                   wire, answered, canned, envVars>>

\* A second answer finds the channel full and is dropped.
DeliverCanned(s) ==
    /\ rpc[s] = "deliver"
    /\ mailbox' = [mailbox EXCEPT ![answer[s].id] = IF @ = "none" THEN answer[s].kind ELSE @]
    /\ rpc' = [rpc EXCEPT ![s] = "store"]
    /\ UNCHANGED <<superVars, shown, acceptVars, clientVars, done, runErr, link, held, fpc, radio,
                   waiters, reply, cannedVars, envVars>>

\* An empty list leaves the cache empty.
StoreCanned(s) ==
    /\ rpc[s] = "store"
    /\ canned' = [canned EXCEPT ![s] = IF answer[s].kind = "list" THEN "fresh" ELSE "none"]
    /\ rpc' = [rpc EXCEPT ![s] = "read"]
    /\ UNCHANGED <<superVars, shown, acceptVars, clientVars, done, runErr, link, held, fetchVars,
                   wire, answer, answered, envVars>>

-----------------------------------------------------------------------------
(* The environment *)

CacheAges(s) ==
    /\ canned[s] = "fresh"
    /\ Event
    /\ canned' = [canned EXCEPT ![s] = "stale"]
    /\ UNCHANGED <<superVars, shown, acceptVars, clientVars, sessionVars, fetchVars, wire,
                   answer, answered, present, cancelled, crashed>>

\* The device goes away, if only for the moment of a USB reset.
Unplug ==
    /\ present
    /\ Event
    /\ present' = FALSE
    /\ link' = [s \in SessionIds |-> IF link[s] = "up" THEN "lost" ELSE link[s]]
    /\ UNCHANGED <<superVars, shown, acceptVars, clientVars, done, runErr, rpc, held, fetchVars,
                   cannedVars, cancelled, crashed>>

Plug ==
    /\ ~present
    /\ present' = TRUE
    /\ UNCHANGED <<superVars, shown, acceptVars, clientVars, sessionVars, fetchVars, cannedVars,
                   cancelled, crashed, used>>

Cancel ==
    /\ ~cancelled
    /\ Event
    /\ cancelled' = TRUE
    /\ UNCHANGED <<superVars, shown, acceptVars, clientVars, sessionVars, fetchVars, cannedVars,
                   present, crashed>>

-----------------------------------------------------------------------------
Init ==
    /\ spc = "wait" /\ err = "none" /\ rapid = 0 /\ outcomes = <<>> /\ opened = 0
    /\ current = 0 /\ provider = FALSE /\ todo = {} /\ shown = FALSE
    /\ apc = "accept" /\ conn = Nil /\ active = 0 /\ acceptErr = FALSE
    /\ members = [s \in SessionIds |-> {}] /\ home = [c \in Conns |-> 0]
    /\ cpc = [c \in Conns |-> "off"] /\ shut = {}
    /\ done = [s \in SessionIds |-> FALSE] /\ runErr = [s \in SessionIds |-> "none"]
    /\ rpc = [s \in SessionIds |-> "off"] /\ link = [s \in SessionIds |-> "closed"]
    /\ fpc = [f \in Fetches |-> "idle"] /\ radio = [f \in Fetches |-> 0]
    /\ waiters = [s \in SessionIds |-> {}] /\ mailbox = [f \in Fetches |-> "none"]
    /\ reply = [f \in Fetches |-> "none"]
    /\ wire = {} /\ answered = {} /\ canned = [s \in SessionIds |-> "none"]
    /\ answer = [s \in SessionIds |-> [id |-> Nil, kind |-> "empty"]]
    /\ held = {} /\ present = TRUE /\ cancelled = FALSE /\ crashed = FALSE
    /\ used = 0

Supervise == DeviceFound \/ DeviceAbandoned \/ OpenFails \/ OpenDevice
                \/ SetupFails \/ OpenWorks \/ Announce \/ Install
                \/ SessionEnds \/ UnsetCurrent \/ ShowDisconnected \/ ListClients
                \/ (\E c \in todo : CloseNext(c)) \/ ClosePublish \/ CloseSerial \/ Judge
                \/ SleepEnds
AddConn   == PickBroker \/ AddClient \/ AcceptPublish
Client(c) == ClientStops(c) \/ LeavePublish(c)
Deliver(s) == LookupWaiter(s) \/ DeliverCanned(s) \/ StoreCanned(s)
Fetch(f) == FetchCached(f) \/ FetchRegister(f) \/ FetchForward(f)
                \/ FetchAnswered(f) \/ FetchTimeout(f) \/ UnregisterWait(f)

Next == Alive /\
    \/ Supervise \/ AddConn \/ AcceptStops
    \/ \E c \in Conns : Accept(c) \/ Client(c) \/ ClientGone(c) \/ ClientPacket(c)
    \/ \E s \in SessionIds : \/ ReaderStops(s) \/ ReaderFails(s) \/ RunEnds(s) \/ Deliver(s)
                             \/ CacheAges(s)
                             \/ \E f \in Fetches, kind \in {"list", "empty"} :
                                   RadioAnswers(s, f, kind)
    \/ \E f \in Fetches : FetchRadio(f) \/ Fetch(f)
    \/ Unplug \/ Plug \/ Cancel

Spec == Init /\ [][Next]_vars

-----------------------------------------------------------------------------
(* What this module implements: every session keeps the contract that      *)
(* module Broker, with the inside of one, implements too.                  *)

Reader(s) == IF rpc[s] \in {"read", "lookup", "deliver", "store"} THEN "reading" ELSE rpc[s]

S(s) == INSTANCE Session WITH
            members <- members[s], gone <- {c \in shut : home[c] = s}, done <- done[s],
            reader <- Reader(s), returned <- runErr[s] # "none", line <- link[s] = "up",
            cancelled <- cancelled

\* Every session, also one that has ended while connections and handlers still hold
\* on to it, behaves as Session says: Run does not return without closing done, what
\* is closed is not a member and does not come back, and only a reader's error or the
\* context ends Run.
EachSession ==
    /\ \A s \in SessionIds : S(s)!Init
    /\ [][\A s \in SessionIds : [S(s)!Next]_(S(s)!vars)]_vars

-----------------------------------------------------------------------------
(* Properties *)

Serving == {"announce", "install", "serve"}
Waits   == {"forward", "wait", "leave"}

\* Type correctness.  The accept loop, the supervisor and the handlers only ever
\* index sessions that were opened, and current is the latest of them or none.
SessionsTypeOK ==
    /\ opened \in 0..MaxSessions /\ current \in {0, opened}
    /\ rapid \in 0..MaxRapidFails /\ outcomes \in Seq({"ok", "fail"})
    /\ err \in {"none", "nil", "cancel", "accept", "closed", "toomany"}
    /\ provider \in BOOLEAN /\ shown \in BOOLEAN /\ acceptErr \in BOOLEAN
    /\ todo \subseteq Conns /\ conn \in Conns \cup {Nil} /\ shut \subseteq Conns
    /\ active \in 0..opened /\ (apc = "add" => active # 0)
    /\ home \in [Conns -> 0..opened] /\ members \in [SessionIds -> SUBSET Conns]
    /\ \A c \in Conns : /\ cpc[c] \in {"off", "run", "publish", "ended"}
                       /\ cpc[c] = "off" <=> home[c] = 0
    /\ radio \in [Fetches -> 0..opened] /\ waiters \in [SessionIds -> SUBSET Fetches]
    /\ mailbox \in [Fetches -> {"none", "list", "empty"}]
    /\ reply \in [Fetches -> {"none", "list", "error", "panic"}]
    /\ canned \in [SessionIds -> {"none", "fresh", "stale"}]
    /\ held \subseteq 0..opened /\ done \in [SessionIds -> BOOLEAN]
    /\ runErr \in [SessionIds -> {"none", "cancel", "closed"}]

\* The web UI never shows a disconnected radio while the provider hands one out:
\* a session is announced before it is installed and taken out of current before
\* the status is cleared, whatever clients and late publishers do in between.
ShownWhileInstalled == current # 0 => shown

LastFailed(n) == Len(outcomes) >= n /\ \A i \in 1..n : outcomes[Len(outcomes) + 1 - i] = "fail"

\* Run gives up exactly when the last maxRapidFails attempts, failed opens and short
\* sessions alike, had no session of minRuntime among them.
GivesUpInTime == err = "toomany" <=> LastFailed(MaxRapidFails)

\* Every canned-message waiter belongs to a handler that will still unregister it,
\* in the session it has asked, also when timeouts, late answers and the end of the
\* session meet.
WaitersOwned == \A s \in SessionIds : \A f \in waiters[s] : radio[f] = s /\ fpc[f] \in Waits

\* What a waiter receives is an answer to its own request, and a page is given a
\* list only if the radio of the session it asked has sent a list in that session:
\* neither another waiter's answer nor the cache of an earlier session.
CannedAnswerReal == \A f \in Fetches :
    /\ mailbox[f] # "none" => <<radio[f], f, mailbox[f]>> \in answered
    /\ reply[f] = "list" => \E g \in Fetches : <<radio[f], g, "list">> \in answered

\* No descriptor of the device is left behind by failed attempts and ended sessions,
\* however often they follow each other: one is open only while it is being set up,
\* while its session is, or while a read on it has not returned.
NoLeakedDescriptor ==
    /\ 0 \in held => spc = "setup"
    /\ \A s \in held \ {0} : (s = opened /\ link[s] # "closed") \/ rpc[s] = "read"

Over(s) == s < opened \/ (s = opened /\ spc \notin Serving)

\* A connection that was added to a session which is over is closed, or somebody is
\* still bound to close it: CloseAll, or its own writer when it looks at done.  That
\* holds too when the session ends between the accept loop's look at current and
\* AddClient.  (When the context is done the program itself ends.)
NoStrayClient == \A c \in Conns :
    home[c] # 0 /\ Over(home[c]) /\ c \notin shut
        => \/ spc \in {"unset", "status", "list"} \/ c \in todo
           \/ done[home[c]] /\ cpc[c] = "run"
           \/ cancelled

\* Without a session a page is told that the radio is not connected.  (the nil
\* checks of SendChat, FetchCanned and tryRecordChatPacket)
NilRadioRefused == ~crashed /\ \A f \in Fetches : reply[f] # "panic"
=============================================================================
