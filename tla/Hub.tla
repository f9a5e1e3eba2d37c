-------------------------------- MODULE Hub --------------------------------
(***************************************************************************)
(* The hub of internal/webui.  Goroutines of the broker and HTTP handlers  *)
(* show it payloads (ObservePayload), handlers of SendChat record what     *)
(* they have sent, and pages subscribe over server-sent events and leave   *)
(* again.  The hub keeps a bounded event log, a bounded chat log, the      *)
(* nodes and a bounded cache of packet texts; every lock section and every *)
(* send on a subscriber's channel is one step.                             *)
(***************************************************************************)
EXTENDS Naturals, Sequences, FiniteSets, SequencesExt

CONSTANTS
    Threads,    \* goroutines that call into the hub
    Pages,      \* pages, each opened at most once
    Packets,    \* mesh packets
    Anon,       \* those without an id (packet id 0)
    Chats,      \* those with a text
    Outgoing,   \* chat packets of the local node, all with one text on one channel
    Nil,        \* no payload
    MaxEvents,  \* maxEvents
    MaxChat,    \* maxChat
    Window,     \* how many entries the duplicate check looks back (8)
    MaxProtos,  \* maxPacketProtoCache
    Buffer,     \* capacity of a subscriber's channel
    MaxShown,   \* bound: how many payloads are shown to the hub
    Starts      \* bound: the pages that will be opened, and how much of MaxShown is spent

ASSUME HubAssumptions ==
    /\ Outgoing \subseteq Chats /\ Chats \subseteq Packets /\ Anon \subseteq Packets
    /\ {Nil, "node", "other", "status"} \cap Packets = {}
    /\ MaxEvents \in Nat \ {0} /\ MaxChat \in Nat \ {0} /\ Window \in 1..MaxChat
    /\ MaxProtos \in Nat \ {0} /\ Buffer \in Nat \ {0} /\ MaxShown \in Nat
    /\ Starts \subseteq [open: SUBSET Pages, shown: Nat]

VARIABLES
    events,     \* Hub.events, by number
    chats,      \* Hub.chats
    protos,     \* keys of Hub.packetProtos
    nodes,      \* Hub.nodes: how many updates it has seen
    subs,       \* subs[k]: subscribers of channel k, of Hub.subscribers, chatSubs, nodeSubs
    queue,      \* queue[p][k]: what p's channel k holds
    shut,       \* channels that have been closed
    pc,         \* where each goroutine is
    item,       \* the payload it shows: a packet, "node", "other" or "status"
    role,       \* it is a goroutine of the broker ("broker"), an HTTP handler inside the
                \* broker ("http"), or one of SendChat that records its message ("direct")
    note,       \* what it is sending to subscribers
    rest,       \* the subscribers it still has to send it to
    ppc,        \* where each page's handler is
    shown,      \* number of payloads shown so far
    begun,      \* chat packets that have been shown
    known,      \* those whose first observation is over
    posting,    \* those that a handler of SendChat is sending and has not recorded itself
    appended,   \* ghost: chat packets in the order they were logged
    repeats,    \* ghost: chat packets dropped because the text had just been sent
    feed,       \* ghost: feed[p]: the events given to p, those of its snapshot first
    owed,       \* ghost: owed[p][k]: what was stored while p was subscribed to k and has
                \* neither been put into that channel nor found it full
    missed,     \* ghost: missed[p][k]: what goroutines that panicked had still to send to p
    crashed     \* a send on a closed channel has ended the process

logVars   == <<events, chats, protos, nodes, appended, repeats>>
chanVars  == <<queue, shut>>
workVars  == <<pc, item, role, note, rest>>
pageVars  == <<ppc, feed, owed, missed>>
copyVars  == <<begun, known, posting>>
vars == <<logVars, subs, chanVars, workVars, pageVars, shown, copyVars, crashed>>

Channels == {"event", "chat", "node"}
Nothing == [chan |-> "event", what |-> {}]
Goto(t, label) == pc' = [pc EXCEPT ![t] = label]
LastN(s, n) == SubSeq(s, IF Len(s) > n THEN Len(s) - n + 1 ELSE 1, Len(s))

-----------------------------------------------------------------------------
(* ObservePayload: what a payload touches, in order *)

\* A chat packet is shown by the goroutine it comes from first; its echo and its copies
\* to clients follow from that.
InOrder(i) == i \in Chats => i \in known \/ i \notin begun

\* The one handler that sends i does one thing at a time: no copy of i is in its hands.
NotInHand(i) == \A t \in Threads : item[t] = i => role[t] = "broker"

\* What a handler shows on its way through the broker: its own packet, with the id that
\* nextPacketID draws, and its copies to clients.
Posts(i) == /\ i \in Packets \ Anon
            /\ i \in Chats => /\ i \in Outgoing /\ NotInHand(i)
                              /\ i \notin begun \/ i \in posting

\* A goroutine is handed a payload.  A packet touches its node, unless it names no sender.
Observe(t, i, r) ==
    /\ pc[t] = "idle" /\ shown < MaxShown
    /\ InOrder(i)
    /\ r = "http" => Posts(i)
    /\ shown' = shown + 1
    /\ item' = [item EXCEPT ![t] = i]
    /\ role' = [role EXCEPT ![t] = r]
    /\ begun' = begun \cup ({i} \cap Chats)
    /\ posting' = IF r = "http" THEN posting \cup ({i} \cap Chats) ELSE posting
    /\ \/ i = "other" /\ Goto(t, "record")
       \/ i # "other" /\ Goto(t, "node")
       \/ i \in Packets /\ Goto(t, "proto")
    /\ UNCHANGED <<logVars, subs, chanVars, note, rest, pageVars, known, crashed>>

\* SendChat records the message after SendTextMessage has shown the packet.
SendChat(t, i) ==
    /\ pc[t] = "idle" /\ shown < MaxShown
    /\ i \in known \cap posting /\ NotInHand(i)
    /\ posting' = posting \ {i}
    /\ shown' = shown + 1
    /\ role' = [role EXCEPT ![t] = "direct"]
    /\ item' = [item EXCEPT ![t] = i]
    /\ Goto(t, "check")
    /\ UNCHANGED <<logVars, subs, chanVars, note, rest, pageVars, begun, known, crashed>>

\* From now on everyone subscribed to k is owed v.
Owe(k, v) ==
    /\ owed' = [p \in Pages |->
          IF p \in subs[k] THEN [owed[p] EXCEPT ![k] = @ \cup {v}] ELSE owed[p]]
    /\ missed' = [p \in Pages |->
          IF p \in subs[k] THEN [missed[p] EXCEPT ![k] = @ \ {v}] ELSE missed[p]]

\* touchNodeActivity, UpdateNodeFromInfo, SetLocalNodeNum
TouchNode(t) ==
    /\ pc[t] = "node"
    /\ nodes' = nodes + 1
    /\ Owe("node", nodes + 1)
    /\ Goto(t, "notifynodes")
    /\ UNCHANGED <<events, chats, protos, appended, repeats, subs, chanVars, item, role, note, rest,
                   ppc, feed, shown, copyVars, crashed>>

\* A status that names the local node changes what the list of nodes says of it.  A
\* handler sets one when it disconnects a client that is too slow for its packet.
SetStatus(t, r) ==
    /\ pc[t] = "idle" /\ shown < MaxShown
    /\ shown' = shown + 1
    /\ item' = [item EXCEPT ![t] = "status"]
    /\ role' = [role EXCEPT ![t] = r]
    /\ nodes' = nodes + 1
    /\ Owe("node", nodes + 1)
    /\ Goto(t, "notifynodes")
    /\ UNCHANGED <<events, chats, protos, appended, repeats, subs, chanVars, note, rest,
                   ppc, feed, copyVars, crashed>>

\* Start to send what is in vs to everyone subscribed to channel k right now.
Notify(t, k, vs) ==
    /\ note' = [note EXCEPT ![t] = [chan |-> k, what |-> vs]]
    /\ rest' = [rest EXCEPT ![t] = subs[k]]
    /\ Goto(t, "send")

\* notifyNodes: the snapshot and the copy of the subscribers are two lock sections.
NotifyNodesMutant(t) ==           \* the caller's update is not in the snapshot
    /\ pc[t] = "notifynodes"
    /\ note' = [note EXCEPT ![t] = [chan |-> "node", what |-> 1..(nodes - 1)]]
    /\ Goto(t, "nodesubs")
    /\ UNCHANGED <<logVars, subs, chanVars, item, role, rest, pageVars, shown, copyVars, crashed>>
NotifyNodes(t) ==
    /\ pc[t] = "notifynodes"
    /\ note' = [note EXCEPT ![t] = [chan |-> "node", what |-> 1..nodes]]
    /\ Goto(t, "nodesubs")
    /\ UNCHANGED <<logVars, subs, chanVars, item, role, rest, pageVars, shown, copyVars, crashed>>

NodeSubs(t) ==
    /\ pc[t] = "nodesubs"
    /\ Notify(t, "node", note[t].what)
    /\ UNCHANGED <<logVars, subs, chanVars, item, role, pageVars, shown, copyVars, crashed>>

\* cachePacketProto, for packets with an id; beyond the limit it drops entries in no
\* particular order.  Only a chat packet goes on to RecordChat.
AfterProto(t) == IF item[t] \in Chats THEN "check" ELSE "record"

CacheProtoMutant(t) ==            \* the limit is not enforced
    /\ pc[t] = "proto"
    /\ protos' = protos \cup ({item[t]} \ Anon)
    /\ Goto(t, AfterProto(t))
    /\ UNCHANGED <<events, chats, nodes, appended, repeats, subs, chanVars, item, role, note, rest,
                   pageVars, shown, copyVars, crashed>>
CacheProto(t) ==
    /\ pc[t] = "proto"
    /\ LET all == protos \cup ({item[t]} \ Anon) IN
       \/ Cardinality(all) <= MaxProtos /\ protos' = all
       \/ /\ Cardinality(all) > MaxProtos
          /\ \E keep \in SUBSET all : Cardinality(keep) = MaxProtos \div 2 /\ protos' = keep
    /\ Goto(t, AfterProto(t))
    /\ UNCHANGED <<events, chats, nodes, appended, repeats, subs, chanVars, item, role, note, rest,
                   pageVars, shown, copyVars, crashed>>

-----------------------------------------------------------------------------
(* RecordChat: the duplicate check and the append are two lock sections.   *)
(* mergeDuplicateChat changes nothing: every message comes with its JSON.  *)

RecentMutant == ToSet(LastN(chats, Window - 1))
Recent == ToSet(LastN(chats, Window))
\* isDuplicateChat: the same packet, if it has an id, or the same text sent within two
\* seconds.
SamePacket(i) == i \notin Anon /\ i \in Recent
SameText(i)   == i \in Outgoing /\ Recent \cap Outgoing # {}

\* ObservePayload goes on to Record, SendChat answers its page.
AfterChat(t) == IF role[t] = "direct" THEN "finish" ELSE "record"

CheckDuplicate(t) ==
    /\ pc[t] = "check"
    /\ \/ ~SamePacket(item[t]) /\ Goto(t, "append") /\ UNCHANGED repeats
       \/ SamePacket(item[t]) /\ Goto(t, AfterChat(t)) /\ UNCHANGED repeats
       \/ /\ ~SamePacket(item[t]) /\ SameText(item[t])
          /\ Goto(t, AfterChat(t))
          /\ repeats' = repeats \cup {item[t]}
    /\ UNCHANGED <<events, chats, protos, nodes, appended, subs, chanVars, item, role, note, rest, pageVars, shown,
                   copyVars, crashed>>

AppendChat(t) ==
    /\ pc[t] = "append"
    /\ chats' = LastN(Append(chats, item[t]), MaxChat)
    /\ appended' = Append(appended, item[t])
    /\ Owe("chat", item[t])
    /\ Goto(t, "notifychat")
    /\ UNCHANGED <<events, protos, nodes, repeats, subs, chanVars, item, role, note, rest, ppc, feed,
                   shown, copyVars, crashed>>

NotifyChat(t) ==
    /\ pc[t] = "notifychat"
    /\ Notify(t, "chat", {item[t]})
    /\ UNCHANGED <<logVars, subs, chanVars, item, role, pageVars, shown, copyVars, crashed>>

-----------------------------------------------------------------------------
(* Record: log the event and copy the subscribers in one lock section *)

Numbered == IF events = <<>> THEN 1 ELSE events[Len(events)] + 1

RecordEvent(t) ==
    /\ pc[t] = "record"
    /\ events' = LastN(Append(events, Numbered), MaxEvents)
    /\ Owe("event", Numbered)
    /\ Notify(t, "event", {Numbered})
    /\ UNCHANGED <<chats, protos, nodes, appended, repeats, subs, chanVars, item, role, ppc, feed, shown,
                   copyVars, crashed>>

\* A non-blocking send outside the lock; a full channel is skipped.
HasRoom(p, k) == Len(queue[p][k]) < Buffer

\* What t has sent to p, or found no room for, is no longer owed to it.
Paid(t, p) == owed' = [owed EXCEPT ![p][note[t].chan] = @ \ note[t].what]

Put(t, p) == LET k == note[t].chan IN
    /\ HasRoom(p, k)
    /\ queue' = [queue EXCEPT ![p][k] = Append(@, note[t].what)]
    /\ feed' = [feed EXCEPT ![p] = IF k = "event" THEN @ \o SetToSeq(note[t].what) ELSE @]
    /\ Paid(t, p)
Skip(t, p) ==
    /\ ~HasRoom(p, note[t].chan)
    /\ Paid(t, p)
    /\ UNCHANGED <<queue, feed>>

SendMutant(t, p) ==               \* the default case is missing
    /\ pc[t] = "send" /\ p \in rest[t] /\ <<p, note[t].chan>> \notin shut
    /\ rest' = [rest EXCEPT ![t] = @ \ {p}]
    /\ Put(t, p)
    /\ UNCHANGED <<logVars, subs, shut, pc, item, role, note, ppc, missed, shown, copyVars,
                   crashed>>
Send(t, p) ==
    /\ pc[t] = "send" /\ p \in rest[t] /\ <<p, note[t].chan>> \notin shut
    /\ rest' = [rest EXCEPT ![t] = @ \ {p}]
    /\ Put(t, p) \/ Skip(t, p)
    /\ UNCHANGED <<logVars, subs, shut, pc, item, role, note, ppc, missed, shown, copyVars,
                   crashed>>

\* The goroutine leaves the hub.
Leave(t) == /\ Goto(t, "idle")
            /\ item' = [item EXCEPT ![t] = Nil]
            /\ note' = [note EXCEPT ![t] = Nothing]
            /\ role' = [role EXCEPT ![t] = "broker"]

\* A send on a closed channel panics.  In a goroutine of the broker that ends the program;
\* net/http recovers a panic of its handlers, wherever in the broker or the hub they are:
\* what the handler had still to do is left undone, and its packet does not go on.
SendPanics(t, p) == LET k == note[t].chan IN
    /\ pc[t] = "send" /\ p \in rest[t] /\ <<p, k>> \in shut
    /\ rest' = [rest EXCEPT ![t] = {}]
    /\ missed' = [q \in Pages |-> IF q \in rest[t]
                     THEN [missed[q] EXCEPT ![k] = @ \cup note[t].what] ELSE missed[q]]
    /\ posting' = posting \ {item[t]}
    /\ crashed' = (role[t] = "broker")
    /\ Leave(t)
    /\ UNCHANGED <<logVars, subs, chanVars, ppc, feed, owed, shown, begun, known>>

\* What follows once everybody has been notified.
SendDone(t) ==
    /\ pc[t] = "send" /\ rest[t] = {}
    /\ \/ note[t].chan = "node" /\ item[t] \in Packets /\ Goto(t, "proto")
       \/ note[t].chan = "node" /\ item[t] = "node" /\ Goto(t, "record")
       \/ note[t].chan = "node" /\ item[t] = "status" /\ Goto(t, "finish")
       \/ note[t].chan = "chat" /\ Goto(t, AfterChat(t))
       \/ note[t].chan = "event" /\ Goto(t, "finish")
    /\ note' = [note EXCEPT ![t] = Nothing]
    /\ UNCHANGED <<logVars, subs, chanVars, item, role, rest, pageVars, shown, copyVars, crashed>>

Finish(t) ==
    /\ pc[t] = "finish"
    /\ Leave(t)
    /\ known' = known \cup ({item[t]} \cap Chats)
    /\ UNCHANGED <<logVars, subs, chanVars, rest, pageVars, shown, begun, posting, crashed>>

-----------------------------------------------------------------------------
(* handleEvents: a page is given a snapshot of the log, subscribes to the  *)
(* three channels one after the other, reads, and in the end unsubscribes  *)
(* in the reverse order; unsub deletes under the lock and closes the       *)
(* channel after it.                                                       *)

Steps == <<"event", "chat", "node">>

SnapshotMutant(p) ==              \* subscribes to the events first
    \/ /\ ppc[p] = <<"snapshot", 1>>
       /\ subs' = [subs EXCEPT !["event"] = @ \cup {p}]
       /\ ppc' = [ppc EXCEPT ![p] = <<"snapshot", 2>>]
       /\ UNCHANGED <<logVars, chanVars, workVars, feed, owed, missed, shown, copyVars, crashed>>
    \/ /\ ppc[p] = <<"snapshot", 2>>
       /\ feed' = [feed EXCEPT ![p] = events \o @]
       /\ ppc' = [ppc EXCEPT ![p] = <<"subscribe", 2>>]
       /\ UNCHANGED <<logVars, subs, chanVars, workVars, owed, missed, shown, copyVars, crashed>>
Snapshot(p) ==
    /\ ppc[p] = <<"snapshot", 1>>
    /\ feed' = [feed EXCEPT ![p] = events]
    /\ ppc' = [ppc EXCEPT ![p] = <<"subscribe", 1>>]
    /\ UNCHANGED <<logVars, subs, chanVars, workVars, owed, missed, shown, copyVars, crashed>>

Subscribe(p) == \E n \in 1..3 :
    /\ ppc[p] = <<"subscribe", n>>
    /\ subs' = [subs EXCEPT ![Steps[n]] = @ \cup {p}]
    /\ ppc' = [ppc EXCEPT ![p] = IF n = 3 THEN <<"read", 3>> ELSE <<"subscribe", n + 1>>]
    /\ UNCHANGED <<logVars, chanVars, workVars, feed, owed, missed, shown, copyVars, crashed>>

Receive(p) == \E k \in Channels :
    /\ ppc[p] = <<"read", 3>>
    /\ queue[p][k] # <<>>
    /\ queue' = [queue EXCEPT ![p][k] = Tail(@)]
    /\ UNCHANGED <<logVars, subs, shut, workVars, pageVars, shown, copyVars, crashed>>

PageLeaves(p) ==
    /\ ppc[p] = <<"read", 3>>
    /\ ppc' = [ppc EXCEPT ![p] = <<"delete", 3>>]
    /\ UNCHANGED <<logVars, subs, chanVars, workVars, feed, owed, missed, shown, copyVars, crashed>>

Unsubscribe(p) == \E n \in 1..3 :
    /\ ppc[p] = <<"delete", n>>
    /\ subs' = [subs EXCEPT ![Steps[n]] = @ \ {p}]
    /\ ppc' = [ppc EXCEPT ![p] = <<"close", n>>]
    /\ UNCHANGED <<logVars, chanVars, workVars, feed, owed, missed, shown, copyVars, crashed>>

CloseChannel(p) == \E n \in 1..3 :
    /\ ppc[p] = <<"close", n>>
    /\ shut' = shut \cup {<<p, Steps[n]>>}
    /\ ppc' = [ppc EXCEPT ![p] = <<"delete", n - 1>>]
    /\ UNCHANGED <<logVars, subs, queue, workVars, feed, owed, missed, shown, copyVars, crashed>>

-----------------------------------------------------------------------------
Init ==
    /\ events = <<>> /\ chats = <<>> /\ protos = {} /\ nodes = 0 /\ appended = <<>> /\ repeats = {}
    /\ subs = [k \in Channels |-> {}]
    /\ queue = [p \in Pages |-> [k \in Channels |-> <<>>]] /\ shut = {}
    /\ pc = [t \in Threads |-> "idle"] /\ item = [t \in Threads |-> Nil]
    /\ note = [t \in Threads |-> Nothing]
    /\ rest = [t \in Threads |-> {}] /\ role = [t \in Threads |-> "broker"]
    /\ \E s \in Starts :
          /\ ppc = [p \in Pages |-> IF p \in s.open THEN <<"snapshot", 1>> ELSE <<"delete", 0>>]
          /\ shown = s.shown
    /\ feed = [p \in Pages |-> <<>>]
    /\ owed = [p \in Pages |-> [k \in Channels |-> {}]] /\ missed = owed
    /\ begun = {} /\ known = {} /\ posting = {} /\ crashed = FALSE

Work(t) == TouchNode(t) \/ NotifyNodes(t) \/ NodeSubs(t) \/ CacheProto(t) \/ CheckDuplicate(t)
            \/ AppendChat(t) \/ NotifyChat(t) \/ RecordEvent(t)
            \/ (\E p \in Pages : Send(t, p) \/ SendPanics(t, p)) \/ SendDone(t) \/ Finish(t)

Next == ~crashed /\
    \/ \E t \in Threads : \/ \E r \in {"broker", "http"} :
                                \/ \E i \in Packets \cup {"node", "other"} : Observe(t, i, r)
                                \/ SetStatus(t, r)
                          \/ \E i \in Chats : SendChat(t, i)
                          \/ Work(t)
    \/ \E p \in Pages : \/ Snapshot(p) \/ Subscribe(p) \/ Receive(p)
                        \/ PageLeaves(p) \/ Unsubscribe(p) \/ CloseChannel(p)

Spec == Init /\ [][Next]_vars

-----------------------------------------------------------------------------
(* Properties *)

\* Type correctness and bounds: the logs, the cache of packet texts and every
\* subscriber's channel stay within their limits, and every channel that is closed
\* has left the registry.
HubTypeOK ==
    /\ events \in Seq(Nat) /\ Len(events) <= MaxEvents
    /\ chats \in Seq(Chats) /\ Len(chats) <= MaxChat
    /\ protos \subseteq Packets \ Anon /\ Cardinality(protos) <= MaxProtos
    /\ subs \in [Channels -> SUBSET Pages]
    /\ \A p \in Pages, k \in Channels : /\ Len(queue[p][k]) <= Buffer
                                        /\ <<p, k>> \in shut => p \notin subs[k]
    /\ item \in [Threads -> Packets \cup {"node", "other", "status", Nil}] /\ rest \in [Threads -> SUBSET Pages]

\* Between the first entry of a packet with an id in the chat log and any later one there
\* are always at least Window others: although check and append are separate lock
\* sections, echoes, copies to clients and SendChat do not log such a message again.  This
\* rests on the first copy being logged before there is a second one, so a message
\* whose first copy was taken for a repetition of the text just sent is not covered:
\* two later copies of it can pass the check at once.  Nor is a packet without an id,
\* which the check knows by its text only and the hub logs again with every copy.
NoDuplicateChat == \A i, j \in 1..Len(appended) :
    i < j /\ appended[i] = appended[j] /\ appended[i] \notin repeats \cup Anon
        /\ (\A h \in 1..(i - 1) : appended[h] # appended[i])
        => j - i > Window

\* x is on its way to p on channel k: a goroutine has still to send it, or to take
\* the snapshot that will show it.
Pending(p, k, x) == \E t \in Threads :
    \/ pc[t] = "send" /\ p \in rest[t] /\ note[t].chan = k /\ x \in note[t].what
    \/ k = "node" /\ pc[t] = "notifynodes"
    \/ k = "node" /\ pc[t] = "nodesubs" /\ x \in note[t].what
    \/ k = "chat" /\ pc[t] = "notifychat" /\ x = item[t]

\* x was lost to p with a goroutine that panicked at the channel of another page.
Lost(p, k, x) == x \in missed[p][k] /\ \E q \in Pages \ {p} : <<q, k>> \in shut

\* As long as a page is subscribed, every event and chat message that is logged and
\* every update of a node reaches its channel, unless the channel is full at that
\* moment or it is still about to be sent.  The copy of the subscribers is taken
\* after the change, so nobody who was subscribed then is left out; an update of a
\* node may reach the page in another goroutine's list.  Only one thing takes an update
\* from a page that has room: another page has left, and the goroutine that was sending
\* panicked at its closed channel before it came to this one.
UpdatesReachPages ==
    \A k \in Channels : \A p \in subs[k] : \A x \in owed[p][k] : Pending(p, k, x) \/ Lost(p, k, x)

\* No page is given an event twice, in its snapshot and live or live twice, although
\* events are sent outside the lock under which they are logged.
EventsOnce == \A p \in Pages : IsInjective(feed[p])

\* A goroutine of the broker or a handler is never held up in the hub: wherever it is, it
\* can go on, although no page may ever read again.
NeverHeldUp == \A t \in Threads : pc[t] # "idle" => ENABLED Work(t)

\* A page that leaves does not bring the bridge down.  (README: resilience when
\* clients disconnect unpredictably)
NoSendOnClosed == ~crashed
=============================================================================
