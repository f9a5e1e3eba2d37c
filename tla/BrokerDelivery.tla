--------------------------- MODULE BrokerDelivery ---------------------------
(***************************************************************************)
(* What reaches a client, for every value of the constants.  readSerial is *)
(* the only goroutine that broadcasts what the radio sends, one frame at a *)
(* time, and it removes whoever cannot take one before it goes on.  So a   *)
(* frame it has read has been queued for a registered client, is in its    *)
(* hand with the client still to be visited, or the client is being        *)
(* removed (Reached), and every step keeps that.  The echo of a packet,    *)
(* the answer to a request, the parts of the config and the packets of the *)
(* mesh each add what was read when.                                       *)
(*                                                                         *)
(* With that, Broker implements Handshake: the places of BrokerHandshake   *)
(* hold the open requests, and every step keeps, forgets or answers them.  *)
(***************************************************************************)
EXTENDS BrokerHandshake

-----------------------------------------------------------------------------
(* Where packets come from *)

\* A packet comes from a connection that has joined, the web UI or the mesh; nobody
\* but readSerial has one from the mesh, a part of the config or an answer in hand.
Local == Joined \cup {"web"}
Sources == Joined \cup {"web", "mesh"}
FramesOK == \A t \in Threads : frm[t] # Nil =>
    /\ frm[t].kind = "pkt" => frm[t].pkt.from \in IF t = Serial THEN Sources ELSE Local
    /\ t # Serial => frm[t].kind \notin {"cfg", "done"}
    /\ t = Serial /\ pc[t] \in {"forward", "write"} => frm[t].kind = "want"
SentOK == \A i \in 1..Len(toRadio) : toRadio[i].kind = "pkt" => toRadio[i].pkt.from \in Local
LineOK == \A i \in 1..Len(fromRadio) : fromRadio[i].kind = "pkt" =>
    fromRadio[i].pkt.from \in Sources /\ fromRadio[i].via = "radio"
HeardOK == \A p \in heard : p.from \in Sources
QueuesOK == \A c \in Clients : out[c] # <<>> => c \in Joined

SourcesInv == FramesOK /\ SentOK /\ LineOK /\ HeardOK /\ QueuesOK

-----------------------------------------------------------------------------
(* What reaches a client *)

Coming(c, f) == /\ frm[Serial] = f
                /\ pc[Serial] = "cast" \/ (pc[Serial] = "send" /\ c \in todo[Serial])
Reached(c, f) == Got(c, f) \/ Coming(c, f) \/ Slow(c)

\* The part of the config in the hand of readSerial is the one cached; a client being
\* replayed the cache has had what has changed since its snapshot.
HandOK == frm[Serial] # Nil /\ frm[Serial].kind = "cfg" =>
    /\ pc[Serial] \in {"cast", "send"} /\ cache[frm[Serial].slot] = frm[Serial].ver
SnapOK == \A c \in Clients : pc[Reader(c)] # "replay" => Held(snap[c]) = {}
ReplayOK == \A c \in clients, s \in Held(cache) : pc[Reader(c)] = "replay" =>
    Reached(c, CfgFrame(s, cache[s])) \/ snap[c][s] = cache[s]
\* A client that was ever sent a slot has had the cached version of it.
SlotsOK == \A c \in clients : \A s \in SlotsSent(c) \cap Held(cache) :
    Reached(c, CfgFrame(s, cache[s]))
EchoOK == \A p \in heard : p.from \in clients /\ p.port # "chat" =>
    Reached(p.from, PktFrame(p, "radio"))

DeliveryInv == HandOK /\ SnapOK /\ ReplayOK /\ SlotsOK /\ EchoOK

-----------------------------------------------------------------------------
(* The radio's answers, when its dumps begin with my_info *)

MyInfoFirst == DumpOrder # <<>> /\ DumpOrder[1] = MyInfo

\* readSerial drops a damaged frame of one of these kinds.
Damaged(kinds) == SerialGlitch /\ Head(fromRadio).kind \in kinds

\* The radio has a version of each slot, and sends no other.
VersionsOK == /\ \A s \in Slots : radioCfg[s] # 0
              /\ \A i \in 1..Len(fromRadio) : fromRadio[i].kind = "cfg" => fromRadio[i].ver # 0

\* The frames from j to i are a whole dump, with my_info first and no reboot inside.
Says(s, j) == fromRadio[j].kind = "cfg" /\ fromRadio[j].slot = s
Unbroken(j, i) == \A k \in j..i : fromRadio[k].kind # "rebooted"
Whole(j, i) == /\ Says(MyInfo, j) /\ Unbroken(j, i)
               /\ \A s \in RadioSlots : \E k \in j..(i - 1) : Says(s, k)
\* Either all of the dump that an answer on the line ends is still on the line, or the
\* cache is ready, and will be when the answer is read.
StartOK == \A i \in 1..Len(fromRadio) : fromRadio[i].kind = "complete" =>
    \/ \E j \in 1..(i - 1) : Whole(j, i)
    \/ Ready /\ Unbroken(1, i)

\* Whoever waits for the radio asked when the cache was not ready.  So before the end of
\* any dump, its own or one that another request asked for under the same nonce, it has
\* been sent each slot, or the slot stands in the line.
Learnt(c, s) == \E v \in Nat : Reached(c, CfgFrame(s, v))
Announced(s, i) == \E j \in 1..(i - 1) : Says(s, j)
Waiting(c) == pc[Reader(c)] \in {"drop", "reserve"} \/ ~Free(c)
DumpOK == \A c \in clients : Waiting(c) =>
    \A i \in 1..Len(fromRadio) : fromRadio[i].kind = "complete" =>
        \A s \in RadioSlots : Learnt(c, s) \/ Announced(s, i)
AnswerOK == frm[Serial] # Nil /\ frm[Serial].kind = "done" =>
    \A c \in clients : frm[Serial].id[1] = c => RadioSlots \subseteq SlotsSent(c)

UpToDate == RadioSlots = Slots =>
    \A c \in clients, s \in Held(cache) : Dones(c) # {} => Reached(c, CfgFrame(s, cache[s]))

AnswersInv == /\ ServeOK /\ VersionsOK /\ StartOK /\ DumpOK /\ AnswerOK
              /\ RadioAnswerComplete /\ UpToDate

-----------------------------------------------------------------------------
(* The cache and the line, when the frames that change it arrive *)

Touches(f, s) == f.kind = "rebooted" \/ (f.kind = "cfg" /\ f.slot = s)
LastOf(i, s) == /\ Touches(fromRadio[i], s)
                /\ \A j \in (i + 1)..Len(fromRadio) : ~Touches(fromRadio[j], s)
CacheInv == \A s \in Slots :
    /\ (\A i \in 1..Len(fromRadio) : ~Touches(fromRadio[i], s)) => cache[s] \in {0, radioCfg[s]}
    /\ \A i \in 1..Len(fromRadio) : LastOf(i, s) /\ fromRadio[i].kind = "cfg" =>
           fromRadio[i].ver = radioCfg[s]

-----------------------------------------------------------------------------
(* Packets of the mesh *)

\* They are numbered in the order in which the radio hears them, and read in it.
Mesh(f) == f.kind = "pkt" /\ f.pkt.from = "mesh"
NumbersOK ==
    /\ \A i \in 1..Len(fromRadio) : Mesh(fromRadio[i]) =>
          /\ fromRadio[i].pkt.seq <= used["mesh"]
          /\ \A j \in 1..(i - 1) : Mesh(fromRadio[j]) => fromRadio[j].pkt.seq < fromRadio[i].pkt.seq
          /\ \A p \in heard : p.from = "mesh" => p.seq < fromRadio[i].pkt.seq
    /\ \A p \in heard : p.from = "mesh" => p.seq <= used["mesh"]
MeshHand == frm[Serial] # Nil /\ Mesh(frm[Serial])
LatestOK == MeshHand => /\ frm[Serial].pkt \in heard
                        /\ \A p \in heard : p.from = "mesh" => p.seq <= frm[Serial].pkt.seq
QueuedOK == \A c \in Clients : \A i \in MeshSeqs(c) : \E p \in heard : p.from = "mesh" /\ p.seq = i

\* No packet of the mesh will be queued for c any more; or the one with number k is
\* still to be.
Visiting(c) == MeshHand /\ pc[Serial] = "send" /\ c \in todo[Serial]
Removing(c) == call[Serial] \in {"unlink", "drop", "close"} /\ victim[Serial] = c
Cut(c) == closed[c] \/ Removing(c) \/ (c \in Joined \ clients /\ ~Visiting(c))
Due(c, k) == /\ MeshHand /\ frm[Serial].pkt.seq = k
             /\ pc[Serial] = "cast" \/ Visiting(c)
GapOK == \A c \in Clients, p \in heard : p.from = "mesh" =>
    \A i \in MeshSeqs(c) : i < p.seq => p.seq \in MeshSeqs(c) \/ Cut(c) \/ Due(c, p.seq)

MeshInv == NumbersOK /\ LatestOK /\ QueuedOK /\ GapOK /\ NoSilentLoss


USE DEF registryVars, queueVars, configVars, echoVars, workVars, callVars, wireVars,
        envVars

-----------------------------------------------------------------------------
(* Facts about steps *)

\* Connections that have joined stay so.
LEMMA MoveJoined ==
    ASSUME TypeOK, NEW t \in Threads, NEW l, l # "off", Goto(t, l)
    PROVE  Joined \subseteq Joined'
BY ThreadTypes DEF TypeOK, WorkType, Goto, Joined

LEMMA StayJoined == ASSUME UNCHANGED pc PROVE Joined' = Joined
BY DEF Joined

LEMMA FinishJoined ==
    ASSUME TypeOK, NEW t \in Threads, Finish(t) PROVE Joined \subseteq Joined'
<1>1. Home(t) # "off"
    BY HomeLabel
<1> QED
    BY <1>1, MoveJoined DEF Finish

LEMMA AddJoined ==
    ASSUME TypeOK, NEW c \in Clients, AddClient(c) PROVE Joined \subseteq Joined' /\ c \in Joined'
BY ThreadTypes, DistinctThreads DEF TypeOK, WorkType, AddClient, Joined

LEMMA SharedJoined ==
    ASSUME TypeOK, NEW t \in Threads, SharedStep(t) PROVE Joined \subseteq Joined'
<1>1. CASE CallStep(t)
    BY <1>1, StayJoined DEF CallStep, Unlink, DropRemoved, Close, ReadRegistry, ReadCache,
       SetStatus
<1>2. CASE Reserve(t)
    BY <1>2, MoveJoined DEF Reserve
<1>3. CASE Forward(t)
    BY <1>3, MoveJoined, FinishJoined DEF Forward, SerialFailed
<1>4. CASE WriteSerial(t)
    <2>1. AfterWrite(t) # "off"
        BY HomeLabel DEF AfterWrite
    <2> QED
        BY <1>4, <2>1, MoveJoined, FinishJoined DEF WriteSerial, SerialFailed
<1>5. CASE Cast(t)
    BY <1>5, MoveJoined, FinishJoined DEF Cast
<1>6. ASSUME NEW c \in Clients, Send(t, c) PROVE Joined \subseteq Joined'
    BY <1>6, StayJoined, FinishJoined DEF Send
<1> QED
    BY <1>1, <1>2, <1>3, <1>4, <1>5, <1>6 DEF SharedStep

LEMMA SerialJoined ==
    ASSUME TypeOK, SerialStep \/ SerialGlitch PROVE Joined \subseteq Joined'
<1>1. ASSUME NEW l, l # "off", Goto(Serial, l) PROVE Joined \subseteq Joined'
    BY <1>1, MoveJoined, ThreadTypes
<1>2. UNCHANGED pc \/ \E l \in Labels \ {"off"} : Goto(Serial, l)
    BY DEF SerialStep, SerialGlitch, SerialLoop, SerialError, SerialConfig, SerialComplete,
       SerialRebooted, SwapPending, ReissueDone, SerialPacket, Reissue, Labels
<1> QED
    BY <1>1, <1>2, StayJoined

LEMMA ClientJoined ==
    ASSUME TypeOK, NEW c \in Clients,
           \/ ClientInput(c) \/ ReaderStep(c) \/ ReadError(c)
           \/ WriterStep(c) \/ WriterWrote(c) \/ WriterFails(c)
    PROVE  Joined \subseteq Joined'
<1>1. Reader(c) \in Threads /\ Writer(c) \in Threads
    BY ThreadTypes
<1>2. \/ UNCHANGED pc \/ Finish(Reader(c))
      \/ \E l \in Labels \ {"off"} : Goto(Reader(c), l) \/ Goto(Writer(c), l)
    <2>1. CASE ClientInput(c)
        BY <2>1 DEF ClientInput, ReadWant, ReadDisconnect, ReadPacket, ReadOther, ReadRaw,
           ReadTraffic, Labels
    <2>2. CASE ReaderStep(c) \/ ReadError(c)
        BY <2>2 DEF ReaderStep, DropOwn, Note, Snapshot, Replay, ReadError, Labels
    <2>3. CASE WriterStep(c) \/ WriterWrote(c) \/ WriterFails(c)
        BY <2>3 DEF WriterStep, WriterStops, WriterTakes, WriterWrote, WriterFails, Labels
    <2> QED
        BY <2>1, <2>2, <2>3
<1> QED
    BY <1>1, <1>2, MoveJoined, FinishJoined, StayJoined

LEMMA OthersJoined ==
    ASSUME TypeOK,
           \/ BootStart \/ BootScan \/ WebSend \/ RunReturns \/ ServerStep \/ ServerWakes
           \/ \E c \in Clients : AcceptConn(c) \/ AddClient(c)
           \/ RadioAnswers \/ RadioHears \/ RadioReboots \/ LinkFails \/ Cancel
           \/ \E s \in Slots : RadioUpdates(s)
           \/ \E p \in outbound : OutboundExpires(p)
           \/ UNCHANGED vars
    PROVE  Joined \subseteq Joined'
<1>1. CASE \/ RadioAnswers \/ RadioHears \/ RadioReboots \/ LinkFails \/ Cancel
           \/ \E s \in Slots : RadioUpdates(s)
           \/ \E p \in outbound : OutboundExpires(p)
           \/ UNCHANGED vars
    BY <1>1, StayJoined DEF RadioAnswers, RadioHears, RadioReboots, LinkFails, Cancel,
       RadioUpdates, OutboundExpires, vars
<1>2. CASE BootStart \/ BootScan \/ WebSend \/ RunReturns
    <2>1. UNCHANGED pc \/ \E t \in {Boot, Web, Runner}, l \in Labels \ {"off"} : Goto(t, l)
        BY <1>2 DEF BootStart, BootScan, WebSend, RunReturns, Labels
    <2> QED
        BY <2>1, MoveJoined, StayJoined, ThreadTypes
<1>3. CASE ServerStep \/ ServerWakes \/ \E c \in Clients : AcceptConn(c)
    <2>1. UNCHANGED pc \/ \E t \in {Server, Acceptor}, l \in Labels \ {"off"} : Goto(t, l)
        BY <1>3 DEF ServerStep, ServerStatus, ListClients, CloseSerial, RemoveListed,
           ServerWakes, AcceptConn, Labels
    <2> QED
        BY <2>1, MoveJoined, StayJoined, ThreadTypes
<1> QED
    BY <1>1, <1>2, <1>3, AddJoined

LEMMA NextJoined == ASSUME TypeOK, [Next]_vars PROVE Joined \subseteq Joined'
BY SharedJoined, SerialJoined, ClientJoined, OthersJoined DEF Next

-----------------------------------------------------------------------------
(* The line: what a step leaves of it and adds to it *)

LEMMA LineLength == ASSUME WireType PROVE Len(fromRadio) \in Nat /\ Len(toRadio) \in Nat
BY DEF WireType

LEMMA LineRead ==
    ASSUME WireType, fromRadio # <<>>, fromRadio' = Tail(fromRadio)
    PROVE  /\ 1 \in 1..Len(fromRadio) /\ Head(fromRadio) = fromRadio[1]
           /\ Len(fromRadio') = Len(fromRadio) - 1
           /\ \A i \in 1..Len(fromRadio') :
                 i + 1 \in 1..Len(fromRadio) /\ fromRadio'[i] = fromRadio[i + 1]
           /\ \A i \in 2..Len(fromRadio) :
                 i - 1 \in 1..Len(fromRadio') /\ fromRadio'[i - 1] = fromRadio[i]
BY DEF WireType

LEMMA LineAppend ==
    ASSUME WireType, NEW f \in FromRadio, fromRadio' = Append(fromRadio, f)
    PROVE  /\ Len(fromRadio') = Len(fromRadio) + 1
           /\ \A i \in 1..Len(fromRadio) : fromRadio'[i] = fromRadio[i]
           /\ fromRadio'[Len(fromRadio) + 1] = f
BY DEF WireType

LEMMA LineJoin ==
    ASSUME WireType, NEW s \in Seq(FromRadio), fromRadio' = fromRadio \o s
    PROVE  /\ Len(fromRadio') = Len(fromRadio) + Len(s)
           /\ \A i \in 1..Len(fromRadio) : fromRadio'[i] = fromRadio[i]
           /\ \A i \in 1..Len(s) : fromRadio'[Len(fromRadio) + i] = s[i]
BY DEF WireType

LEMMA LineDump ==
    ASSUME WireType, NEW n \in Nonces, fromRadio' = fromRadio \o Append(Dump, Complete(n))
    PROVE  /\ Len(DumpOrder) \in Nat
           /\ Len(fromRadio') = Len(fromRadio) + Len(DumpOrder) + 1
           /\ \A i \in 1..Len(fromRadio) : fromRadio'[i] = fromRadio[i]
           /\ \A i \in 1..Len(DumpOrder) :
                 /\ DumpOrder[i] \in Slots
                 /\ fromRadio'[Len(fromRadio) + i] = CfgFrame(DumpOrder[i], radioCfg[DumpOrder[i]])
           /\ fromRadio'[Len(fromRadio) + Len(DumpOrder) + 1] = Complete(n)
<1> DEFINE d == Dump
           f == Complete(n)
           l == Len(DumpOrder)
<1>1. d \in Seq(FromRadio) /\ f \in FromRadio
    BY DumpTyped, FrameTypes DEF FromRadio
<1>2. l \in Nat /\ Len(d) = l
    BY BrokerAssumptions DEF Dump
<1>3. \A i \in 1..l : /\ DumpOrder[i] \in Slots
                      /\ d[i] = CfgFrame(DumpOrder[i], radioCfg[DumpOrder[i]])
    BY BrokerAssumptions DEF Dump
<1> HIDE DEF d, f, l
<1>4. /\ Append(d, f) \in Seq(FromRadio) /\ Len(Append(d, f)) = l + 1
      /\ \A i \in 1..l : Append(d, f)[i] = d[i]
      /\ Append(d, f)[l + 1] = f
    BY <1>1, <1>2
<1>5. fromRadio' = fromRadio \o Append(d, f)
    BY DEF d, f
<1>6. /\ Len(fromRadio') = Len(fromRadio) + (l + 1)
      /\ \A i \in 1..Len(fromRadio) : fromRadio'[i] = fromRadio[i]
      /\ \A i \in 1..(l + 1) : fromRadio'[Len(fromRadio) + i] = Append(d, f)[i]
    BY <1>4, <1>5, LineJoin
<1>7. \A i \in 1..l : fromRadio'[Len(fromRadio) + i] = d[i]
    BY <1>2, <1>4, <1>6
<1>8. fromRadio'[Len(fromRadio) + (l + 1)] = f
    BY <1>2, <1>4, <1>6
<1>9. Len(fromRadio) + (l + 1) = Len(fromRadio) + l + 1
    BY <1>2, LineLength
<1> QED
    BY <1>2, <1>3, <1>6, <1>7, <1>8, <1>9 DEF f, l

\* A reboot: the line is cut, what the radio had not read is lost.
LEMMA LineCut ==
    ASSUME WireType, NEW k \in 0..Len(fromRadio),
           fromRadio' = Append(SubSeq(fromRadio, 1, k), Rebooted)
    PROVE  /\ Len(fromRadio') = k + 1
           /\ \A i \in 1..k : fromRadio'[i] = fromRadio[i]
           /\ fromRadio'[k + 1] = Rebooted
<1>1. Rebooted \in FromRadio
    BY DEF FromRadio
<1>2. /\ SubSeq(fromRadio, 1, k) \in Seq(FromRadio) /\ Len(SubSeq(fromRadio, 1, k)) = k
      /\ \A i \in 1..k : SubSeq(fromRadio, 1, k)[i] = fromRadio[i]
    BY DEF WireType
<1> QED
    BY <1>1, <1>2

LEMMA RadioReads ==
    ASSUME WireType, toRadio # <<>>, toRadio' = Tail(toRadio)
    PROVE  /\ 1 \in 1..Len(toRadio) /\ Head(toRadio) = toRadio[1] /\ Head(toRadio) \in ToRadio
           /\ \A i \in 1..Len(toRadio') : i + 1 \in 1..Len(toRadio) /\ toRadio'[i] = toRadio[i + 1]
BY DEF WireType

LEMMA RadioLoses ==
    ASSUME WireType, NEW m \in 0..Len(toRadio),
           toRadio' = SubSeq(toRadio, m + 1, Len(toRadio))
    PROVE  \A i \in 1..Len(toRadio') : i + m \in 1..Len(toRadio) /\ toRadio'[i] = toRadio[i + m]
<1>1. Len(toRadio) \in Nat /\ toRadio \in Seq(ToRadio)
    BY DEF WireType
<1>2. CASE m = Len(toRadio)
    BY <1>1, <1>2
<1>3. CASE m < Len(toRadio)
    BY <1>1, <1>3
<1> QED
    BY <1>1, <1>2, <1>3

LEMMA RadioGets ==
    ASSUME WireType, NEW f \in ToRadio, toRadio' = Append(toRadio, f)
    PROVE  \A i \in 1..Len(toRadio') : \/ i \in 1..Len(toRadio) /\ toRadio'[i] = toRadio[i]
                                       \/ toRadio'[i] = f
BY DEF WireType

-----------------------------------------------------------------------------
(* Where packets come from *)

\* What the goroutines have in hand after a step that gives nobody anything.
NothingNew == /\ \A t \in Threads : frm'[t] \in {frm[t], Nil}
              /\ pc'[Serial] \in {"forward", "write"} => pc[Serial] \in {"forward", "write"}

LEMMA SourcesGrow ==
    ASSUME Joined \subseteq Joined'
    PROVE  Local \subseteq Local' /\ Sources \subseteq Sources'
BY DEF Local, Sources

LEMMA SourcesKept ==
    ASSUME SourcesInv, Joined \subseteq Joined'
    PROVE  /\ NothingNew => FramesOK'
           /\ UNCHANGED toRadio => SentOK'
           /\ UNCHANGED fromRadio => LineOK'
           /\ UNCHANGED heard => HeardOK'
           /\ UNCHANGED out => QueuesOK'
<1>1. Local \subseteq Local' /\ Sources \subseteq Sources'
    BY SourcesGrow
<1>2. ASSUME NothingNew PROVE FramesOK'
    <2> SUFFICES ASSUME NEW t \in Threads, frm'[t] # Nil
                 PROVE  /\ frm'[t].kind = "pkt"
                             => frm'[t].pkt.from \in IF t = Serial THEN Sources' ELSE Local'
                        /\ t # Serial => frm'[t].kind \notin {"cfg", "done"}
                        /\ t = Serial /\ pc'[t] \in {"forward", "write"} => frm'[t].kind = "want"
        BY DEF FramesOK
    <2>1. frm'[t] = frm[t]
        BY <1>2 DEF NothingNew
    <2> QED
        BY <1>1, <1>2, <2>1 DEF SourcesInv, FramesOK, NothingNew
<1>3. UNCHANGED toRadio => SentOK'
    BY <1>1 DEF SourcesInv, SentOK
<1>4. UNCHANGED fromRadio => LineOK'
    BY <1>1 DEF SourcesInv, LineOK
<1>5. UNCHANGED heard => HeardOK'
    BY <1>1 DEF SourcesInv, HeardOK
<1>6. UNCHANGED out => QueuesOK'
    BY DEF SourcesInv, QueuesOK
<1> QED
    BY <1>2, <1>3, <1>4, <1>5, <1>6

LEMMA SourcesTaken ==
    ASSUME TypeOK, SourcesInv, Joined \subseteq Joined', NEW t \in Threads, NEW f,
           frm' = [frm EXCEPT ![t] = f],
           f.kind = "pkt" => f.pkt.from \in IF t = Serial THEN Sources ELSE Local,
           t # Serial => f.kind \notin {"cfg", "done"},
           t = Serial /\ pc'[t] \in {"forward", "write"} => f.kind = "want",
           t # Serial => pc'[Serial] = pc[Serial]
    PROVE  FramesOK'
<1>1. frm'[t] = f /\ \A u \in Threads \ {t} : frm'[u] = frm[u]
    BY DEF TypeOK, WorkType
<1>2. Local \subseteq Local' /\ Sources \subseteq Sources'
    BY SourcesGrow
<1> SUFFICES ASSUME NEW u \in Threads, frm'[u] # Nil
             PROVE  /\ frm'[u].kind = "pkt"
                         => frm'[u].pkt.from \in IF u = Serial THEN Sources' ELSE Local'
                    /\ u # Serial => frm'[u].kind \notin {"cfg", "done"}
                    /\ u = Serial /\ pc'[u] \in {"forward", "write"} => frm'[u].kind = "want"
    BY DEF FramesOK
<1>3. CASE u = t
    BY <1>1, <1>2, <1>3
<1>4. CASE u # t
    BY <1>1, <1>2, <1>4 DEF SourcesInv, FramesOK
<1> QED
    BY <1>3, <1>4

LEMMA FinishNothing ==
    ASSUME TypeOK, NEW t \in Threads, Finish(t) PROVE NothingNew
<1>1. Home(t) \notin {"forward", "write"}
    BY HomeLabel
<1> QED
    BY <1>1, ThreadTypes DEF TypeOK, WorkType, Finish, Goto, NothingNew

LEMMA SameNothing == ASSUME UNCHANGED <<pc, frm>> PROVE NothingNew
BY DEF NothingNew

LEMMA MoveNothing ==
    ASSUME TypeOK, NEW t \in Threads, NEW l, Goto(t, l), UNCHANGED frm,
           t = Serial /\ l \in {"forward", "write"} => pc[t] \in {"forward", "write"}
    PROVE  NothingNew
BY ThreadTypes DEF TypeOK, WorkType, Goto, NothingNew

\* A step that only moves goroutines.
LEMMA QuietSources ==
    ASSUME SourcesInv, Joined \subseteq Joined', NothingNew,
           UNCHANGED <<out, toRadio, fromRadio, heard>>
    PROVE  SourcesInv'
BY SourcesKept DEF SourcesInv

LEMMA CallSources ==
    ASSUME TypeOK, SourcesInv, Joined \subseteq Joined', NEW t \in Threads, CallStep(t)
    PROVE  SourcesInv'
<1>1. UNCHANGED <<pc, frm, out, toRadio, fromRadio, heard>>
    BY DEF CallStep, Unlink, DropRemoved, Close, ReadRegistry, ReadCache, SetStatus
<1> QED
    BY <1>1, SameNothing, QuietSources

LEMMA ReserveSources ==
    ASSUME TypeOK, SourcesInv, Joined \subseteq Joined', NEW t \in Threads, Reserve(t)
    PROVE  SourcesInv'
<1>1. PICK n \in Nonces : frm' = [frm EXCEPT ![t] = WantMsg(n)]
    BY DEF Reserve, FreeNonces
<1>2. WantMsg(n).kind = "want"
    BY DEF WantMsg
<1>3. t # Serial => pc'[Serial] = pc[Serial]
    BY ThreadTypes DEF TypeOK, WorkType, Reserve, Goto
<1>4. FramesOK'
    BY <1>1, <1>2, <1>3, SourcesTaken
<1> QED
    BY <1>4, SourcesKept DEF SourcesInv, Reserve

\* What is written to the device is what the goroutine has in hand.
LEMMA WriteSources ==
    ASSUME TypeOK, LocalsOK, SourcesInv, Joined \subseteq Joined', NEW t \in Threads,
           Forward(t) \/ WriteSerial(t)
    PROVE  SourcesInv'
<1>1. CASE SerialFailed(t)
    BY <1>1, FinishNothing, QuietSources DEF SerialFailed
<1>2. CASE Goto(t, "write") /\ Forward(t) /\ UNCHANGED <<out, frm, toRadio, fromRadio, heard>>
    BY <1>2, MoveNothing, QuietSources DEF Forward, At
<1>3. CASE WriteSerial(t) /\ toRadio' = Append(toRadio, frm[t])
    <2>1. At(t, "write") /\ UNCHANGED <<out, fromRadio, heard>>
        BY <1>3 DEF WriteSerial, SerialFailed
    <2>2. frm[t] \in ToRadio /\ frm[t] # Nil
        BY <2>1, NilIsNoFrame DEF LocalsOK, At
    <2>3. frm[t].kind = "pkt" => frm[t].pkt.from \in Local
        BY <2>1, <2>2 DEF SourcesInv, FramesOK, At
    <2>4. SentOK'
        <3>1. \A i \in 1..Len(toRadio') : \/ i \in 1..Len(toRadio) /\ toRadio'[i] = toRadio[i]
                                          \/ toRadio'[i] = frm[t]
            BY <1>3, <2>2, RadioGets DEF TypeOK
        <3> QED
            BY <2>3, <3>1, SourcesGrow DEF SourcesInv, SentOK
    <2>5. NothingNew
        <3>1. \/ UNCHANGED frm
              \/ frm' = [frm EXCEPT ![t] = Nil]
            BY <1>3 DEF WriteSerial, SerialFailed, Finish
        <3>2. \A u \in Threads : frm'[u] \in {frm[u], Nil}
            BY <3>1 DEF TypeOK, WorkType
        <3>3. \A u \in Threads \ {t} : pc'[u] = pc[u]
            BY <1>3 DEF TypeOK, WorkType, WriteSerial, SerialFailed, Finish, Goto
        <3> QED
            BY <2>1, <3>2, <3>3, ThreadTypes DEF NothingNew, At
    <2> QED
        BY <2>1, <2>4, <2>5, SourcesKept DEF SourcesInv
<1> QED
    BY <1>1, <1>2, <1>3 DEF Forward, WriteSerial

LEMMA CastSources ==
    ASSUME TypeOK, SourcesInv, Joined \subseteq Joined', NEW t \in Threads, Cast(t)
    PROVE  SourcesInv'
<1>1. UNCHANGED <<out, toRadio, fromRadio, heard>>
    BY DEF Cast
<1>2. NothingNew
    BY FinishNothing, MoveNothing DEF Cast
<1> QED
    BY <1>1, <1>2, QuietSources

\* Only connections that have joined are sent anything.
LEMMA SendSources ==
    ASSUME TypeOK, RegistryInv, SourcesInv, Joined \subseteq Joined', NEW t \in Threads,
           NEW c \in Clients, Send(t, c)
    PROVE  SourcesInv'
<1>1. NothingNew
    BY FinishNothing, SameNothing DEF Send
<1>2. c \in Joined
    <2>1. t # Acceptor
        BY DEF RegistryInv, JoinedOK, AcceptorOK, Send, At
    <2> QED
        BY <2>1 DEF RegistryInv, JoinedOK, TargetsOK, Send
<1>3. \A d \in Clients \ {c} : out'[d] = out[d]
    BY DEF TypeOK, QueueType, Send, Accept
<1>4. QueuesOK'
    BY <1>2, <1>3 DEF SourcesInv, QueuesOK
<1> QED
    BY <1>1, <1>4, SourcesKept DEF SourcesInv, Send

\* readSerial reads the first frame of the line.
LEMMA ReadSources ==
    ASSUME TypeOK, SourcesInv, Joined \subseteq Joined', fromRadio # <<>>,
           fromRadio' = Tail(fromRadio)
    PROVE  /\ LineOK'
           /\ Head(fromRadio).kind = "pkt" =>
                Head(fromRadio).pkt.from \in Sources /\ Head(fromRadio).via = "radio"
<1>1. /\ 1 \in 1..Len(fromRadio) /\ Head(fromRadio) = fromRadio[1]
      /\ \A i \in 1..Len(fromRadio') :
            i + 1 \in 1..Len(fromRadio) /\ fromRadio'[i] = fromRadio[i + 1]
    BY LineRead DEF TypeOK
<1> QED
    BY <1>1, SourcesGrow DEF SourcesInv, LineOK

LEMMA SerialSources ==
    ASSUME TypeOK, SourcesInv, Joined \subseteq Joined', SerialStep \/ SerialGlitch
    PROVE  SourcesInv'
<1>1. CASE \/ SerialLoop \/ SerialError \/ SwapPending \/ ReissueDone
           \/ \E n \in Nonces : Reissue(n)
    <2>1. /\ UNCHANGED <<out, frm, toRadio, fromRadio, heard>>
          /\ UNCHANGED pc \/ \E l \in Labels \ {"forward", "write"} : Goto(Serial, l)
        BY <1>1 DEF SerialLoop, SerialError, SwapPending, ReissueDone, Reissue, Labels
    <2>2. NothingNew
        BY <2>1, MoveNothing, SameNothing, ThreadTypes
    <2> QED
        BY <2>1, <2>2, QuietSources
<1>2. CASE SerialGlitch \/ SerialRebooted
    <2>1. /\ UNCHANGED <<out, frm, toRadio, heard>> /\ fromRadio # <<>>
          /\ fromRadio' = Tail(fromRadio) /\ \E l \in {"loop", "swap"} : Goto(Serial, l)
        BY <1>2 DEF SerialGlitch, SerialRebooted, ReadFrame
    <2>2. NothingNew
        BY <2>1, MoveNothing, ThreadTypes
    <2> QED
        BY <2>1, <2>2, ReadSources, SourcesKept DEF SourcesInv
<1>3. CASE SerialConfig
    <2>1. /\ UNCHANGED <<out, toRadio, heard>> /\ fromRadio # <<>>
          /\ fromRadio' = Tail(fromRadio) /\ Head(fromRadio).kind = "cfg"
          /\ frm' = [frm EXCEPT ![Serial] = Head(fromRadio)] /\ pc'[Serial] = "cast"
        BY <1>3, ThreadTypes DEF SerialConfig, ReadFrame, Goto, TypeOK, WorkType
    <2>2. FramesOK'
        BY <2>1, SourcesTaken, ThreadTypes
    <2> QED
        BY <2>1, <2>2, ReadSources, SourcesKept DEF SourcesInv
<1>4. CASE SerialComplete
    <2>1. /\ UNCHANGED <<out, toRadio, heard>> /\ fromRadio # <<>>
          /\ fromRadio' = Tail(fromRadio)
        BY <1>4 DEF SerialComplete, ReadFrame
    <2>2. \/ UNCHANGED frm /\ Goto(Serial, "loop")
          \/ /\ \E i : frm' = [frm EXCEPT ![Serial] = DoneFrame(i, "radio")]
             /\ Goto(Serial, "send")
        BY <1>4 DEF SerialComplete
    <2>3. FramesOK'
        <3>1. CASE UNCHANGED frm /\ Goto(Serial, "loop")
            BY <3>1, MoveNothing, ThreadTypes, SourcesKept
        <3>2. ASSUME NEW i, frm' = [frm EXCEPT ![Serial] = DoneFrame(i, "radio")],
                     Goto(Serial, "send")
              PROVE  FramesOK'
            <4>1. pc'[Serial] = "send"
                BY <3>2, ThreadTypes DEF TypeOK, WorkType, Goto
            <4>2. DoneFrame(i, "radio").kind = "done"
                BY DEF DoneFrame
            <4> QED
                BY <3>2, <4>1, <4>2, SourcesTaken, ThreadTypes
        <3> QED
            BY <2>2, <3>1, <3>2
    <2> QED
        BY <2>1, <2>3, ReadSources, SourcesKept DEF SourcesInv
<1>5. CASE SerialPacket
    <2>1. /\ UNCHANGED <<out, toRadio>> /\ fromRadio # <<>>
          /\ fromRadio' = Tail(fromRadio) /\ Head(fromRadio).kind = "pkt"
          /\ heard' = heard \cup {Head(fromRadio).pkt}
        BY <1>5 DEF SerialPacket, ReadFrame
    <2>2. Head(fromRadio).pkt.from \in Sources
        BY <2>1, ReadSources
    <2>3. HeardOK'
        BY <2>1, <2>2, SourcesGrow DEF SourcesInv, HeardOK
    <2>4. \/ UNCHANGED frm /\ Goto(Serial, "loop")
          \/ /\ frm' = [frm EXCEPT ![Serial] = Head(fromRadio)]
             /\ \E l \in {"cast", "send"} : Goto(Serial, l)
        BY <1>5 DEF SerialPacket
    <2>5. FramesOK'
        <3>1. CASE UNCHANGED frm /\ Goto(Serial, "loop")
            BY <3>1, MoveNothing, ThreadTypes, SourcesKept
        <3>2. CASE /\ frm' = [frm EXCEPT ![Serial] = Head(fromRadio)]
                   /\ \E l \in {"cast", "send"} : Goto(Serial, l)
            <4>1. pc'[Serial] \in {"cast", "send"}
                BY <3>2, ThreadTypes DEF TypeOK, WorkType, Goto
            <4> QED
                BY <2>1, <2>2, <3>2, <4>1, SourcesTaken, ThreadTypes
        <3> QED
            BY <2>4, <3>1, <3>2
    <2> QED
        BY <2>1, <2>3, <2>5, ReadSources, SourcesKept DEF SourcesInv
<1> QED
    BY <1>1, <1>2, <1>3, <1>4, <1>5 DEF SerialStep

LEMMA ClientSources ==
    ASSUME TypeOK, RegistryInv, SourcesInv, Joined \subseteq Joined', NEW c \in Clients,
           \/ ClientInput(c) \/ ReaderStep(c) \/ ReadError(c)
           \/ WriterStep(c) \/ WriterWrote(c) \/ WriterFails(c)
    PROVE  SourcesInv'
<1>1. /\ Reader(c) \in Threads /\ Writer(c) \in Threads
      /\ Reader(c) # Serial /\ Writer(c) # Serial
    BY ThreadTypes, DistinctThreads
<1>2. ASSUME NEW kind, NEW m, NEW allowed, ReadTraffic(c, kind, m, allowed),
             m.kind = "pkt" => m.pkt.from = c, m.kind \notin {"cfg", "done"}
      PROVE  SourcesInv'
    <2>1. UNCHANGED <<out, toRadio, fromRadio, heard>>
        BY <1>2 DEF ReadTraffic
    <2>2. CASE UNCHANGED <<pc, frm>>
        BY <2>1, <2>2, SameNothing, QuietSources
    <2>3. CASE frm' = [frm EXCEPT ![Reader(c)] = m] /\ Goto(Reader(c), "forward")
        <3>1. c \in Local
            BY <1>2 DEF ReadTraffic, Message, At, Local, Joined
        <3>2. pc'[Serial] = pc[Serial]
            BY <1>1, <2>3, ThreadTypes DEF TypeOK, WorkType, Goto
        <3>3. FramesOK'
            BY <1>1, <1>2, <2>3, <3>1, <3>2, SourcesTaken
        <3> QED
            BY <2>1, <3>3, SourcesKept DEF SourcesInv
    <2> QED
        BY <1>2, <2>2, <2>3 DEF ReadTraffic
<1>3. CASE ReadPacket(c)
    <2>1. PICK port \in Ports :
             ReadTraffic(c, "packet",
                PktFrame([from |-> c, seq |-> asked[c] + 1, port |-> port], "echo"),
                MayTransmit(c))
        BY <1>3 DEF ReadPacket
    <2>2. /\ PktFrame([from |-> c, seq |-> asked[c] + 1, port |-> port], "echo").kind = "pkt"
          /\ PktFrame([from |-> c, seq |-> asked[c] + 1, port |-> port], "echo").pkt.from = c
        BY DEF PktFrame
    <2> QED
        BY <1>2, <2>1, <2>2
<1>4. CASE ReadOther(c) \/ ReadRaw(c)
    BY <1>2, <1>4 DEF ReadOther, ReadRaw, OtherMsg
<1>5. CASE \/ ReadWant(c) \/ ReadDisconnect(c) \/ ReadError(c) \/ DropOwn(c) \/ Note(c)
           \/ Snapshot(c) \/ WriterStep(c) \/ WriterWrote(c) \/ WriterFails(c)
    <2>1. /\ UNCHANGED <<frm, out, toRadio, fromRadio, heard>>
          /\ UNCHANGED pc \/ \E l : Goto(Reader(c), l) \/ Goto(Writer(c), l)
        BY <1>5 DEF ReadWant, ReadDisconnect, ReadError, DropOwn, Note, Snapshot, WriterStep,
           WriterStops, WriterTakes, WriterWrote, WriterFails
    <2>2. NothingNew
        BY <1>1, <2>1, SameNothing, MoveNothing
    <2> QED
        BY <2>1, <2>2, QuietSources
<1>6. CASE Replay(c)
    <2>1. UNCHANGED <<toRadio, fromRadio, heard>>
        BY <1>6 DEF Replay
    <2>2. NothingNew
        BY <1>1, <1>6, FinishNothing, SameNothing DEF Replay
    <2>3. c \in Joined /\ \A d \in Clients \ {c} : out'[d] = out[d]
        BY <1>6 DEF TypeOK, QueueType, Replay, Accept, At, Joined
    <2>4. QueuesOK'
        BY <2>3 DEF SourcesInv, QueuesOK
    <2> QED
        BY <2>1, <2>2, <2>4, SourcesKept DEF SourcesInv
<1> QED
    BY <1>3, <1>4, <1>5, <1>6 DEF ClientInput, ReaderStep

LEMMA OthersSources ==
    ASSUME TypeOK, SourcesInv, Joined \subseteq Joined',
           \/ BootStart \/ BootScan \/ WebSend \/ RunReturns \/ ServerStep \/ ServerWakes
           \/ \E c \in Clients : AcceptConn(c) \/ AddClient(c)
    PROVE  SourcesInv'
<1>1. UNCHANGED <<out, toRadio, fromRadio, heard>>
    BY DEF BootStart, BootScan, WebSend, RunReturns, ServerStep, ServerStatus, ListClients,
       CloseSerial, RemoveListed, ServerWakes, AcceptConn, AddClient
<1>2. pc'[Serial] = pc[Serial]
    BY ThreadTypes, DistinctThreads DEF TypeOK, WorkType, Goto, BootStart, BootScan, WebSend,
       RunReturns, ServerStep, ServerStatus, ListClients, CloseSerial, RemoveListed,
       ServerWakes, AcceptConn, AddClient
<1>3. CASE UNCHANGED frm
    <2>1. NothingNew
        BY <1>2, <1>3 DEF NothingNew
    <2> QED
        BY <1>1, <2>1, QuietSources
<1>4. CASE WebSend /\ ~UNCHANGED frm
    <2> DEFINE f == PktFrame([from |-> "web", seq |-> used["web"] + 1, port |-> "chat"], "echo")
    <2>1. frm' = [frm EXCEPT ![Web] = f]
        BY <1>4 DEF WebSend
    <2>2. f.kind = "pkt" /\ f.pkt.from \in Local
        BY DEF PktFrame, Local
    <2> HIDE DEF f
    <2>3. FramesOK'
        BY <1>2, <2>1, <2>2, SourcesTaken, ThreadTypes, DistinctThreads
    <2> QED
        BY <1>1, <2>3, SourcesKept DEF SourcesInv
<1> QED
    BY <1>3, <1>4 DEF BootStart, BootScan, RunReturns, ServerStep, ServerStatus, ListClients,
       CloseSerial, RemoveListed, ServerWakes, AcceptConn, AddClient

\* The radio and the environment: who has joined is not their business.
LEMMA RadioAside ==
    ASSUME \/ RadioAnswers \/ RadioHears \/ RadioReboots \/ LinkFails \/ Cancel
           \/ \E s \in Slots : RadioUpdates(s)
           \/ \E p \in outbound : OutboundExpires(p)
           \/ UNCHANGED vars
    PROVE  UNCHANGED <<registryVars, queueVars, configVars, heard, pc, workVars, callVars>>
BY DEF RadioAnswers, RadioHears, RadioReboots, LinkFails, Cancel, RadioUpdates,
   OutboundExpires, vars

LEMMA HearsFrame ==
    ASSUME TypeOK, RadioHears
    PROVE  \E f \in PktFrames : /\ fromRadio' = Append(fromRadio, f) /\ f \in FromRadio
                                /\ f.pkt.from = "mesh" /\ f.via = "radio"
                                /\ f.pkt.seq = used["mesh"] + 1
<1> DEFINE p == [from |-> "mesh", seq |-> used["mesh"] + 1, port |-> "rpc"]
<1>1. p \in Packets /\ p.from = "mesh" /\ p.seq = used["mesh"] + 1
    BY EventTypes DEF TypeOK, EnvType, Packets, PortKinds
<1>2. fromRadio' = Append(fromRadio, PktFrame(p, "radio"))
    BY DEF RadioHears
<1> HIDE DEF p
<1>3. /\ PktFrame(p, "radio") \in PktFrames /\ PktFrame(p, "radio").pkt = p
      /\ PktFrame(p, "radio").via = "radio"
    BY <1>1, FrameTypes DEF PktFrame
<1> QED
    BY <1>1, <1>2, <1>3 DEF FromRadio

LEMMA UpdatesFrame ==
    ASSUME TypeOK, NEW s \in Slots, RadioUpdates(s)
    PROVE  \E f \in CfgFrames : /\ fromRadio' = Append(fromRadio, f) /\ f \in FromRadio
                                /\ f.slot = s /\ f.ver = radioCfg[s] + 1
<1>1. radioCfg[s] + 1 \in Nat
    BY DEF TypeOK, WireType
<1>2. /\ CfgFrame(s, radioCfg[s] + 1) \in CfgFrames /\ CfgFrame(s, radioCfg[s] + 1).slot = s
      /\ CfgFrame(s, radioCfg[s] + 1).ver = radioCfg[s] + 1
    BY <1>1, FrameTypes DEF CfgFrame
<1> QED
    BY <1>2 DEF RadioUpdates, FromRadio

\* What the radio does with the message it reads.
LEMMA AnswersFrames ==
    ASSUME TypeOK, RadioAnswers
    PROVE  /\ toRadio # <<>> /\ toRadio' = Tail(toRadio) /\ 1 \in 1..Len(toRadio)
           /\ \/ UNCHANGED fromRadio
              \/ /\ toRadio[1].kind = "want" /\ toRadio[1].nonce \in Nonces
                 /\ fromRadio' = fromRadio \o Append(Dump, Complete(toRadio[1].nonce))
              \/ /\ toRadio[1].kind = "pkt" /\ toRadio[1] \in PktFrames
                 /\ \E f \in PktFrames : /\ fromRadio' = Append(fromRadio, f) /\ f \in FromRadio
                                         /\ f.pkt = toRadio[1].pkt /\ f.via = "radio"
<1>1. toRadio # <<>> /\ toRadio' = Tail(toRadio)
    BY DEF RadioAnswers
<1>2. 1 \in 1..Len(toRadio) /\ Head(toRadio) = toRadio[1] /\ toRadio[1] \in ToRadio
    BY <1>1, RadioReads DEF TypeOK
<1>3. \/ UNCHANGED fromRadio
      \/ /\ toRadio[1].kind = "want"
         /\ fromRadio' = fromRadio \o Append(Dump, Complete(toRadio[1].nonce))
      \/ toRadio[1].kind = "pkt" /\ fromRadio' = Append(fromRadio, PktFrame(toRadio[1].pkt, "radio"))
    BY <1>2 DEF RadioAnswers
<1>4. /\ toRadio[1].kind = "want" => toRadio[1].nonce \in Nonces
      /\ toRadio[1].kind = "pkt" => toRadio[1] \in PktFrames
    BY <1>2, FrameKinds DEF ToRadio
<1>5. ASSUME toRadio[1].kind = "pkt"
      PROVE  /\ PktFrame(toRadio[1].pkt, "radio") \in PktFrames
             /\ PktFrame(toRadio[1].pkt, "radio") \in FromRadio
             /\ PktFrame(toRadio[1].pkt, "radio").pkt = toRadio[1].pkt
             /\ PktFrame(toRadio[1].pkt, "radio").via = "radio"
    BY <1>4, <1>5, FrameTypes, FrameKinds DEF PktFrame, FromRadio
<1> QED
    BY <1>1, <1>2, <1>3, <1>4, <1>5

LEMMA DumpLine ==
    ASSUME TypeOK, NEW n \in Nonces, fromRadio' = fromRadio \o Append(Dump, Complete(n))
    PROVE  /\ Len(fromRadio) \in Nat /\ Len(fromRadio') \in Nat
           /\ Len(fromRadio) < Len(fromRadio')
           /\ \A i \in 1..Len(fromRadio) : fromRadio'[i] = fromRadio[i]
           /\ \A i \in 1..Len(fromRadio') :
                 \/ i \in 1..Len(fromRadio)
                 \/ /\ Len(fromRadio) < i /\ i < Len(fromRadio') /\ fromRadio'[i].kind = "cfg"
                    /\ fromRadio'[i].slot \in RadioSlots /\ fromRadio'[i].slot \in Slots
                    /\ fromRadio'[i].ver = radioCfg[fromRadio'[i].slot]
                 \/ i = Len(fromRadio') /\ fromRadio'[i].kind = "complete" /\ fromRadio'[i].nonce = n
           /\ \A s \in RadioSlots : \E i \in 1..Len(fromRadio') :
                 /\ Len(fromRadio) < i /\ i < Len(fromRadio')
                 /\ fromRadio'[i].kind = "cfg" /\ fromRadio'[i].slot = s
<1> DEFINE l == Len(fromRadio)
           k == Len(DumpOrder)
           m == Len(fromRadio')
<1>1. /\ k \in Nat /\ l \in Nat /\ m = l + k + 1
      /\ \A i \in 1..l : fromRadio'[i] = fromRadio[i]
      /\ \A i \in 1..k : /\ DumpOrder[i] \in Slots
                         /\ fromRadio'[l + i] = CfgFrame(DumpOrder[i], radioCfg[DumpOrder[i]])
      /\ fromRadio'[l + k + 1] = Complete(n)
    BY LineDump, LineLength DEF TypeOK
<1>2. /\ Complete(n).kind = "complete" /\ Complete(n).nonce = n
      /\ \A s, v : CfgFrame(s, v).kind = "cfg" /\ CfgFrame(s, v).slot = s /\ CfgFrame(s, v).ver = v
    BY DEF Complete, CfgFrame
<1>3. RadioSlots = {DumpOrder[i] : i \in 1..k}
    BY DEF RadioSlots
<1> HIDE DEF l, k, m
<1>4. ASSUME NEW j \in 1..k
      PROVE  /\ l + j \in 1..m /\ l < l + j /\ l + j < m
             /\ fromRadio'[l + j].kind = "cfg" /\ fromRadio'[l + j].slot = DumpOrder[j]
             /\ fromRadio'[l + j].ver = radioCfg[DumpOrder[j]]
    <2>1. l + j \in 1..m /\ l < l + j /\ l + j < m
        BY <1>1
    <2>2. fromRadio'[l + j] = CfgFrame(DumpOrder[j], radioCfg[DumpOrder[j]])
        BY <1>1
    <2> QED
        BY <1>2, <2>1, <2>2
<1>5. ASSUME NEW i \in 1..m
      PROVE  \/ i \in 1..l
             \/ /\ l < i /\ i < m /\ fromRadio'[i].kind = "cfg"
                /\ fromRadio'[i].slot \in RadioSlots /\ fromRadio'[i].slot \in Slots
                /\ fromRadio'[i].ver = radioCfg[fromRadio'[i].slot]
             \/ i = m /\ fromRadio'[i].kind = "complete" /\ fromRadio'[i].nonce = n
    <2>1. CASE i \in 1..l
        BY <2>1
    <2>2. CASE i = m
        BY <1>1, <1>2, <2>2
    <2>3. CASE i \notin 1..l /\ i # m
        <3>1. PICK j \in 1..k : i = l + j
            <4>1. i - l \in 1..k /\ i = l + (i - l)
                BY <1>1, <2>3
            <4> QED
                BY <4>1
        <3>2. DumpOrder[j] \in RadioSlots /\ DumpOrder[j] \in Slots
            BY <1>1, <1>3
        <3> QED
            BY <1>4, <3>1, <3>2
    <2> QED
        BY <2>1, <2>2, <2>3
<1>6. ASSUME NEW s \in RadioSlots
      PROVE  \E i \in 1..m : l < i /\ i < m /\ fromRadio'[i].kind = "cfg" /\ fromRadio'[i].slot = s
    BY <1>3, <1>4
<1>7. m \in Nat /\ l < m
    BY <1>1
<1> QED
    BY <1>1, <1>5, <1>6, <1>7 DEF l, m

LEMMA CutLine ==
    ASSUME TypeOK, RadioReboots
    PROVE  \E k \in Nat : /\ k <= Len(fromRadio) /\ Len(fromRadio') = k + 1
                          /\ \A i \in 1..k : fromRadio'[i] = fromRadio[i]
                          /\ fromRadio'[k + 1] = Rebooted
                          /\ \A i \in 1..Len(toRadio') : \E j \in 1..Len(toRadio) :
                                toRadio'[i] = toRadio[j]
<1>1. PICK k \in 0..Len(fromRadio), m \in 0..Len(toRadio) :
         /\ fromRadio' = Append(SubSeq(fromRadio, 1, k), Rebooted)
         /\ toRadio' = SubSeq(toRadio, m + 1, Len(toRadio))
    BY DEF RadioReboots
<1>2. k \in Nat /\ k <= Len(fromRadio)
    BY LineLength DEF TypeOK
<1> QED
    BY <1>1, <1>2, LineCut, RadioLoses DEF TypeOK

LEMMA RadioSources ==
    ASSUME TypeOK, SourcesInv, Joined \subseteq Joined',
           \/ RadioAnswers \/ RadioHears \/ RadioReboots \/ LinkFails \/ Cancel
           \/ \E s \in Slots : RadioUpdates(s)
           \/ \E p \in outbound : OutboundExpires(p)
           \/ UNCHANGED vars
    PROVE  SourcesInv'
<1>1. FramesOK' /\ HeardOK' /\ QueuesOK'
    BY RadioAside, SameNothing, SourcesKept
<1>2. ASSUME NEW f \in FromRadio, fromRadio' = Append(fromRadio, f),
             f.kind = "pkt" => f.pkt.from \in Sources /\ f.via = "radio"
      PROVE  LineOK'
    <2>1. /\ Len(fromRadio') = Len(fromRadio) + 1 /\ Len(fromRadio) \in Nat
          /\ \A i \in 1..Len(fromRadio) : fromRadio'[i] = fromRadio[i]
          /\ fromRadio'[Len(fromRadio) + 1] = f
        BY <1>2, LineAppend, LineLength DEF TypeOK
    <2>2. \A i \in 1..Len(fromRadio') : i \in 1..Len(fromRadio) \/ i = Len(fromRadio) + 1
        BY <2>1
    <2>3. ASSUME NEW i \in 1..Len(fromRadio'), fromRadio'[i].kind = "pkt"
          PROVE  fromRadio'[i].pkt.from \in Sources /\ fromRadio'[i].via = "radio"
        BY <1>2, <2>1, <2>2, <2>3 DEF SourcesInv, LineOK
    <2> QED
        BY <2>3, SourcesGrow DEF LineOK
<1>3. CASE RadioAnswers
    <2>1. SentOK'
        <3>1. \A i \in 1..Len(toRadio') :
                 i + 1 \in 1..Len(toRadio) /\ toRadio'[i] = toRadio[i + 1]
            BY <1>3, AnswersFrames, RadioReads DEF TypeOK
        <3> QED
            BY <3>1, SourcesGrow DEF SourcesInv, SentOK
    <2>2. LineOK'
        <3>1. CASE UNCHANGED fromRadio
            BY <3>1, SourcesKept
        <3>2. CASE /\ toRadio[1].nonce \in Nonces
                   /\ fromRadio' = fromRadio \o Append(Dump, Complete(toRadio[1].nonce))
            <4>1. /\ \A i \in 1..Len(fromRadio) : fromRadio'[i] = fromRadio[i]
                  /\ \A i \in 1..Len(fromRadio') :
                        i \in 1..Len(fromRadio) \/ fromRadio'[i].kind # "pkt"
                BY <3>2, DumpLine
            <4> QED
                BY <4>1, SourcesGrow DEF SourcesInv, LineOK
        <3>3. ASSUME toRadio[1].kind = "pkt", 1 \in 1..Len(toRadio), NEW f \in PktFrames,
                     fromRadio' = Append(fromRadio, f), f \in FromRadio,
                     f.pkt = toRadio[1].pkt, f.via = "radio"
              PROVE  LineOK'
            <4>1. f.pkt.from \in Sources
                BY <3>3 DEF SourcesInv, SentOK, Local, Sources
            <4> QED
                BY <1>2, <3>3, <4>1
        <3> QED
            BY <1>3, <3>1, <3>2, <3>3, AnswersFrames
    <2> QED
        BY <1>1, <2>1, <2>2 DEF SourcesInv
<1>4. CASE RadioHears
    <2>1. LineOK'
        BY <1>2, <1>4, HearsFrame DEF Sources
    <2> QED
        BY <1>1, <1>4, <2>1, SourcesKept DEF SourcesInv, RadioHears
<1>5. ASSUME NEW s \in Slots, RadioUpdates(s) PROVE SourcesInv'
    <2>1. LineOK'
        BY <1>2, <1>5, UpdatesFrame, FrameKinds
    <2> QED
        BY <1>1, <1>5, <2>1, SourcesKept DEF SourcesInv, RadioUpdates
<1>6. CASE RadioReboots
    <2>1. PICK k \in Nat :
             /\ k <= Len(fromRadio) /\ Len(fromRadio') = k + 1
             /\ \A i \in 1..k : fromRadio'[i] = fromRadio[i]
             /\ fromRadio'[k + 1] = Rebooted
             /\ \A i \in 1..Len(toRadio') : \E j \in 1..Len(toRadio) : toRadio'[i] = toRadio[j]
        BY <1>6, CutLine
    <2>2. SentOK'
        BY <2>1, SourcesGrow DEF SourcesInv, SentOK
    <2>3. fromRadio'[k + 1].kind # "pkt"
        BY <2>1, FrameKinds
    <2>4. ASSUME NEW i \in 1..Len(fromRadio'), fromRadio'[i].kind = "pkt"
          PROVE  i \in 1..Len(fromRadio) /\ fromRadio'[i] = fromRadio[i]
        <3>1. Len(fromRadio) \in Nat
            BY LineLength DEF TypeOK
        <3>2. i \in 1..k
            BY <2>1, <2>3, <2>4
        <3> QED
            BY <2>1, <3>1, <3>2
    <2>5. LineOK'
        BY <2>4, SourcesGrow DEF SourcesInv, LineOK
    <2> QED
        BY <1>1, <2>2, <2>5 DEF SourcesInv
<1>7. CASE UNCHANGED <<toRadio, fromRadio>>
    BY <1>1, <1>7, SourcesKept DEF SourcesInv
<1> QED
    BY <1>3, <1>4, <1>5, <1>6, <1>7 DEF LinkFails, Cancel, OutboundExpires, vars

LEMMA InitSources == Init => SourcesInv
<1> SUFFICES ASSUME Init PROVE SourcesInv
    OBVIOUS
<1>1. FramesOK /\ QueuesOK /\ HeardOK
    BY DEF Init, FramesOK, QueuesOK, HeardOK
<1>2. SentOK /\ LineOK
    BY DEF Init, SentOK, LineOK
<1> QED
    BY <1>1, <1>2 DEF SourcesInv

LEMMA NextSources ==
    ASSUME TypeOK, LocalsOK, RegistryInv, SourcesInv, [Next]_vars
    PROVE  SourcesInv'
<1>1. Joined \subseteq Joined'
    BY NextJoined
<1>2. ASSUME NEW t \in Threads, SharedStep(t) PROVE SourcesInv'
    BY <1>1, <1>2, CallSources, ReserveSources, WriteSources, CastSources, SendSources
    DEF SharedStep
<1>3. CASE SerialStep \/ SerialGlitch
    BY <1>1, <1>3, SerialSources
<1>4. ASSUME NEW c \in Clients,
             \/ ClientInput(c) \/ ReaderStep(c) \/ ReadError(c)
             \/ WriterStep(c) \/ WriterWrote(c) \/ WriterFails(c)
      PROVE  SourcesInv'
    BY <1>1, <1>4, ClientSources
<1>5. CASE \/ BootStart \/ BootScan \/ WebSend \/ RunReturns \/ ServerStep \/ ServerWakes
           \/ \E c \in Clients : AcceptConn(c) \/ AddClient(c)
    BY <1>1, <1>5, OthersSources
<1>6. CASE \/ RadioAnswers \/ RadioHears \/ RadioReboots \/ LinkFails \/ Cancel
           \/ \E s \in Slots : RadioUpdates(s)
           \/ \E p \in outbound : OutboundExpires(p)
           \/ UNCHANGED vars
    BY <1>1, <1>6, RadioSources
<1> QED
    BY <1>2, <1>3, <1>4, <1>5, <1>6 DEF Next

-----------------------------------------------------------------------------
(* What a step leaves of what has reached a client *)

\* readSerial does not move; or it moves without a frame to give up.
Aside == /\ pc'[Serial] = pc[Serial] /\ frm'[Serial] = frm[Serial]
         /\ todo'[Serial] = todo[Serial]
         /\ call'[Serial] = call[Serial] /\ victim'[Serial] = victim[Serial]
Idle == /\ pc[Serial] \notin {"cast", "send"} /\ At(Serial, pc[Serial])
        /\ frm'[Serial] = Nil \/ frm'[Serial].kind # "cfg"

Replaying(c) == pc[Reader(c)] = "replay"
Still == UNCHANGED snap /\ \A c \in Clients : Replaying(c)' <=> Replaying(c)

\* Nothing is lost, and a replay goes on or is over.
QueuesGrow == \A c \in Clients : \A f : Got(c, f) => Got(c, f)'
HandsKept == \A c \in clients' : \A f : Coming(c, f) \/ Slow(c) => Reached(c, f)'
SnapsKept == \A c \in Clients :
    IF Replaying(c)' THEN Replaying(c) /\ snap'[c] = snap[c] ELSE Held(snap'[c]) = {}
Newcomers == clients' \cap Joined \subseteq clients

LEMMA AsideKept ==
    ASSUME Aside PROVE HandsKept
BY DEF Aside, HandsKept, Reached, Coming, Slow

LEMMA IdleKept ==
    ASSUME Idle PROVE HandsKept
BY DEF Idle, HandsKept, Reached, Coming, Slow, At

LEMMA StillKept ==
    ASSUME DeliveryInv, Still PROVE SnapsKept
BY DEF DeliveryInv, SnapOK, Still, SnapsKept, Replaying

LEMMA SameQueues ==
    ASSUME UNCHANGED out
    PROVE  /\ QueuesGrow
           /\ \A c \in Clients : SlotsSent(c)' = SlotsSent(c) /\ MeshSeqs(c)' = MeshSeqs(c)
BY DEF QueuesGrow, Got, SlotsSent, MeshSeqs

\* What a frame adds to a queue.
LEMMA Queued ==
    ASSUME TypeOK, NEW c \in Clients, NEW f, Accept(c, f)
    PROVE  /\ Len(out[c]) \in Nat /\ Len(out'[c]) = Len(out[c]) + 1
           /\ out'[c][Len(out[c]) + 1] = f
           /\ \A i \in 1..Len(out[c]) : out'[c][i] = out[c][i]
           /\ 1..Len(out'[c]) = 1..Len(out[c]) \cup {Len(out[c]) + 1}
           /\ \A d \in Clients \ {c} : out'[d] = out[d]
<1>1. out'[c] = Append(out[c], f) /\ out[c] \in Seq(ToClient)
    BY DEF TypeOK, QueueType, Accept
<1>2. /\ Len(out'[c]) = Len(out[c]) + 1 /\ Len(out[c]) \in Nat
      /\ out'[c][Len(out[c]) + 1] = f
      /\ \A k \in 1..Len(out[c]) : out'[c][k] = out[c][k]
    BY <1>1
<1>3. 1..Len(out'[c]) = 1..Len(out[c]) \cup {Len(out[c]) + 1}
    BY <1>2
<1> QED
    BY <1>2, <1>3 DEF TypeOK, QueueType, Accept

LEMMA QueuedKept ==
    ASSUME TypeOK, NEW c \in Clients, NEW f, Accept(c, f)
    PROVE  QueuesGrow /\ Got(c, f)'
<1>1. Got(c, f)'
    BY Queued DEF Got
<1>2. ASSUME NEW d \in Clients, NEW g, Got(d, g) PROVE Got(d, g)'
    <2>1. PICK i \in 1..Len(out[d]) : out[d][i] = g
        BY <1>2 DEF Got
    <2>2. i \in 1..Len(out'[d]) /\ out'[d][i] = g
        BY <2>1, Queued
    <2> QED
        BY <2>2 DEF Got
<1> QED
    BY <1>1, <1>2 DEF QueuesGrow

LEMMA QueuedSlots ==
    ASSUME TypeOK, NEW c \in Clients, NEW f, Accept(c, f)
    PROVE  /\ f.kind # "cfg" => \A d \in Clients : SlotsSent(d)' = SlotsSent(d)
           /\ \A d \in Clients \ {c} : SlotsSent(d)' = SlotsSent(d)
           /\ SlotsSent(c) \subseteq SlotsSent(c)'
           /\ f.kind = "cfg" => SlotsSent(c)' = SlotsSent(c) \cup {f.slot}
<1>1. \A d \in Clients \ {c} : SlotsSent(d)' = SlotsSent(d)
    BY Queued DEF SlotsSent
<1>2. f.kind # "cfg" => SlotsSent(c)' = SlotsSent(c)
    BY Queued DEF SlotsSent
<1>3. ASSUME f.kind = "cfg" PROVE SlotsSent(c)' = SlotsSent(c) \cup {f.slot}
    <2> DEFINE m == Len(out[c]) + 1
               D == 1..Len(out[c])
    <2>1. /\ out'[c][m] = f /\ \A i \in D : out'[c][i] = out[c][i]
          /\ 1..Len(out'[c]) = D \cup {m}
        BY Queued
    <2> HIDE DEF m, D
    <2>2. /\ SlotsSent(c) = {out[c][i].slot : i \in {k \in D : out[c][k].kind = "cfg"}}
          /\ SlotsSent(c)' = {out'[c][i].slot : i \in {k \in D \cup {m} : out'[c][k].kind = "cfg"}}
        BY <2>1 DEF SlotsSent, D
    <2>3. SlotsSent(c)' \subseteq SlotsSent(c) \cup {f.slot}
        BY <2>1, <2>2
    <2>4. SlotsSent(c) \subseteq SlotsSent(c)'
        BY <2>1, <2>2
    <2>5. f.slot \in SlotsSent(c)'
        BY <1>3, <2>1, <2>2
    <2> QED
        BY <2>3, <2>4, <2>5
<1> QED
    BY <1>1, <1>2, <1>3

\* A connection that has not joined has had nothing, and nothing was heard from it.
LEMMA NotJoined ==
    ASSUME TypeOK, SourcesInv, NEW c \in Clients \ Joined
    PROVE  /\ SlotsSent(c) = {} /\ Dones(c) = {} /\ ~Replaying(c)
           /\ \A p \in heard : p.from # c
<1>1. out[c] = <<>>
    BY DEF SourcesInv, QueuesOK
<1>2. SlotsSent(c) = {} /\ Dones(c) = {}
    BY <1>1 DEF SlotsSent, Dones
<1>3. ~Replaying(c)
    BY DEF Joined, Replaying
<1>4. c \notin {"web", "mesh"}
    BY BrokerAssumptions
<1> QED
    BY <1>2, <1>3, <1>4 DEF SourcesInv, HeardOK, Sources

LEMMA ReachedKept ==
    ASSUME QueuesGrow, HandsKept, TypeOK'
    PROVE  \A c \in clients' : \A f : Reached(c, f) => Reached(c, f)'
<1>1. clients' \subseteq Clients
    BY DEF TypeOK, RegistryType
<1> QED
    BY <1>1 DEF QueuesGrow, HandsKept, Reached

\* A step that queues no part of the config and reads nothing.
LEMMA QuietDelivery ==
    ASSUME TypeOK, TypeOK', RegistryInv, SourcesInv, DeliveryInv,
           QueuesGrow, HandsKept, SnapsKept, Newcomers, HandOK',
           \A c \in Clients : SlotsSent(c)' = SlotsSent(c),
           UNCHANGED <<cache, heard>>
    PROVE  DeliveryInv'
<1>1. clients' \subseteq Clients
    BY DEF TypeOK, RegistryType
<1>2. \A c \in clients' : \A f : Reached(c, f) => Reached(c, f)'
    BY ReachedKept
<1>3. SnapOK'
    BY DEF SnapsKept, SnapOK, Replaying
<1>4. ASSUME NEW c \in clients', NEW s \in Held(cache)', Replaying(c)'
      PROVE  Reached(c, CfgFrame(s, cache[s]))' \/ snap'[c][s] = cache'[s]
    <2>1. Replaying(c) /\ snap'[c] = snap[c]
        BY <1>1, <1>4 DEF SnapsKept
    <2>2. c \in clients
        BY <1>1, <2>1, NotJoined DEF Newcomers
    <2>3. s \in Held(cache)
        BY DEF Held
    <2>4. Reached(c, CfgFrame(s, cache[s])) \/ snap[c][s] = cache[s]
        BY <2>1, <2>2, <2>3 DEF DeliveryInv, ReplayOK, Replaying
    <2> QED
        BY <1>2, <2>1, <2>4 DEF CfgFrame
<1>5. ASSUME NEW c \in clients', NEW s \in SlotsSent(c)', s \in Held(cache)'
      PROVE  Reached(c, CfgFrame(s, cache[s]))'
    <2>1. s \in SlotsSent(c)
        BY <1>1
    <2>2. c \in clients
        BY <1>1, <2>1, NotJoined DEF Newcomers
    <2>3. s \in Held(cache)
        BY <1>5 DEF Held
    <2>4. Reached(c, CfgFrame(s, cache[s]))
        BY <2>1, <2>2, <2>3 DEF DeliveryInv, SlotsOK
    <2> QED
        BY <1>2, <2>4 DEF CfgFrame
<1>6. ASSUME NEW p \in heard', p.from \in clients', p.port # "chat"
      PROVE  Reached(p.from, PktFrame(p, "radio"))'
    <2>1. p.from \in clients
        BY <1>1, <1>6, NotJoined DEF Newcomers
    <2>2. Reached(p.from, PktFrame(p, "radio"))
        BY <1>6, <2>1 DEF DeliveryInv, EchoOK
    <2> QED
        BY <1>2, <1>6, <2>2 DEF PktFrame
<1>7. ReplayOK'
    BY <1>4 DEF ReplayOK, Replaying
<1>8. SlotsOK'
    BY <1>5 DEF SlotsOK
<1>9. EchoOK'
    BY <1>6 DEF EchoOK
<1> QED
    BY <1>3, <1>7, <1>8, <1>9 DEF DeliveryInv

-----------------------------------------------------------------------------
(* Which steps leave readSerial and the replays alone *)

LEMMA MoveStill ==
    ASSUME TypeOK, NEW t \in Threads, NEW l, l # "replay", pc[t] # "replay", Goto(t, l),
           UNCHANGED snap
    PROVE  Still
BY ThreadTypes DEF TypeOK, WorkType, Goto, Still, Replaying

LEMMA StayStill == ASSUME UNCHANGED <<pc, snap>> PROVE Still
BY DEF Still, Replaying

LEMMA FinishStill ==
    ASSUME TypeOK, NEW t \in Threads, Finish(t), pc[t] # "replay", UNCHANGED snap
    PROVE  Still
<1>1. Home(t) # "replay"
    BY HomeLabel
<1> QED
    BY <1>1, MoveStill DEF Finish

LEMMA SharedStill ==
    ASSUME TypeOK, NEW t \in Threads, SharedStep(t) PROVE Still
<1>1. CASE CallStep(t)
    BY <1>1, StayStill DEF CallStep, Unlink, DropRemoved, Close, ReadRegistry, ReadCache,
       SetStatus
<1>2. CASE Reserve(t)
    BY <1>2, MoveStill DEF Reserve, At
<1>3. CASE Forward(t)
    BY <1>3, MoveStill, FinishStill DEF Forward, SerialFailed, At
<1>4. CASE WriteSerial(t)
    <2>1. AfterWrite(t) # "replay"
        BY HomeLabel DEF AfterWrite
    <2> QED
        BY <1>4, <2>1, MoveStill, FinishStill DEF WriteSerial, SerialFailed, At
<1>5. CASE Cast(t)
    BY <1>5, MoveStill, FinishStill DEF Cast, At
<1>6. ASSUME NEW c \in Clients, Send(t, c) PROVE Still
    BY <1>6, StayStill, FinishStill DEF Send, At
<1> QED
    BY <1>1, <1>2, <1>3, <1>4, <1>5, <1>6 DEF SharedStep

\* A goroutine touches its own locals only.
Own(t) == \A u \in Threads \ {t} :
    /\ pc'[u] = pc[u] /\ frm'[u] = frm[u] /\ todo'[u] = todo[u]
    /\ call'[u] = call[u] /\ victim'[u] = victim[u]

LEMMA FinishOwn ==
    ASSUME TypeOK, NEW t \in Threads, Finish(t)
    PROVE  \A u \in Threads \ {t} : pc'[u] = pc[u] /\ frm'[u] = frm[u] /\ todo'[u] = todo[u]
BY DEF TypeOK, WorkType, Finish, Goto

LEMMA CallOwn ==
    ASSUME TypeOK, NEW t \in Threads,
           UNCHANGED callVars \/ StartPublish(t) \/ \E c \in Clients : StartRemove(t, c)
    PROVE  \A u \in Threads \ {t} : call'[u] = call[u] /\ victim'[u] = victim[u]
BY DEF TypeOK, CallType, StartPublish, StartRemove

LEMMA SharedOwn ==
    ASSUME TypeOK, NEW t \in Threads, SharedStep(t) PROVE Own(t)
<1>1. CASE CallStep(t)
    BY <1>1 DEF TypeOK, CallType, CallStep, Unlink, DropRemoved, Close, ReadRegistry,
       ReadCache, SetStatus, Own
<1>2. CASE Reserve(t)
    BY <1>2 DEF TypeOK, WorkType, Reserve, Goto, Own
<1>3. CASE Forward(t) \/ WriteSerial(t)
    <2>1. UNCHANGED callVars
        BY <1>3 DEF Forward, WriteSerial, SerialFailed
    <2>2. CASE Finish(t)
        BY <2>1, <2>2, FinishOwn DEF Own
    <2>3. CASE /\ \E l : Goto(t, l)
               /\ frm' = frm \/ frm' = [frm EXCEPT ![t] = Nil]
               /\ UNCHANGED todo
        BY <2>1, <2>3 DEF TypeOK, WorkType, Goto, Own
    <2> QED
        BY <1>3, <2>2, <2>3 DEF Forward, WriteSerial, SerialFailed
<1>4. CASE Cast(t)
    <2>1. UNCHANGED callVars
        BY <1>4 DEF Cast
    <2>2. CASE Finish(t)
        BY <2>1, <2>2, FinishOwn DEF Own
    <2>3. CASE /\ Goto(t, "send") /\ UNCHANGED frm
               /\ \E x : todo' = [todo EXCEPT ![t] = x]
        BY <2>1, <2>3 DEF TypeOK, WorkType, Goto, Own
    <2> QED
        BY <1>4, <2>2, <2>3 DEF Cast
<1>5. ASSUME NEW c \in Clients, Send(t, c) PROVE Own(t)
    <2>1. \A u \in Threads \ {t} : call'[u] = call[u] /\ victim'[u] = victim[u]
        BY <1>5, CallOwn DEF Send, DisconnectSlow
    <2>2. CASE Finish(t)
        BY <2>1, <2>2, FinishOwn DEF Own
    <2>3. CASE UNCHANGED <<pc, frm>> /\ todo' = [todo EXCEPT ![t] = @ \ {c}]
        BY <2>1, <2>3 DEF TypeOK, WorkType, Own
    <2> QED
        BY <1>5, <2>2, <2>3 DEF Send
<1> QED
    BY <1>1, <1>2, <1>3, <1>4, <1>5 DEF SharedStep

LEMMA OwnAside == ASSUME NEW t \in Threads \ {Serial}, Own(t) PROVE Aside
BY ThreadTypes DEF Own, Aside

LEMMA ClientAside ==
    ASSUME TypeOK, NEW c \in Clients,
           \/ ClientInput(c) \/ ReaderStep(c) \/ ReadError(c)
           \/ WriterStep(c) \/ WriterWrote(c) \/ WriterFails(c)
    PROVE  Aside
<1>1. /\ Reader(c) \in Threads \ {Serial} /\ Writer(c) \in Threads \ {Serial}
      /\ Serial \in Threads
    BY ThreadTypes, DistinctThreads
<1>2. CASE ClientInput(c)
    <2>1. \/ UNCHANGED callVars \/ StartRemove(Reader(c), c)
        BY <1>2 DEF ClientInput, ReadWant, ReadDisconnect, ReadPacket, ReadOther, ReadRaw,
           ReadTraffic
    <2>2. /\ UNCHANGED pc \/ \E l : Goto(Reader(c), l)
          /\ UNCHANGED frm \/ \E m : frm' = [frm EXCEPT ![Reader(c)] = m]
          /\ UNCHANGED todo
        BY <1>2 DEF ClientInput, ReadWant, ReadDisconnect, ReadPacket, ReadOther, ReadRaw,
           ReadTraffic
    <2>3. call'[Serial] = call[Serial] /\ victim'[Serial] = victim[Serial]
        BY <1>1, <2>1, CallOwn
    <2> QED
        BY <1>1, <2>2, <2>3 DEF TypeOK, WorkType, Goto, Aside
<1>3. CASE ReaderStep(c) \/ ReadError(c)
    <2>1. \/ UNCHANGED callVars \/ StartRemove(Reader(c), c)
        BY <1>3 DEF ReaderStep, DropOwn, Note, Snapshot, Replay, ReadError, DisconnectSlow
    <2>2. call'[Serial] = call[Serial] /\ victim'[Serial] = victim[Serial]
        BY <1>1, <2>1, CallOwn
    <2>3. CASE Finish(Reader(c))
        BY <1>1, <2>2, <2>3, FinishOwn DEF Aside
    <2>4. CASE (UNCHANGED pc \/ \E l : Goto(Reader(c), l)) /\ UNCHANGED <<frm, todo>>
        BY <1>1, <2>2, <2>4 DEF TypeOK, WorkType, Goto, Aside
    <2> QED
        BY <1>3, <2>3, <2>4 DEF ReaderStep, DropOwn, Note, Snapshot, Replay, ReadError
<1>4. CASE WriterStep(c) \/ WriterWrote(c) \/ WriterFails(c)
    <2>1. \/ UNCHANGED callVars \/ StartRemove(Writer(c), c)
        BY <1>4 DEF WriterStep, WriterStops, WriterTakes, WriterWrote, WriterFails
    <2>2. call'[Serial] = call[Serial] /\ victim'[Serial] = victim[Serial]
        BY <1>1, <2>1, CallOwn
    <2>3. (\E l : Goto(Writer(c), l)) /\ UNCHANGED <<frm, todo>>
        BY <1>4 DEF WriterStep, WriterStops, WriterTakes, WriterWrote, WriterFails
    <2> QED
        BY <1>1, <2>2, <2>3 DEF TypeOK, WorkType, Goto, Aside
<1> QED
    BY <1>2, <1>3, <1>4

LEMMA OthersAside ==
    ASSUME TypeOK,
           \/ BootStart \/ BootScan \/ WebSend \/ RunReturns \/ ServerStep \/ ServerWakes
           \/ \E c \in Clients : AcceptConn(c) \/ AddClient(c)
    PROVE  Aside
<1>1. \/ UNCHANGED callVars \/ StartPublish(Acceptor)
      \/ \E c \in Clients : StartRemove(Server, c)
    BY DEF BootStart, BootScan, WebSend, RunReturns, ServerStep, ServerStatus, ListClients,
       CloseSerial, RemoveListed, ServerWakes, AcceptConn, AddClient
<1>2. call'[Serial] = call[Serial] /\ victim'[Serial] = victim[Serial]
    BY <1>1, CallOwn, ThreadTypes, DistinctThreads
<1>3. pc'[Serial] = pc[Serial]
    BY ThreadTypes, DistinctThreads DEF TypeOK, WorkType, Goto, BootStart, BootScan, WebSend,
       RunReturns, ServerStep, ServerStatus, ListClients, CloseSerial, RemoveListed,
       ServerWakes, AcceptConn, AddClient
<1>4. frm'[Serial] = frm[Serial] /\ todo'[Serial] = todo[Serial]
    BY ThreadTypes, DistinctThreads DEF TypeOK, WorkType, BootStart, BootScan, WebSend,
       RunReturns, ServerStep, ServerStatus, ListClients, CloseSerial, RemoveListed,
       ServerWakes, AcceptConn, AddClient
<1> QED
    BY <1>2, <1>3, <1>4 DEF Aside

LEMMA ClientStill ==
    ASSUME TypeOK, NEW c \in Clients,
           \/ ClientInput(c) \/ DropOwn(c) \/ Note(c) \/ ReadError(c)
           \/ WriterStep(c) \/ WriterWrote(c) \/ WriterFails(c)
    PROVE  Still
<1>1. Reader(c) \in Threads /\ Writer(c) \in Threads
    BY ThreadTypes
<1>2. UNCHANGED snap
    BY DEF ClientInput, ReadWant, ReadDisconnect, ReadPacket, ReadOther, ReadRaw,
       ReadTraffic, DropOwn, Note, ReadError, WriterStep, WriterStops, WriterTakes,
       WriterWrote, WriterFails
<1>3. CASE ClientInput(c)
    <2>1. UNCHANGED pc \/ \E l \in Labels \ {"replay"} : At(Reader(c), "read") /\ Goto(Reader(c), l)
        BY <1>3 DEF ClientInput, ReadWant, ReadDisconnect, ReadPacket, ReadOther, ReadRaw,
           ReadTraffic, Message, Labels
    <2> QED
        BY <1>1, <1>2, <2>1, StayStill, MoveStill DEF At
<1>4. CASE DropOwn(c) \/ Note(c) \/ ReadError(c)
    BY <1>1, <1>2, <1>4, MoveStill DEF DropOwn, Note, ReadError, At
<1>5. CASE WriterStep(c) \/ WriterWrote(c) \/ WriterFails(c)
    BY <1>1, <1>2, <1>5, MoveStill DEF WriterStep, WriterStops, WriterTakes, WriterWrote,
       WriterFails, At
<1> QED
    BY <1>3, <1>4, <1>5

LEMMA OthersStill ==
    ASSUME TypeOK, RegistryInv,
           \/ BootStart \/ BootScan \/ WebSend \/ RunReturns \/ ServerStep \/ ServerWakes
           \/ \E c \in Clients : AcceptConn(c) \/ AddClient(c)
    PROVE  Still
<1>1. UNCHANGED snap
    BY DEF BootStart, BootScan, WebSend, RunReturns, ServerStep, ServerStatus, ListClients,
       CloseSerial, RemoveListed, ServerWakes, AcceptConn, AddClient
<1>2. CASE BootStart \/ BootScan \/ WebSend \/ RunReturns
    BY <1>1, <1>2, StayStill, MoveStill, ThreadTypes
    DEF BootStart, BootScan, WebSend, RunReturns, At
<1>3. CASE ServerStep \/ ServerWakes \/ \E c \in Clients : AcceptConn(c)
    BY <1>1, <1>3, StayStill, MoveStill, ThreadTypes
    DEF ServerStep, ServerStatus, ListClients, CloseSerial, RemoveListed, ServerWakes,
        AcceptConn, At
<1>4. ASSUME NEW c \in Clients, AddClient(c) PROVE Still
    <2>1. pc[Reader(c)] = "off"
        BY <1>4 DEF RegistryInv, JoinedOK, AcceptorOK, Joined, AddClient
    <2>2. /\ pc'[Reader(c)] = "read"
          /\ \A d \in Clients \ {c} : pc'[Reader(d)] = pc[Reader(d)]
        BY <1>4, ThreadTypes, DistinctThreads DEF TypeOK, WorkType, AddClient
    <2> QED
        BY <1>1, <2>1, <2>2 DEF Still, Replaying
<1> QED
    BY <1>2, <1>3, <1>4

-----------------------------------------------------------------------------
(* One lemma per group of actions *)

LEMMA AsideDelivery ==
    ASSUME TypeOK, TypeOK', RegistryInv, SourcesInv, DeliveryInv,
           Aside, Still, Newcomers, QueuesGrow,
           \A c \in Clients : SlotsSent(c)' = SlotsSent(c), UNCHANGED <<cache, heard>>
    PROVE  DeliveryInv'
<1>1. HandOK'
    BY DEF DeliveryInv, HandOK, Aside
<1> QED
    BY <1>1, AsideKept, StillKept, QuietDelivery

LEMMA IdleDelivery ==
    ASSUME TypeOK, TypeOK', RegistryInv, SourcesInv, DeliveryInv,
           Idle, Still, Newcomers, UNCHANGED <<out, cache, heard>>
    PROVE  DeliveryInv'
<1>1. HandOK'
    BY DEF HandOK, Idle
<1> QED
    BY <1>1, IdleKept, StillKept, SameQueues, QuietDelivery

\* At a step at which it broadcasts nothing, readSerial has no part of the config.
LEMMA NoHand ==
    ASSUME DeliveryInv, NEW l, At(Serial, l), l \notin {"cast", "send"}
    PROVE  /\ frm[Serial] = Nil \/ frm[Serial].kind # "cfg"
           /\ frm'[Serial] = frm[Serial] => Idle
           /\ frm'[Serial] = Nil => Idle
           /\ frm'[Serial].kind # "cfg" => Idle
BY DEF DeliveryInv, HandOK, At, Idle

LEMMA SharedRest ==
    ASSUME TypeOK, RegistryInv, NEW t \in Threads, SharedStep(t)
    PROVE  UNCHANGED <<cache, heard>> /\ clients' \subseteq clients
BY DEF SharedStep, CallStep, Unlink, DropRemoved, Close, ReadRegistry, ReadCache, SetStatus,
   Reserve, Forward, WriteSerial, SerialFailed, Cast, Send

\* What another goroutine sends is a packet.
LEMMA SentByOthers ==
    ASSUME LocalsOK, SourcesInv, NEW t \in Threads \ {Serial}, NEW c \in Clients, Send(t, c)
    PROVE  frm[t] \in PktFrames /\ frm[t].kind = "pkt" /\ frm[t].pkt.from \in Local
<1>1. frm[t] \in ToClient /\ frm[t] # Nil
    BY NilIsNoFrame DEF LocalsOK, Send, At
<1>2. frm[t].kind \notin {"cfg", "done"}
    BY <1>1 DEF SourcesInv, FramesOK
<1>3. frm[t] \in PktFrames /\ frm[t].kind = "pkt"
    BY <1>1, <1>2, FrameKinds DEF ToClient
<1> QED
    BY <1>1, <1>3 DEF SourcesInv, FramesOK

LEMMA OtherSendDelivery ==
    ASSUME TypeOK, TypeOK', LocalsOK, RegistryInv, SourcesInv, DeliveryInv,
           NEW t \in Threads \ {Serial}, SharedStep(t)
    PROVE  DeliveryInv'
<1>1. Aside /\ Still /\ UNCHANGED <<cache, heard>> /\ Newcomers
    BY SharedOwn, OwnAside, SharedStill, SharedRest DEF Newcomers
<1>2. CASE UNCHANGED out
    BY <1>1, <1>2, SameQueues, AsideDelivery
<1>3. ASSUME NEW c \in Clients, Send(t, c), Accept(c, frm[t]) PROVE DeliveryInv'
    <2>1. frm[t].kind # "cfg"
        BY <1>3, SentByOthers
    <2>2. QueuesGrow /\ \A d \in Clients : SlotsSent(d)' = SlotsSent(d)
        BY <1>3, <2>1, QueuedKept, QueuedSlots
    <2> QED
        BY <1>1, <2>2, AsideDelivery
<1>4. UNCHANGED out \/ \E c \in Clients : Send(t, c) /\ Accept(c, frm[t])
    <2>1. CASE CallStep(t) \/ Reserve(t) \/ Forward(t) \/ WriteSerial(t) \/ Cast(t)
        BY <2>1 DEF CallStep, Unlink, DropRemoved, Close, ReadRegistry, ReadCache, SetStatus,
           Reserve, Forward, WriteSerial, SerialFailed, Cast
    <2>2. ASSUME NEW c \in Clients, Send(t, c) PROVE UNCHANGED out \/ Accept(c, frm[t])
        BY <2>2 DEF Send
    <2> QED
        BY <2>1, <2>2 DEF SharedStep
<1> QED
    BY <1>2, <1>3, <1>4

LEMMA SerialCallDelivery ==
    ASSUME TypeOK, TypeOK', RegistryInv, SourcesInv, DeliveryInv, CallStep(Serial)
    PROVE  DeliveryInv'
<1>1. /\ UNCHANGED <<pc, frm, todo, snap, out, cache, heard>> /\ clients' \subseteq clients
      /\ call[Serial] = "unlink" => clients' = clients \ {victim[Serial]}
    BY DEF CallStep, Unlink, DropRemoved, Close, ReadRegistry, ReadCache, SetStatus
<1>2. HandsKept
    BY <1>1 DEF HandsKept, Reached, Coming, Slow
<1>3. HandOK' /\ Newcomers
    BY <1>1 DEF DeliveryInv, HandOK, Newcomers
<1> QED
    BY <1>1, <1>2, <1>3, StayStill, StillKept, SameQueues, QuietDelivery

LEMMA SerialWriteDelivery ==
    ASSUME TypeOK, TypeOK', RegistryInv, SourcesInv, DeliveryInv,
           Reserve(Serial) \/ Forward(Serial) \/ WriteSerial(Serial)
    PROVE  DeliveryInv'
<1>1. SharedStep(Serial) /\ Serial \in Threads
    BY ThreadTypes DEF SharedStep
<1>2. Still /\ UNCHANGED <<cache, heard>> /\ Newcomers
    BY <1>1, SharedStill, SharedRest DEF Newcomers
<1>3. UNCHANGED out
    BY DEF Reserve, Forward, WriteSerial, SerialFailed
<1>4. \E l \in {"reserve", "forward", "write"} : At(Serial, l)
    BY DEF Reserve, Forward, WriteSerial
<1>5. \/ frm'[Serial] = frm[Serial] \/ frm'[Serial] = Nil
      \/ \E n \in Nonces : frm'[Serial] = WantMsg(n)
    BY <1>1 DEF TypeOK, WorkType, Reserve, Forward, WriteSerial, SerialFailed, Finish,
       FreeNonces
<1>6. \A n \in Nonces : WantMsg(n).kind # "cfg"
    BY DEF WantMsg
<1>7. Idle
    BY <1>4, <1>5, <1>6, NoHand
<1> QED
    BY <1>2, <1>3, <1>7, IdleDelivery

\* readSerial begins to visit whoever is registered.
LEMMA SerialCastDelivery ==
    ASSUME TypeOK, TypeOK', RegistryInv, SourcesInv, DeliveryInv, Cast(Serial)
    PROVE  DeliveryInv'
<1>1. SharedStep(Serial) /\ Serial \in Threads
    BY ThreadTypes DEF SharedStep
<1>2. /\ Still /\ Newcomers /\ UNCHANGED <<cache, heard, out, clients, call>>
      /\ call[Serial] = "none"
    BY <1>1, SharedStill, SharedRest DEF Newcomers, Cast, At
<1>3. clients \ {Serial[2]} = clients
    <2>1. Serial[2] = Nil
        BY DEF Serial
    <2> QED
        BY <2>1, BrokerAssumptions DEF TypeOK, RegistryType
<1>4. CASE clients = {} /\ frm'[Serial] = Nil
    <2>1. HandsKept /\ HandOK'
        BY <1>2, <1>4 DEF HandsKept, HandOK
    <2> QED
        BY <1>2, <2>1, StillKept, SameQueues, QuietDelivery
<1>5. CASE frm' = frm /\ pc'[Serial] = "send" /\ todo'[Serial] = clients
    <2>1. HandsKept
        BY <1>2, <1>5 DEF HandsKept, Reached, Coming, Slow
    <2>2. HandOK'
        BY <1>2, <1>5 DEF DeliveryInv, HandOK
    <2> QED
        BY <1>2, <2>1, <2>2, StillKept, SameQueues, QuietDelivery
<1> QED
    BY <1>1, <1>3, <1>4, <1>5 DEF TypeOK, WorkType, Cast, Finish, Goto

\* It queues the frame for c, or c is closed, or it is about to remove c.
LEMMA SerialSendKept ==
    ASSUME TypeOK, TypeOK', RegistryInv, NEW c \in Clients, Send(Serial, c)
    PROVE  /\ QueuesGrow /\ HandsKept
           /\ UNCHANGED out \/ Accept(c, frm[Serial])
           /\ (frm'[Serial] = frm[Serial] /\ pc'[Serial] = "send") \/ frm'[Serial] = Nil
           /\ UNCHANGED clients
<1>1. Serial \in Threads /\ pc[Serial] = "send" /\ call[Serial] = "none"
    BY ThreadTypes DEF Send, At
<1>2. UNCHANGED out \/ Accept(c, frm[Serial])
    BY DEF Send
<1>3. QueuesGrow
    BY <1>2, SameQueues, QueuedKept
<1>4. UNCHANGED clients /\ clients \subseteq Clients
    BY DEF Send, TypeOK, RegistryType
<1>5. \/ /\ frm'[Serial] = frm[Serial] /\ pc'[Serial] = "send"
         /\ todo'[Serial] = todo[Serial] \ {c}
      \/ frm'[Serial] = Nil /\ todo[Serial] = {c}
    BY <1>1 DEF TypeOK, WorkType, Send, Finish
<1>6. ASSUME NEW f, f = frm[Serial], c \in clients PROVE Got(c, f)' \/ Slow(c)'
    <2>1. CASE Accept(c, frm[Serial])
        BY <1>6, <2>1, QueuedKept
    <2>2. CASE (closed[c] \/ ~HasRoom(c)) /\ DisconnectSlow(Serial, c)
        BY <1>1, <1>6, <2>2 DEF TypeOK, CallType, RegistryInv, RegistryOK, DisconnectSlow,
           StartRemove, Slow
    <2> QED
        BY <2>1, <2>2 DEF Send
<1>7. HandsKept
    <2> SUFFICES ASSUME NEW d \in clients', NEW f, Coming(d, f) \/ Slow(d)
                 PROVE  Reached(d, f)'
        BY DEF HandsKept
    <2>1. Coming(d, f) /\ frm[Serial] = f /\ d \in todo[Serial]
        BY <1>1 DEF Slow, Coming
    <2>2. CASE d = c
        BY <1>4, <1>6, <2>1, <2>2 DEF Reached
    <2>3. CASE d # c
        BY <1>5, <2>1, <2>3 DEF Reached, Coming
    <2> QED
        BY <2>2, <2>3
<1> QED
    BY <1>2, <1>3, <1>4, <1>5, <1>7

LEMMA SerialSendDelivery ==
    ASSUME TypeOK, TypeOK', LocalsOK, RegistryInv, SourcesInv, DeliveryInv,
           NEW c \in Clients, Send(Serial, c)
    PROVE  DeliveryInv'
<1>1. SharedStep(Serial) /\ Serial \in Threads
    BY ThreadTypes DEF SharedStep
<1>2. /\ Still /\ Newcomers /\ UNCHANGED <<cache, heard, clients>>
    BY <1>1, SharedStill, SharedRest DEF Newcomers, Send
<1>3. /\ QueuesGrow /\ HandsKept
      /\ UNCHANGED out \/ Accept(c, frm[Serial])
      /\ (frm'[Serial] = frm[Serial] /\ pc'[Serial] = "send") \/ frm'[Serial] = Nil
    BY SerialSendKept
<1>4. HandOK'
    BY <1>2, <1>3 DEF DeliveryInv, HandOK
<1>5. CASE \A d \in Clients : SlotsSent(d)' = SlotsSent(d)
    BY <1>2, <1>3, <1>4, <1>5, StillKept, QuietDelivery
<1>6. CASE Accept(c, frm[Serial]) /\ frm[Serial].kind = "cfg"
    <2>0. PICK f : f = frm[Serial]
        OBVIOUS
    <2>1. f \in ToClient /\ f # Nil
        BY <1>1, <2>0, NilIsNoFrame DEF LocalsOK, Send, At
    <2>2. f \in CfgFrames
        BY <1>6, <2>0, <2>1, FrameKinds DEF ToClient
    <2>3. f = CfgFrame(f.slot, cache[f.slot])
        BY <1>6, <2>0, <2>1, <2>2 DEF DeliveryInv, HandOK, CfgFrames, CfgFrame
    <2>4. /\ \A d \in Clients \ {c} : SlotsSent(d)' = SlotsSent(d)
          /\ SlotsSent(c)' = SlotsSent(c) \cup {f.slot}
        BY <1>6, <2>0, QueuedSlots
    <2>5. Got(c, f)'
        BY <1>6, <2>0, QueuedKept
    <2>6. \A d \in clients' : \A g : Reached(d, g) => Reached(d, g)'
        BY <1>3, ReachedKept
    <2>7. SnapOK' /\ EchoOK'
        <3>1. SnapOK'
            BY <1>2 DEF DeliveryInv, SnapOK, Still, Replaying
        <3>2. EchoOK'
            BY <1>2, <2>6 DEF DeliveryInv, EchoOK, PktFrame
        <3> QED
            BY <3>1, <3>2
    <2>8. ReplayOK'
        <3> SUFFICES ASSUME NEW d \in clients', NEW s \in Held(cache)', pc'[Reader(d)] = "replay"
                     PROVE  Reached(d, CfgFrame(s, cache[s]))' \/ snap'[d][s] = cache'[s]
            BY DEF ReplayOK
        <3>1. d \in clients /\ s \in Held(cache) /\ pc[Reader(d)] = "replay" /\ snap' = snap
            BY <1>2 DEF TypeOK, RegistryType, Still, Replaying, Held
        <3>2. Reached(d, CfgFrame(s, cache[s])) \/ snap[d][s] = cache[s]
            BY <3>1 DEF DeliveryInv, ReplayOK
        <3> QED
            BY <1>2, <2>6, <3>1, <3>2 DEF CfgFrame
    <2>9. SlotsOK'
        <3> SUFFICES ASSUME NEW d \in clients', NEW s \in SlotsSent(d)', s \in Held(cache)
                     PROVE  Reached(d, CfgFrame(s, cache[s]))'
            BY <1>2 DEF SlotsOK, Held
        <3>1. d \in clients /\ d \in Clients
            BY <1>2 DEF TypeOK, RegistryType
        <3>2. CASE s \in SlotsSent(d)
            <4>1. Reached(d, CfgFrame(s, cache[s]))
                BY <3>1, <3>2 DEF DeliveryInv, SlotsOK
            <4> QED
                BY <1>2, <2>6, <4>1 DEF CfgFrame
        <3>3. CASE d = c /\ s = f.slot
            <4>1. Reached(c, f)'
                BY <2>5 DEF Reached
            <4> QED
                BY <1>2, <2>3, <3>3, <4>1 DEF CfgFrame
        <3> QED
            BY <2>4, <3>1, <3>2, <3>3
    <2> QED
        BY <1>4, <2>7, <2>8, <2>9 DEF DeliveryInv
<1> QED
    BY <1>3, <1>5, <1>6, SameQueues, QueuedSlots

\* Before it reads a frame, readSerial has none: what has reached a client is queued.
LEMMA ReadReached ==
    ASSUME NEW kind, ReadFrame(kind), UNCHANGED out, NEW c, NEW f, Reached(c, f)
    PROVE  Got(c, f) /\ Reached(c, f)'
BY DEF ReadFrame, At, Reached, Coming, Slow, Got

LEMMA SerialConfigDelivery ==
    ASSUME TypeOK, TypeOK', RegistryInv, SourcesInv, DeliveryInv, SerialConfig
    PROVE  DeliveryInv'
<1>1. PICK f : f = Head(fromRadio)
    OBVIOUS
<1>2. /\ ReadFrame("cfg") /\ UNCHANGED <<out, clients, heard, snap>>
      /\ cache' = [cache EXCEPT ![f.slot] = f.ver] /\ frm'[Serial] = f /\ pc'[Serial] = "cast"
    BY <1>1, ThreadTypes DEF SerialConfig, Goto, TypeOK, WorkType
<1>3. f \in CfgFrames /\ f.kind = "cfg" /\ f.slot \in Slots
    BY <1>1, <1>2, HeadTyped, FrameKinds DEF TypeOK, ReadFrame
<1>4. f = CfgFrame(f.slot, f.ver)
    BY <1>3 DEF CfgFrames, CfgFrame
<1>5. \A c : Reached(c, f)'
    BY <1>2 DEF Reached, Coming
<1>6. /\ cache'[f.slot] = f.ver /\ \A s \in Slots \ {f.slot} : cache'[s] = cache[s]
    BY <1>2, <1>3 DEF TypeOK, ConfigType
<1>7. \A c \in Clients : Replaying(c)' <=> Replaying(c)
    BY ThreadTypes, DistinctThreads DEF TypeOK, WorkType, SerialConfig, Goto, Replaying
<1>8. HandOK'
    BY <1>2, <1>6 DEF HandOK
<1>9. SnapOK'
    BY <1>2, <1>7 DEF DeliveryInv, SnapOK, Replaying
<1>10. ASSUME NEW c \in clients', NEW s \in Held(cache)', s = f.slot
       PROVE  Reached(c, CfgFrame(s, cache[s]))'
    BY <1>4, <1>5, <1>6, <1>10 DEF CfgFrame
<1>11. ASSUME NEW c \in clients', NEW s \in Held(cache)', s # f.slot,
              Reached(c, CfgFrame(s, cache[s]))
       PROVE  Reached(c, CfgFrame(s, cache[s]))'
    <2>1. PICK v : v = cache[s] /\ v = cache'[s]
        BY <1>6, <1>11 DEF Held
    <2>2. Reached(c, CfgFrame(s, v))
        BY <1>11, <2>1
    <2>3. Reached(c, CfgFrame(s, v))'
        BY <1>2, <2>2, ReadReached DEF CfgFrame
    <2> QED
        BY <2>1, <2>3 DEF CfgFrame
<1>12. \A s \in Held(cache)' : s # f.slot => s \in Held(cache)
    BY <1>6 DEF Held
<1>13. ReplayOK'
    <2> SUFFICES ASSUME NEW c \in clients', NEW s \in Held(cache)', pc'[Reader(c)] = "replay"
                 PROVE  Reached(c, CfgFrame(s, cache[s]))' \/ snap'[c][s] = cache'[s]
        BY DEF ReplayOK
    <2>1. CASE s = f.slot
        BY <1>10, <2>1
    <2>2. CASE s # f.slot
        <3>1. c \in clients /\ s \in Held(cache) /\ pc[Reader(c)] = "replay"
            BY <1>2, <1>7, <1>12, <2>2 DEF TypeOK, RegistryType, Replaying
        <3>2. Reached(c, CfgFrame(s, cache[s])) \/ snap[c][s] = cache[s]
            BY <3>1 DEF DeliveryInv, ReplayOK
        <3>3. cache'[s] = cache[s]
            BY <1>6, <2>2 DEF Held
        <3> QED
            BY <1>2, <1>11, <2>2, <3>2, <3>3
    <2> QED
        BY <2>1, <2>2
<1>14. SlotsOK'
    <2> SUFFICES ASSUME NEW c \in clients', NEW s \in SlotsSent(c)', s \in Held(cache)'
                 PROVE  Reached(c, CfgFrame(s, cache[s]))'
        BY DEF SlotsOK
    <2>1. CASE s = f.slot
        BY <1>10, <2>1
    <2>2. CASE s # f.slot
        <3>1. c \in clients /\ s \in SlotsSent(c) /\ s \in Held(cache)
            BY <1>2, <1>12, <2>2 DEF SlotsSent
        <3> QED
            BY <1>11, <2>2, <3>1 DEF DeliveryInv, SlotsOK
    <2> QED
        BY <2>1, <2>2
<1>15. EchoOK'
    <2> SUFFICES ASSUME NEW p \in heard', p.from \in clients', p.port # "chat"
                 PROVE  Reached(p.from, PktFrame(p, "radio"))'
        BY DEF EchoOK
    <2>1. Reached(p.from, PktFrame(p, "radio"))
        BY <1>2 DEF DeliveryInv, EchoOK
    <2> QED
        BY <1>2, <2>1, ReadReached DEF PktFrame
<1> QED
    BY <1>8, <1>9, <1>13, <1>14, <1>15 DEF DeliveryInv

LEMMA SerialRebootedDelivery ==
    ASSUME TypeOK, TypeOK', RegistryInv, SourcesInv, DeliveryInv, SerialRebooted
    PROVE  DeliveryInv'
<1>1. /\ ReadFrame("rebooted") /\ UNCHANGED <<out, clients, heard, snap, frm>>
      /\ Held(cache)' = {} /\ Goto(Serial, "swap")
    BY DEF SerialRebooted, ResetCache, NoCache, Held
<1>2. Still
    BY <1>1, MoveStill, ThreadTypes DEF ReadFrame, At
<1>3. SnapOK'
    BY <1>2, StillKept DEF SnapsKept, SnapOK, Replaying
<1>4. HandOK'
    BY <1>1, NoHand DEF ReadFrame, HandOK
<1>5. ReplayOK' /\ SlotsOK'
    BY <1>1 DEF ReplayOK, SlotsOK
<1>6. EchoOK'
    <2> SUFFICES ASSUME NEW p \in heard', p.from \in clients', p.port # "chat"
                 PROVE  Reached(p.from, PktFrame(p, "radio"))'
        BY DEF EchoOK
    <2>1. Reached(p.from, PktFrame(p, "radio"))
        BY <1>1 DEF DeliveryInv, EchoOK
    <2> QED
        BY <1>1, <2>1, ReadReached DEF PktFrame
<1> QED
    BY <1>3, <1>4, <1>5, <1>6 DEF DeliveryInv

\* The echo of a client's packet goes to that client, whoever still remembers it.
LEMMA SerialPacketDelivery ==
    ASSUME TypeOK, TypeOK', RegistryInv, SourcesInv, DeliveryInv, SerialPacket
    PROVE  DeliveryInv'
<1>1. PICK f, p : f = Head(fromRadio) /\ p = f.pkt
    OBVIOUS
<1>2. /\ ReadFrame("pkt") /\ UNCHANGED <<out, clients, cache, snap>>
      /\ heard' = heard \cup {p}
    BY <1>1 DEF SerialPacket
<1>3. f \in PktFrames /\ f.kind = "pkt" /\ f = PktFrame(p, "radio")
    <2>1. f \in PktFrames /\ f.kind = "pkt"
        BY <1>1, <1>2, HeadTyped, FrameKinds DEF TypeOK, ReadFrame
    <2>2. f.via = "radio"
        <3>1. 1 \in 1..Len(fromRadio) /\ Head(fromRadio) = fromRadio[1]
            BY <1>2, LineRead DEF TypeOK, ReadFrame
        <3> QED
            BY <1>1, <2>1, <3>1 DEF SourcesInv, LineOK
    <2> QED
        BY <1>1, <2>1, <2>2 DEF PktFrames, PktFrame
<1>4. \/ UNCHANGED <<frm, todo>> /\ pc'[Serial] = "loop" /\ p.port = "chat"
      \/ frm'[Serial] = f /\ pc'[Serial] = "cast"
      \/ frm'[Serial] = f /\ pc'[Serial] = "send" /\ todo'[Serial] = {p.from}
    <2>1. Origin(p) \in {p.from, Nil}
        BY DEF Origin
    <2> QED
        BY <1>1, <2>1, ThreadTypes DEF SerialPacket, Goto, TypeOK, WorkType, Suppresses
<1>5. /\ \A c \in Clients : Replaying(c)' <=> Replaying(c)
    BY ThreadTypes, DistinctThreads DEF TypeOK, WorkType, SerialPacket, Goto, Replaying
<1>6. frm[Serial] = Nil \/ frm[Serial].kind # "cfg"
    BY <1>2, NoHand DEF ReadFrame
<1>7. HandOK'
    BY <1>3, <1>4, <1>6 DEF HandOK
<1>8. \A c : \A g : Reached(c, g) => Reached(c, g)'
    BY <1>2, ReadReached
<1>9. SnapOK'
    BY <1>2, <1>5 DEF DeliveryInv, SnapOK, Replaying
<1>10. ReplayOK'
    <2> SUFFICES ASSUME NEW c \in clients', NEW s \in Held(cache)', pc'[Reader(c)] = "replay"
                 PROVE  Reached(c, CfgFrame(s, cache[s]))' \/ snap'[c][s] = cache'[s]
        BY DEF ReplayOK
    <2>1. c \in clients /\ s \in Held(cache) /\ pc[Reader(c)] = "replay"
        BY <1>2, <1>5 DEF TypeOK, RegistryType, Replaying, Held
    <2>2. Reached(c, CfgFrame(s, cache[s])) \/ snap[c][s] = cache[s]
        BY <2>1 DEF DeliveryInv, ReplayOK
    <2> QED
        BY <1>2, <1>8, <2>2 DEF CfgFrame
<1>11. SlotsOK'
    <2> SUFFICES ASSUME NEW c \in clients', NEW s \in SlotsSent(c)', s \in Held(cache)'
                 PROVE  Reached(c, CfgFrame(s, cache[s]))'
        BY DEF SlotsOK
    <2>1. c \in clients /\ s \in SlotsSent(c) /\ s \in Held(cache)
        BY <1>2 DEF SlotsSent, Held
    <2>2. Reached(c, CfgFrame(s, cache[s]))
        BY <2>1 DEF DeliveryInv, SlotsOK
    <2> QED
        BY <1>2, <1>8, <2>2 DEF CfgFrame
<1>12. EchoOK'
    <2> SUFFICES ASSUME NEW q \in heard', q.from \in clients', q.port # "chat"
                 PROVE  Reached(q.from, PktFrame(q, "radio"))'
        BY DEF EchoOK
    <2>1. CASE q \in heard
        <3>1. Reached(q.from, PktFrame(q, "radio"))
            BY <1>2, <2>1 DEF DeliveryInv, EchoOK
        <3> QED
            BY <1>8, <3>1 DEF PktFrame
    <2>2. CASE q = p
        <3>1. Reached(p.from, f)'
            BY <1>4, <2>2 DEF Reached, Coming
        <3> QED
            BY <1>3, <2>2, <3>1 DEF PktFrame
    <2> QED
        BY <1>2, <2>1, <2>2
<1> QED
    BY <1>7, <1>9, <1>10, <1>11, <1>12 DEF DeliveryInv

LEMMA SerialDelivery ==
    ASSUME TypeOK, TypeOK', RegistryInv, SourcesInv, DeliveryInv, SerialStep \/ SerialGlitch
    PROVE  DeliveryInv'
<1>1. CASE \/ SerialLoop \/ SerialError \/ SwapPending \/ ReissueDone \/ SerialGlitch
           \/ \E n \in Nonces : Reissue(n)
    <2>1. /\ UNCHANGED <<clients, out, cache, heard, snap, frm>>
          /\ \E l \in Labels \ {"cast", "send", "replay"} : At(Serial, l)
          /\ UNCHANGED pc \/ \E l \in Labels \ {"replay"} : Goto(Serial, l)
        BY <1>1 DEF SerialLoop, SerialError, SwapPending, ReissueDone, SerialGlitch, Reissue,
           Labels
    <2>2. Still
        BY <2>1, MoveStill, StayStill, ThreadTypes DEF At
    <2>3. Idle
        BY <2>1, NoHand
    <2>4. Newcomers
        BY <2>1 DEF Newcomers
    <2> QED
        BY <2>1, <2>2, <2>3, <2>4, IdleDelivery
<1>2. CASE SerialComplete
    <2>1. /\ UNCHANGED <<clients, out, cache, heard, snap>>
          /\ At(Serial, "read")
          /\ Goto(Serial, "loop") \/ Goto(Serial, "send")
        BY <1>2 DEF SerialComplete, ReadFrame
    <2>2. Still
        BY <2>1, MoveStill, ThreadTypes DEF At
    <2>3. \/ frm'[Serial] = frm[Serial]
          \/ \E i : frm'[Serial] = DoneFrame(i, "radio")
        BY <1>2, ThreadTypes DEF TypeOK, WorkType, SerialComplete
    <2>4. \A i : DoneFrame(i, "radio").kind # "cfg"
        BY DEF DoneFrame
    <2>5. Idle
        BY <2>1, <2>3, <2>4, NoHand
    <2>6. Newcomers
        BY <2>1 DEF Newcomers
    <2> QED
        BY <2>1, <2>2, <2>5, <2>6, IdleDelivery
<1> QED
    BY <1>1, <1>2, SerialConfigDelivery, SerialRebootedDelivery, SerialPacketDelivery
    DEF SerialStep

LEMMA SnapshotDelivery ==
    ASSUME TypeOK, TypeOK', RegistryInv, SourcesInv, DeliveryInv, NEW c \in Clients, Snapshot(c)
    PROVE  DeliveryInv'
<1>1. /\ UNCHANGED <<clients, out, cache, heard>> /\ snap' = [snap EXCEPT ![c] = cache]
      /\ pc'[Reader(c)] = "replay" /\ \A d \in Clients \ {c} : pc'[Reader(d)] = pc[Reader(d)]
    BY ThreadTypes, DistinctThreads DEF TypeOK, WorkType, Snapshot, Goto
<1>2. snap'[c] = cache /\ \A d \in Clients \ {c} : snap'[d] = snap[d]
    BY <1>1 DEF TypeOK, WorkType
<1>3. Aside
    BY ClientAside DEF ReaderStep
<1>4. \A d \in clients' : \A f : Reached(d, f) => Reached(d, f)'
    BY <1>1, <1>3, AsideKept, SameQueues, ReachedKept
<1>5. HandOK'
    BY <1>1, <1>3 DEF DeliveryInv, HandOK, Aside
<1>6. SnapOK'
    BY <1>1, <1>2 DEF DeliveryInv, SnapOK
<1>7. ReplayOK'
    <2> SUFFICES ASSUME NEW d \in clients', NEW s \in Held(cache)', pc'[Reader(d)] = "replay"
                 PROVE  Reached(d, CfgFrame(s, cache[s]))' \/ snap'[d][s] = cache'[s]
        BY DEF ReplayOK
    <2>1. d \in clients /\ d \in Clients /\ s \in Held(cache)
        BY <1>1 DEF TypeOK, RegistryType, Held
    <2>2. CASE d = c
        BY <1>1, <1>2, <2>2
    <2>3. CASE d # c
        <3>1. pc[Reader(d)] = "replay" /\ snap'[d] = snap[d]
            BY <1>1, <1>2, <2>1, <2>3
        <3>2. Reached(d, CfgFrame(s, cache[s])) \/ snap[d][s] = cache[s]
            BY <2>1, <3>1 DEF DeliveryInv, ReplayOK
        <3> QED
            BY <1>1, <1>4, <3>1, <3>2 DEF CfgFrame
    <2> QED
        BY <2>2, <2>3
<1>8. SlotsOK'
    <2> SUFFICES ASSUME NEW d \in clients', NEW s \in SlotsSent(d)', s \in Held(cache)'
                 PROVE  Reached(d, CfgFrame(s, cache[s]))'
        BY DEF SlotsOK
    <2>1. d \in clients /\ s \in SlotsSent(d) /\ s \in Held(cache)
        BY <1>1 DEF SlotsSent, Held
    <2>2. Reached(d, CfgFrame(s, cache[s]))
        BY <2>1 DEF DeliveryInv, SlotsOK
    <2> QED
        BY <1>1, <1>4, <2>2 DEF CfgFrame
<1>9. EchoOK'
    <2> SUFFICES ASSUME NEW p \in heard', p.from \in clients', p.port # "chat"
                 PROVE  Reached(p.from, PktFrame(p, "radio"))'
        BY DEF EchoOK
    <2>1. Reached(p.from, PktFrame(p, "radio"))
        BY <1>1 DEF DeliveryInv, EchoOK
    <2> QED
        BY <1>4, <2>1 DEF PktFrame
<1> QED
    BY <1>5, <1>6, <1>7, <1>8, <1>9 DEF DeliveryInv

\* The replay queues one slot of the snapshot; or the last frame, or it is given up.
LEMMA ReplayDelivery ==
    ASSUME TypeOK, TypeOK', RegistryInv, SourcesInv, DeliveryInv, NEW c \in Clients, Replay(c)
    PROVE  DeliveryInv'
<1>1. /\ Aside /\ UNCHANGED <<clients, cache, heard>> /\ pc[Reader(c)] = "replay"
      /\ Reader(c) \in Threads
    BY ClientAside, ThreadTypes DEF ReaderStep, Replay, At
<1>2. HandOK' /\ HandsKept /\ Newcomers
    BY <1>1, AsideKept DEF DeliveryInv, HandOK, Aside, Newcomers
<1>3. CASE /\ Finish(Reader(c))
           /\ \A s \in Slots : snap'[c][s] = 0
           /\ \A d \in Clients \ {c} : snap'[d] = snap[d]
           /\ UNCHANGED out \/ \E i : Accept(c, DoneFrame(i, "cache"))
    <2>1. \A i : DoneFrame(i, "cache").kind # "cfg"
        BY DEF DoneFrame
    <2>2. QueuesGrow /\ \A d \in Clients : SlotsSent(d)' = SlotsSent(d)
        BY <1>3, <2>1, SameQueues, QueuedKept, QueuedSlots
    <2>3. pc'[Reader(c)] # "replay" /\ \A d \in Clients \ {c} : pc'[Reader(d)] = pc[Reader(d)]
        <3>1. Home(Reader(c)) # "replay"
            BY HomeLabel
        <3> QED
            BY <1>3, <3>1, ThreadTypes, DistinctThreads DEF TypeOK, WorkType, Finish, Goto
    <2>4. SnapsKept
        BY <1>3, <2>3 DEF DeliveryInv, SnapOK, SnapsKept, Replaying, Held
    <2> QED
        BY <1>1, <1>2, <2>2, <2>4, QuietDelivery
<1>4. ASSUME NEW s \in First(snap[c]), Accept(c, CfgFrame(s, snap[c][s])),
             snap' = [snap EXCEPT ![c][s] = 0], UNCHANGED pc
      PROVE  DeliveryInv'
    <2>1. PICK v : v = snap[c][s]
        OBVIOUS
    <2>2. s \in Slots /\ CfgFrame(s, v).kind = "cfg" /\ CfgFrame(s, v).slot = s
        BY <1>4 DEF First, Held, CfgFrame
    <2>3. QueuesGrow /\ Got(c, CfgFrame(s, v))'
        BY <1>4, <2>1, QueuedKept
    <2>4. /\ \A d \in Clients \ {c} : SlotsSent(d)' = SlotsSent(d)
          /\ SlotsSent(c)' = SlotsSent(c) \cup {s}
        BY <1>4, <2>1, <2>2, QueuedSlots
    <2>5. \A d \in clients' : \A f : Reached(d, f) => Reached(d, f)'
        BY <1>2, <2>3, ReachedKept
    <2>6. /\ \A d \in Clients \ {c} : snap'[d] = snap[d]
          /\ \A u \in Slots \ {s} : snap'[c][u] = snap[c][u]
        BY <1>4, <2>2 DEF TypeOK, WorkType
    <2>7. ASSUME c \in clients, s \in Held(cache) PROVE Reached(c, CfgFrame(s, cache[s]))'
        <3>1. Reached(c, CfgFrame(s, cache[s])) \/ v = cache[s]
            BY <1>1, <2>1, <2>7 DEF DeliveryInv, ReplayOK
        <3>2. CASE Reached(c, CfgFrame(s, cache[s]))
            BY <1>1, <2>5, <2>7, <3>2 DEF CfgFrame
        <3>3. CASE v = cache[s]
            <4>1. Reached(c, CfgFrame(s, v))'
                BY <2>3 DEF Reached
            <4> QED
                BY <1>1, <3>3, <4>1 DEF CfgFrame
        <3> QED
            BY <3>1, <3>2, <3>3
    <2>8. SnapOK'
        BY <1>1, <1>4, <2>6 DEF DeliveryInv, SnapOK
    <2>9. ReplayOK'
        <3> SUFFICES ASSUME NEW d \in clients', NEW u \in Held(cache)', pc'[Reader(d)] = "replay"
                     PROVE  Reached(d, CfgFrame(u, cache[u]))' \/ snap'[d][u] = cache'[u]
            BY DEF ReplayOK
        <3>1. d \in clients /\ d \in Clients /\ u \in Held(cache) /\ u \in Slots
            BY <1>1 DEF TypeOK, RegistryType, Held
        <3>2. CASE d = c /\ u = s
            BY <2>7, <3>1, <3>2
        <3>3. CASE ~(d = c /\ u = s)
            <4>1. snap'[d][u] = snap[d][u] /\ pc[Reader(d)] = "replay"
                BY <1>4, <2>6, <3>1, <3>3
            <4>2. Reached(d, CfgFrame(u, cache[u])) \/ snap[d][u] = cache[u]
                BY <3>1, <4>1 DEF DeliveryInv, ReplayOK
            <4> QED
                BY <1>1, <2>5, <4>1, <4>2 DEF CfgFrame
        <3> QED
            BY <3>2, <3>3
    <2>10. SlotsOK'
        <3> SUFFICES ASSUME NEW d \in clients', NEW u \in SlotsSent(d)', u \in Held(cache)'
                     PROVE  Reached(d, CfgFrame(u, cache[u]))'
            BY DEF SlotsOK
        <3>1. d \in clients /\ d \in Clients /\ u \in Held(cache)
            BY <1>1 DEF TypeOK, RegistryType, Held
        <3>2. CASE d = c /\ u = s
            BY <2>7, <3>1, <3>2
        <3>3. CASE u \in SlotsSent(d)
            <4>1. Reached(d, CfgFrame(u, cache[u]))
                BY <3>1, <3>3 DEF DeliveryInv, SlotsOK
            <4> QED
                BY <1>1, <2>5, <4>1 DEF CfgFrame
        <3> QED
            BY <2>4, <3>1, <3>2, <3>3
    <2>11. EchoOK'
        <3> SUFFICES ASSUME NEW p \in heard', p.from \in clients', p.port # "chat"
                     PROVE  Reached(p.from, PktFrame(p, "radio"))'
            BY DEF EchoOK
        <3>1. Reached(p.from, PktFrame(p, "radio"))
            BY <1>1 DEF DeliveryInv, EchoOK
        <3> QED
            BY <2>5, <3>1 DEF PktFrame
    <2> QED
        BY <1>2, <2>8, <2>9, <2>10, <2>11 DEF DeliveryInv
<1>5. \/ \E s \in First(snap[c]) : /\ Accept(c, CfgFrame(s, snap[c][s]))
                                   /\ snap' = [snap EXCEPT ![c][s] = 0] /\ UNCHANGED pc
      \/ /\ Finish(Reader(c)) /\ Held(snap[c]) = {} /\ UNCHANGED snap
         /\ \E i : Accept(c, DoneFrame(i, "cache"))
      \/ Finish(Reader(c)) /\ snap' = [snap EXCEPT ![c] = NoCache] /\ UNCHANGED out
    BY DEF Replay
<1>6. CASE /\ Finish(Reader(c)) /\ Held(snap[c]) = {} /\ UNCHANGED snap
           /\ \E i : Accept(c, DoneFrame(i, "cache"))
    BY <1>3, <1>6 DEF Held
<1>7. CASE Finish(Reader(c)) /\ snap' = [snap EXCEPT ![c] = NoCache] /\ UNCHANGED out
    BY <1>3, <1>7 DEF TypeOK, WorkType, NoCache
<1> QED
    BY <1>4, <1>5, <1>6, <1>7

LEMMA ClientDelivery ==
    ASSUME TypeOK, TypeOK', RegistryInv, SourcesInv, DeliveryInv, NEW c \in Clients,
           \/ ClientInput(c) \/ ReaderStep(c) \/ ReadError(c)
           \/ WriterStep(c) \/ WriterWrote(c) \/ WriterFails(c)
    PROVE  DeliveryInv'
<1>1. CASE \/ ClientInput(c) \/ DropOwn(c) \/ Note(c) \/ ReadError(c)
           \/ WriterStep(c) \/ WriterWrote(c) \/ WriterFails(c)
    <2>1. UNCHANGED <<clients, out, cache, heard>>
        BY <1>1 DEF ClientInput, ReadWant, ReadDisconnect, ReadPacket, ReadOther, ReadRaw,
           ReadTraffic, DropOwn, Note, ReadError, WriterStep, WriterStops, WriterTakes,
           WriterWrote, WriterFails
    <2>2. Aside /\ Still /\ Newcomers
        BY <1>1, <2>1, ClientAside, ClientStill DEF ReaderStep, Newcomers
    <2> QED
        BY <2>1, <2>2, SameQueues, AsideDelivery
<1> QED
    BY <1>1, SnapshotDelivery, ReplayDelivery DEF ReaderStep

LEMMA OthersDelivery ==
    ASSUME TypeOK, TypeOK', RegistryInv, SourcesInv, DeliveryInv,
           \/ BootStart \/ BootScan \/ WebSend \/ RunReturns \/ ServerStep \/ ServerWakes
           \/ \E c \in Clients : AcceptConn(c) \/ AddClient(c)
    PROVE  DeliveryInv'
<1>1. /\ UNCHANGED <<out, cache, heard>>
      /\ UNCHANGED clients \/ \E c \in Clients : AddClient(c) /\ clients' = clients \cup {c}
    BY DEF BootStart, BootScan, WebSend, RunReturns, ServerStep, ServerStatus, ListClients,
       CloseSerial, RemoveListed, ServerWakes, AcceptConn, AddClient
<1>2. \A c \in Clients : AddClient(c) => c \notin Joined
    BY DEF RegistryInv, JoinedOK, AcceptorOK, AddClient
<1>3. Newcomers
    BY <1>1, <1>2 DEF Newcomers
<1> QED
    BY <1>1, <1>3, OthersAside, OthersStill, SameQueues, AsideDelivery

LEMMA RadioDelivery ==
    ASSUME TypeOK, TypeOK', RegistryInv, SourcesInv, DeliveryInv,
           \/ RadioAnswers \/ RadioHears \/ RadioReboots \/ LinkFails \/ Cancel
           \/ \E s \in Slots : RadioUpdates(s)
           \/ \E p \in outbound : OutboundExpires(p)
           \/ UNCHANGED vars
    PROVE  DeliveryInv'
<1>1. UNCHANGED <<clients, out, cache, heard, pc, frm, todo, snap, call, victim>>
    BY RadioAside
<1>2. Aside /\ Newcomers
    BY <1>1 DEF Aside, Newcomers
<1> QED
    BY <1>1, <1>2, StayStill, SameQueues, AsideDelivery

LEMMA InitDelivery == Init => DeliveryInv
<1> SUFFICES ASSUME Init PROVE DeliveryInv
    OBVIOUS
<1>1. Held(cache) = {} /\ heard = {} /\ frm[Serial] = Nil
    BY ThreadTypes DEF Init, NoCache, Held
<1>2. \A c \in Clients : Held(snap[c]) = {}
    BY DEF Init, NoCache, Held
<1> QED
    BY <1>1, <1>2 DEF DeliveryInv, HandOK, SnapOK, ReplayOK, SlotsOK, EchoOK

LEMMA NextDelivery ==
    ASSUME TypeOK, TypeOK', LocalsOK, RegistryInv, SourcesInv, DeliveryInv, [Next]_vars
    PROVE  DeliveryInv'
<1>1. ASSUME NEW t \in Threads, SharedStep(t) PROVE DeliveryInv'
    <2>1. CASE t # Serial
        BY <1>1, <2>1, OtherSendDelivery
    <2>2. CASE t = Serial
        BY <1>1, <2>2, SerialCallDelivery, SerialWriteDelivery, SerialCastDelivery,
           SerialSendDelivery DEF SharedStep
    <2> QED
        BY <2>1, <2>2
<1>2. CASE SerialStep \/ SerialGlitch
    BY <1>2, SerialDelivery
<1>3. ASSUME NEW c \in Clients,
             \/ ClientInput(c) \/ ReaderStep(c) \/ ReadError(c)
             \/ WriterStep(c) \/ WriterWrote(c) \/ WriterFails(c)
      PROVE  DeliveryInv'
    BY <1>3, ClientDelivery
<1>4. CASE \/ BootStart \/ BootScan \/ WebSend \/ RunReturns \/ ServerStep \/ ServerWakes
           \/ \E c \in Clients : AcceptConn(c) \/ AddClient(c)
    BY <1>4, OthersDelivery
<1>5. CASE \/ RadioAnswers \/ RadioHears \/ RadioReboots \/ LinkFails \/ Cancel
           \/ \E s \in Slots : RadioUpdates(s)
           \/ \E p \in outbound : OutboundExpires(p)
           \/ UNCHANGED vars
    BY <1>5, RadioDelivery
<1> QED
    BY <1>1, <1>2, <1>3, <1>4, <1>5 DEF Next

\* What the invariants of the modules below this one and of this one add up to.
BaseInv == TypeOK /\ LocalsOK /\ SenderOK /\ RegistryInv /\ SourcesInv /\ DeliveryInv

LEMMA InitBase == Init => BaseInv
BY InitType, InitRegistry, InitSources, InitDelivery DEF BaseInv

LEMMA NextBase == BaseInv /\ [Next]_vars => BaseInv'
<1> SUFFICES ASSUME BaseInv, [Next]_vars PROVE BaseInv'
    OBVIOUS
<1>1. TypeOK' /\ LocalsOK' /\ SenderOK' /\ RegistryInv'
    BY NextType, NextRegistry DEF BaseInv
<1>2. SourcesInv'
    BY NextSources DEF BaseInv
<1>3. DeliveryInv'
    BY <1>1, NextDelivery DEF BaseInv
<1> QED
    BY <1>1, <1>2, <1>3 DEF BaseInv

\* The radio's echo of a packet that is not chat reaches the client that sent it, or
\* that client is being removed because its queue is full: for any number of clients,
\* any traffic, and whether the echo overtakes noteOutboundPacket or outlives it.
THEOREM EchoCorrect == Spec => []EchoReachesSender
<1>1. BaseInv => EchoReachesSender
    BY DEF BaseInv, DeliveryInv, EchoOK, EchoReachesSender, Reached, Coming
<1> QED
    BY <1>1, InitBase, NextBase, PTL DEF Spec

-----------------------------------------------------------------------------
(* The cache follows the radio *)

\* The line without its first frame.
LEMMA ReadCache1 ==
    ASSUME TypeOK, CacheInv, fromRadio # <<>>, fromRadio' = Tail(fromRadio),
           UNCHANGED radioCfg, NEW s \in Slots
    PROVE  /\ \A i \in 1..Len(fromRadio') : LastOf(i, s)' /\ fromRadio'[i].kind = "cfg" =>
                 fromRadio'[i].ver = radioCfg'[s]
           /\ (\A i \in 1..Len(fromRadio') : ~Touches(fromRadio'[i], s)) =>
                 IF Touches(Head(fromRadio), s)
                   THEN Head(fromRadio).kind = "cfg" => Head(fromRadio).ver = radioCfg[s]
                   ELSE cache[s] \in {0, radioCfg[s]}
<1> DEFINE l == Len(fromRadio)
           m == Len(fromRadio')
<1>1. /\ l \in Nat /\ m = l - 1 /\ 1 \in 1..l /\ Head(fromRadio) = fromRadio[1]
      /\ \A i \in 1..m : i + 1 \in 1..l /\ fromRadio'[i] = fromRadio[i + 1]
      /\ \A i \in 2..l : i - 1 \in 1..m /\ fromRadio'[i - 1] = fromRadio[i]
    BY LineRead, LineLength DEF TypeOK
<1>2. /\ \A i \in 1..l : LastOf(i, s) <=>
            Touches(fromRadio[i], s) /\ \A j \in (i + 1)..l : ~Touches(fromRadio[j], s)
      /\ \A i \in 1..m : LastOf(i, s)' <=>
            Touches(fromRadio'[i], s) /\ \A j \in (i + 1)..m : ~Touches(fromRadio'[j], s)
    BY DEF LastOf
<1> HIDE DEF l, m
<1>3. ASSUME NEW i \in 1..m, LastOf(i, s)', fromRadio'[i].kind = "cfg"
      PROVE  fromRadio'[i].ver = radioCfg'[s]
    <2>1. LastOf(i + 1, s)
        <3>1. ASSUME NEW j \in (i + 1 + 1)..l PROVE ~Touches(fromRadio[j], s)
            <4>1. j \in 2..l /\ j - 1 \in (i + 1)..m
                BY <1>1
            <4> QED
                BY <1>1, <1>2, <1>3, <4>1
        <3> QED
            BY <1>1, <1>2, <1>3, <3>1
    <2> QED
        BY <1>1, <1>3, <2>1 DEF CacheInv, l
<1>4. ASSUME \A i \in 1..m : ~Touches(fromRadio'[i], s)
      PROVE  IF Touches(Head(fromRadio), s)
               THEN Head(fromRadio).kind = "cfg" => Head(fromRadio).ver = radioCfg[s]
               ELSE cache[s] \in {0, radioCfg[s]}
    <2>1. \A j \in 2..l : ~Touches(fromRadio[j], s)
        BY <1>1, <1>4
    <2>2. CASE Touches(fromRadio[1], s)
        <3>1. LastOf(1, s)
            BY <1>1, <1>2, <2>1, <2>2
        <3> QED
            BY <1>1, <2>2, <3>1 DEF CacheInv, l
    <2>3. CASE ~Touches(fromRadio[1], s)
        <3>1. \A i \in 1..l : i = 1 \/ i \in 2..l
            BY <1>1
        <3>2. \A i \in 1..l : ~Touches(fromRadio[i], s)
            BY <2>1, <2>3, <3>1
        <3> QED
            BY <1>1, <2>3, <3>2 DEF CacheInv, l
    <2> QED
        BY <1>1, <2>2, <2>3
<1> QED
    BY <1>3, <1>4 DEF m

\* A frame that says nothing of the config, or a reboot notice, is read.
LEMMA ReadCache2 ==
    ASSUME TypeOK, CacheInv, fromRadio # <<>>, fromRadio' = Tail(fromRadio),
           UNCHANGED radioCfg,
           \/ Head(fromRadio).kind \notin {"cfg", "rebooted"} /\ UNCHANGED cache
           \/ \A s \in Slots : cache'[s] = 0
           \/ /\ Head(fromRadio).kind = "cfg"
              /\ cache' = [cache EXCEPT ![Head(fromRadio).slot] = Head(fromRadio).ver]
    PROVE  CacheInv'
<1> SUFFICES ASSUME NEW s \in Slots
             PROVE  /\ (\A i \in 1..Len(fromRadio') : ~Touches(fromRadio'[i], s)) =>
                          cache'[s] \in {0, radioCfg'[s]}
                    /\ \A i \in 1..Len(fromRadio') : LastOf(i, s)' /\ fromRadio'[i].kind = "cfg" =>
                          fromRadio'[i].ver = radioCfg'[s]
    BY DEF CacheInv, Touches
<1>1. /\ \A i \in 1..Len(fromRadio') : LastOf(i, s)' /\ fromRadio'[i].kind = "cfg" =>
            fromRadio'[i].ver = radioCfg'[s]
      /\ (\A i \in 1..Len(fromRadio') : ~Touches(fromRadio'[i], s)) =>
            IF Touches(Head(fromRadio), s)
              THEN Head(fromRadio).kind = "cfg" => Head(fromRadio).ver = radioCfg[s]
              ELSE cache[s] \in {0, radioCfg[s]}
    BY ReadCache1
<1>2. ASSUME \A i \in 1..Len(fromRadio') : ~Touches(fromRadio'[i], s)
      PROVE  cache'[s] \in {0, radioCfg'[s]}
    <2>1. CASE Head(fromRadio).kind \notin {"cfg", "rebooted"} /\ UNCHANGED cache
        BY <1>1, <1>2, <2>1 DEF Touches
    <2>2. CASE \A u \in Slots : cache'[u] = 0
        BY <2>2
    <2>3. CASE /\ Head(fromRadio).kind = "cfg"
               /\ cache' = [cache EXCEPT ![Head(fromRadio).slot] = Head(fromRadio).ver]
        <3>1. CASE Head(fromRadio).slot = s
            BY <1>1, <1>2, <2>3, <3>1 DEF Touches, TypeOK, ConfigType
        <3>2. CASE Head(fromRadio).slot # s
            BY <1>1, <1>2, <2>3, <3>2 DEF Touches, TypeOK, ConfigType
        <3> QED
            BY <3>1, <3>2
    <2> QED
        BY <2>1, <2>2, <2>3
<1> QED
    BY <1>1, <1>2

LEMMA SameCache ==
    ASSUME CacheInv, UNCHANGED <<cache, fromRadio, radioCfg>> PROVE CacheInv'
BY DEF CacheInv, LastOf, Touches

\* The radio adds to the line: what it adds is up to date.
LEMMA AddedCache ==
    ASSUME TypeOK, CacheInv, UNCHANGED cache,
           Len(fromRadio) \in Nat, Len(fromRadio') \in Nat, Len(fromRadio) <= Len(fromRadio'),
           \A i \in 1..Len(fromRadio) : fromRadio'[i] = fromRadio[i],
           \A i \in 1..Len(fromRadio') :
              i > Len(fromRadio) /\ fromRadio'[i].kind = "cfg" =>
                 fromRadio'[i].ver = radioCfg'[fromRadio'[i].slot],
           \A s \in Slots : \/ radioCfg'[s] = radioCfg[s]
                            \/ \E i \in 1..Len(fromRadio') :
                                  i > Len(fromRadio) /\ Touches(fromRadio'[i], s)
    PROVE  CacheInv'
<1> DEFINE l == Len(fromRadio)
           m == Len(fromRadio')
<1> SUFFICES ASSUME NEW s \in Slots
             PROVE  /\ (\A i \in 1..m : ~Touches(fromRadio'[i], s)) => cache'[s] \in {0, radioCfg'[s]}
                    /\ \A i \in 1..m : LastOf(i, s)' /\ fromRadio'[i].kind = "cfg" =>
                          fromRadio'[i].ver = radioCfg'[s]
    BY DEF CacheInv, Touches
<1>1. /\ \A i \in 1..l : LastOf(i, s) <=>
            Touches(fromRadio[i], s) /\ \A j \in (i + 1)..l : ~Touches(fromRadio[j], s)
      /\ \A i \in 1..m : LastOf(i, s)' <=>
            Touches(fromRadio'[i], s) /\ \A j \in (i + 1)..m : ~Touches(fromRadio'[j], s)
    BY DEF LastOf
<1>2. l \in Nat /\ m \in Nat /\ l <= m /\ \A i \in 1..l : i \in 1..m /\ fromRadio'[i] = fromRadio[i]
    OBVIOUS
<1>3. radioCfg'[s] = radioCfg[s] \/ \E i \in 1..m : i > l /\ Touches(fromRadio'[i], s)
    OBVIOUS
<1>4. \A i \in 1..m : i > l /\ fromRadio'[i].kind = "cfg" =>
                         fromRadio'[i].ver = radioCfg'[fromRadio'[i].slot]
    OBVIOUS
<1>5. /\ (\A i \in 1..l : ~Touches(fromRadio[i], s)) => cache[s] \in {0, radioCfg[s]}
      /\ \A i \in 1..l : LastOf(i, s) /\ fromRadio[i].kind = "cfg" => fromRadio[i].ver = radioCfg[s]
    BY DEF CacheInv
<1> HIDE DEF l, m
<1>6. ASSUME \A i \in 1..m : ~Touches(fromRadio'[i], s) PROVE cache'[s] \in {0, radioCfg'[s]}
    BY <1>2, <1>3, <1>5, <1>6
<1>7. ASSUME NEW i \in 1..m, LastOf(i, s)', fromRadio'[i].kind = "cfg"
      PROVE  fromRadio'[i].ver = radioCfg'[s]
    <2>1. CASE i > l
        <3>1. fromRadio'[i].slot = s
            BY <1>1, <1>7 DEF Touches
        <3> QED
            BY <1>4, <1>7, <2>1, <3>1
    <2>2. CASE i \in 1..l
        <3>1. \A j \in 1..m : j > l => j \in (i + 1)..m
            BY <1>2, <2>2
        <3>2. radioCfg'[s] = radioCfg[s]
            BY <1>1, <1>3, <1>7, <3>1
        <3>3. \A j \in (i + 1)..l : j \in 1..l /\ j \in (i + 1)..m
            BY <1>2, <2>2
        <3>4. LastOf(i, s)
            BY <1>1, <1>2, <1>7, <2>2, <3>3
        <3> QED
            BY <1>2, <1>5, <1>7, <2>2, <3>2, <3>4
    <2> QED
        BY <1>2, <2>1, <2>2
<1> QED
    BY <1>6, <1>7

LEMMA RadioCache ==
    ASSUME TypeOK, CacheInv,
           \/ RadioAnswers \/ RadioHears \/ RadioReboots \/ LinkFails \/ Cancel
           \/ \E s \in Slots : RadioUpdates(s)
           \/ \E p \in outbound : OutboundExpires(p)
           \/ UNCHANGED vars
    PROVE  CacheInv'
<1>1. UNCHANGED cache
    BY RadioAside
<1>2. CASE UNCHANGED <<fromRadio, radioCfg>>
    BY <1>1, <1>2, SameCache
<1>3. ASSUME NEW f \in FromRadio, fromRadio' = Append(fromRadio, f),
             f.kind = "cfg" => f.ver = radioCfg'[f.slot],
             \A s \in Slots : radioCfg'[s] = radioCfg[s] \/ Touches(f, s)
      PROVE  CacheInv'
    <2> DEFINE l == Len(fromRadio)
               m == Len(fromRadio')
    <2>1. /\ m = l + 1 /\ l \in Nat /\ fromRadio'[l + 1] = f
          /\ \A i \in 1..l : fromRadio'[i] = fromRadio[i]
        BY <1>3, LineAppend, LineLength DEF TypeOK
    <2> HIDE DEF l, m
    <2>2. m \in Nat /\ l <= m /\ l + 1 \in 1..m /\ l + 1 > l /\ \A i \in 1..m : i > l => i = l + 1
        BY <2>1
    <2>3. \A i \in 1..m : i > l /\ fromRadio'[i].kind = "cfg" =>
                             fromRadio'[i].ver = radioCfg'[fromRadio'[i].slot]
        BY <1>3, <2>1, <2>2
    <2>4. \A s \in Slots : \/ radioCfg'[s] = radioCfg[s]
                           \/ \E i \in 1..m : i > l /\ Touches(fromRadio'[i], s)
        BY <1>3, <2>1, <2>2
    <2> QED
        BY <1>1, <2>1, <2>2, <2>3, <2>4, AddedCache DEF l, m
<1>4. CASE RadioAnswers
    <2>0. UNCHANGED radioCfg
        BY <1>4 DEF RadioAnswers
    <2>1. CASE /\ toRadio[1].nonce \in Nonces
               /\ fromRadio' = fromRadio \o Append(Dump, Complete(toRadio[1].nonce))
        <3>1. /\ Len(fromRadio) \in Nat /\ Len(fromRadio') \in Nat
              /\ Len(fromRadio) < Len(fromRadio')
              /\ \A i \in 1..Len(fromRadio) : fromRadio'[i] = fromRadio[i]
              /\ \A i \in 1..Len(fromRadio') : i \in 1..Len(fromRadio)
                    \/ fromRadio'[i].ver = radioCfg[fromRadio'[i].slot]
                    \/ fromRadio'[i].kind = "complete"
            BY <2>1, DumpLine
        <3>2. \A i \in 1..Len(fromRadio') : i > Len(fromRadio) => i \notin 1..Len(fromRadio)
            BY <3>1
        <3>3. Len(fromRadio) <= Len(fromRadio')
            BY <3>1
        <3>4. \A i \in 1..Len(fromRadio') :
                 i > Len(fromRadio) /\ fromRadio'[i].kind = "cfg" =>
                    fromRadio'[i].ver = radioCfg'[fromRadio'[i].slot]
            BY <2>0, <3>1, <3>2
        <3> QED
            BY <1>1, <2>0, <3>1, <3>3, <3>4, AddedCache
    <2>2. ASSUME NEW f \in PktFrames, fromRadio' = Append(fromRadio, f), f \in FromRadio
          PROVE  CacheInv'
        BY <1>3, <2>0, <2>2, FrameKinds
    <2> QED
        BY <1>2, <1>4, <2>0, <2>1, <2>2, AnswersFrames
<1>5. CASE RadioHears
    <2>1. UNCHANGED radioCfg
        BY <1>5 DEF RadioHears
    <2>2. PICK f \in PktFrames : fromRadio' = Append(fromRadio, f) /\ f \in FromRadio
        BY <1>5, HearsFrame
    <2> QED
        BY <1>3, <2>1, <2>2, FrameKinds
<1>6. ASSUME NEW s \in Slots, RadioUpdates(s) PROVE CacheInv'
    <2>1. PICK f \in CfgFrames : /\ fromRadio' = Append(fromRadio, f) /\ f \in FromRadio
                                 /\ f.slot = s /\ f.ver = radioCfg[s] + 1
        BY <1>6, UpdatesFrame
    <2>2. /\ radioCfg'[s] = radioCfg[s] + 1
          /\ \A u \in Slots \ {s} : radioCfg'[u] = radioCfg[u]
        BY <1>6 DEF RadioUpdates, TypeOK, WireType
    <2>3. f.kind = "cfg"
        BY FrameKinds
    <2>4. \A u \in Slots : radioCfg'[u] = radioCfg[u] \/ Touches(f, u)
        BY <2>1, <2>2, <2>3 DEF Touches
    <2> QED
        BY <1>3, <2>1, <2>2, <2>4
<1>7. CASE RadioReboots
    <2>1. PICK k \in Nat : /\ k <= Len(fromRadio) /\ Len(fromRadio') = k + 1
                           /\ fromRadio'[k + 1] = Rebooted
        BY <1>7, CutLine
    <2>2. \A s : Touches(fromRadio'[k + 1], s) /\ fromRadio'[k + 1].kind # "cfg"
        BY <2>1, FrameKinds DEF Touches
    <2>3. k + 1 \in 1..Len(fromRadio')
        BY <2>1
    <2>4. ASSUME NEW s \in Slots, NEW i \in 1..Len(fromRadio'), LastOf(i, s)'
          PROVE  fromRadio'[i].kind # "cfg"
        <3>1. Touches(fromRadio'[i], s) /\ \A j \in (i + 1)..(k + 1) : ~Touches(fromRadio'[j], s)
            BY <2>1, <2>4 DEF LastOf, Touches
        <3>2. i = k + 1 \/ k + 1 \in (i + 1)..(k + 1)
            BY <2>1
        <3> QED
            BY <2>2, <3>1, <3>2
    <2> QED
        BY <2>2, <2>3, <2>4 DEF CacheInv, Touches
<1> QED
    BY <1>2, <1>4, <1>5, <1>6, <1>7 DEF LinkFails, Cancel, OutboundExpires, vars

LEMMA NextCacheInv ==
    ASSUME TypeOK, CacheInv, [Next]_vars, [~Damaged({"cfg", "rebooted"})]_vars
    PROVE  CacheInv'
<1>1. ASSUME NEW t \in Threads, SharedStep(t) PROVE CacheInv'
    <2>1. UNCHANGED <<cache, fromRadio, radioCfg>>
        BY <1>1 DEF SharedStep, CallStep, Unlink, DropRemoved, Close, ReadRegistry, ReadCache,
           SetStatus, Reserve, Forward, WriteSerial, SerialFailed, Cast, Send
    <2> QED
        BY <2>1, SameCache
<1>2. CASE SerialStep
    <2>1. CASE SerialConfig \/ SerialComplete \/ SerialPacket \/ SerialRebooted
        <3>1. /\ fromRadio # <<>> /\ fromRadio' = Tail(fromRadio) /\ UNCHANGED radioCfg
            BY <2>1 DEF SerialConfig, SerialComplete, SerialPacket, SerialRebooted, ReadFrame
        <3>2. \/ Head(fromRadio).kind \notin {"cfg", "rebooted"} /\ UNCHANGED cache
              \/ \A s \in Slots : cache'[s] = 0
              \/ /\ Head(fromRadio).kind = "cfg"
                 /\ cache' = [cache EXCEPT ![Head(fromRadio).slot] = Head(fromRadio).ver]
            BY <2>1 DEF SerialConfig, SerialComplete, SerialPacket, SerialRebooted, ReadFrame,
               ResetCache, NoCache
        <3> QED
            BY <3>1, <3>2, ReadCache2
    <2>2. CASE \/ SerialLoop \/ SerialError \/ SwapPending \/ ReissueDone
               \/ \E n \in Nonces : Reissue(n)
        BY <2>2, SameCache DEF SerialLoop, SerialError, SwapPending, ReissueDone, Reissue
    <2> QED
        BY <1>2, <2>1, <2>2 DEF SerialStep
<1>3. CASE SerialGlitch
    <2>1. CASE UNCHANGED vars
        BY <2>1, SameCache DEF vars
    <2>2. CASE ~Damaged({"cfg", "rebooted"})
        <3>1. /\ fromRadio # <<>> /\ fromRadio' = Tail(fromRadio) /\ UNCHANGED <<radioCfg, cache>>
              /\ Head(fromRadio).kind \notin {"cfg", "rebooted"}
            BY <1>3, <2>2 DEF SerialGlitch, Damaged
        <3> QED
            BY <3>1, ReadCache2
    <2> QED
        BY <2>1, <2>2
<1>4. ASSUME NEW c \in Clients,
             \/ ClientInput(c) \/ ReaderStep(c) \/ ReadError(c)
             \/ WriterStep(c) \/ WriterWrote(c) \/ WriterFails(c)
      PROVE  CacheInv'
    <2>1. UNCHANGED <<cache, fromRadio, radioCfg>>
        BY <1>4 DEF ClientInput, ReadWant, ReadDisconnect, ReadPacket, ReadOther, ReadRaw,
           ReadTraffic, ReaderStep, DropOwn, Note, Snapshot, Replay, ReadError, WriterStep,
           WriterStops, WriterTakes, WriterWrote, WriterFails
    <2> QED
        BY <2>1, SameCache
<1>5. CASE \/ BootStart \/ BootScan \/ WebSend \/ RunReturns \/ ServerStep \/ ServerWakes
           \/ \E c \in Clients : AcceptConn(c) \/ AddClient(c)
    BY <1>5, SameCache DEF BootStart, BootScan, WebSend, RunReturns, ServerStep, ServerStatus,
       ListClients, CloseSerial, RemoveListed, ServerWakes, AcceptConn, AddClient
<1>6. CASE \/ RadioAnswers \/ RadioHears \/ RadioReboots \/ LinkFails \/ Cancel
           \/ \E s \in Slots : RadioUpdates(s)
           \/ \E p \in outbound : OutboundExpires(p)
           \/ UNCHANGED vars
    BY <1>6, RadioCache
<1> QED
    BY <1>1, <1>2, <1>3, <1>4, <1>5, <1>6 DEF Next

LEMMA InitCacheInv == Init => CacheInv
<1> SUFFICES ASSUME Init PROVE CacheInv
    OBVIOUS
<1>1. Len(fromRadio) = 0 /\ \A s \in Slots : cache[s] = 0
    BY DEF Init, NoCache
<1> QED
    BY <1>1 DEF CacheInv

\* Once all the radio sent has been read, every part of the config in the cache is the
\* radio's own, if no part of the config and no notice of a reboot was lost on the line:
\* across any number of settings changed, reboots that cut a dump short, and other frames
\* lost.
THEOREM CacheCorrect ==
    Spec /\ [][~Damaged({"cfg", "rebooted"})]_vars => []CacheFollowsRadio
<1> DEFINE Inv == TypeOK /\ LocalsOK /\ SenderOK /\ CacheInv
<1>1. Init => Inv
    BY InitType, InitCacheInv
<1>2. Inv /\ [Next]_vars /\ [~Damaged({"cfg", "rebooted"})]_vars => Inv'
    BY NextType, NextCacheInv
<1>3. Inv => CacheFollowsRadio
    <2> SUFFICES ASSUME CacheInv, fromRadio = <<>>, NEW s \in Slots
                 PROVE  cache[s] \in {0, radioCfg[s]}
        BY DEF CacheFollowsRadio
    <2>1. Len(fromRadio) = 0
        OBVIOUS
    <2> QED
        BY <2>1 DEF CacheInv
<1> QED
    BY <1>1, <1>2, <1>3, PTL DEF Spec

-----------------------------------------------------------------------------
(* Packets of the mesh *)

\* A packet of the mesh keeps its claim on a client, or the client is cut off.
CutsKept == \A c \in Joined : Cut(c) => Cut(c)'
DuesKept == \A c \in Joined : \A k : Due(c, k) => Due(c, k)' \/ Cut(c)'
SameMesh == /\ \A c \in Clients : MeshSeqs(c)' = MeshSeqs(c)
            /\ UNCHANGED heard
            /\ MeshHand' => MeshHand /\ frm'[Serial] = frm[Serial]

LEMMA MeshJoined ==
    ASSUME SourcesInv, NEW c \in Clients, MeshSeqs(c) # {} PROVE c \in Joined
<1>1. out[c] = <<>> => MeshSeqs(c) = {}
    BY DEF MeshSeqs
<1> QED
    BY <1>1 DEF SourcesInv, QueuesOK

LEMMA KeptMesh ==
    ASSUME SourcesInv, MeshInv, SameMesh, CutsKept, DuesKept, NumbersOK'
    PROVE  MeshInv'
<1>1. LatestOK'
    BY DEF MeshInv, LatestOK, SameMesh
<1>2. QueuedOK'
    BY DEF MeshInv, QueuedOK, SameMesh
<1>3. NoSilentLoss'
    BY DEF MeshInv, NoSilentLoss, SameMesh
<1>4. GapOK'
    <2> SUFFICES ASSUME NEW c \in Clients, NEW p \in heard', p.from = "mesh",
                        NEW i \in MeshSeqs(c)', i < p.seq
                 PROVE  p.seq \in MeshSeqs(c)' \/ Cut(c)' \/ Due(c, p.seq)'
        BY DEF GapOK
    <2>1. p \in heard /\ i \in MeshSeqs(c) /\ MeshSeqs(c)' = MeshSeqs(c)
        BY DEF SameMesh
    <2>2. c \in Joined
        BY <2>1, MeshJoined
    <2>3. p.seq \in MeshSeqs(c) \/ Cut(c) \/ Due(c, p.seq)
        BY <2>1 DEF MeshInv, GapOK
    <2> QED
        BY <2>1, <2>2, <2>3 DEF CutsKept, DuesKept
<1> QED
    BY <1>1, <1>2, <1>3, <1>4 DEF MeshInv

LEMMA AsideMesh ==
    ASSUME Aside, Newcomers, Joined \subseteq Joined', \A c \in Joined : closed[c] => closed'[c]
    PROVE  CutsKept /\ DuesKept /\ (MeshHand' => MeshHand /\ frm'[Serial] = frm[Serial])
<1>1. /\ MeshHand' <=> MeshHand /\ frm'[Serial] = frm[Serial]
      /\ \A c : (Visiting(c)' <=> Visiting(c)) /\ (Removing(c)' <=> Removing(c))
    BY DEF Aside, MeshHand, Mesh, Visiting, Removing
<1>2. CutsKept
    BY <1>1 DEF CutsKept, Cut, Newcomers
<1>3. DuesKept
    BY <1>1 DEF DuesKept, Due, Aside
<1> QED
    BY <1>1, <1>2, <1>3

\* readSerial has no frame to give to anyone, before and after the step.
LEMMA IdleMesh ==
    ASSUME TypeOK, Joined \subseteq Joined', UNCHANGED <<clients, closed>>,
           call[Serial] = "none", pc[Serial] \notin {"cast", "send"}, pc'[Serial] # "send"
    PROVE  CutsKept /\ DuesKept
BY DEF CutsKept, DuesKept, Cut, Due, Visiting, Removing

LEMMA QueuedMesh ==
    ASSUME TypeOK, NEW c \in Clients, NEW f, Accept(c, f)
    PROVE  /\ \A d \in Clients \ {c} : MeshSeqs(d)' = MeshSeqs(d)
           /\ ~Mesh(f) => MeshSeqs(c)' = MeshSeqs(c)
           /\ Mesh(f) => MeshSeqs(c)' = MeshSeqs(c) \cup {f.pkt.seq}
<1>1. \A d \in Clients \ {c} : MeshSeqs(d)' = MeshSeqs(d)
    BY Queued DEF MeshSeqs
<1> DEFINE m == Len(out[c]) + 1
           D == 1..Len(out[c])
<1>2. /\ out'[c][m] = f /\ \A i \in D : out'[c][i] = out[c][i]
      /\ 1..Len(out'[c]) = D \cup {m}
    BY Queued
<1> HIDE DEF m, D
<1>3. /\ MeshSeqs(c) = {out[c][i].pkt.seq : i \in {k \in D : Mesh(out[c][k])}}
      /\ MeshSeqs(c)' = {out'[c][i].pkt.seq : i \in {k \in D \cup {m} : Mesh(out'[c][k])}}
    BY <1>2 DEF MeshSeqs, Mesh, D
<1>4. MeshSeqs(c) \subseteq MeshSeqs(c)'
    BY <1>2, <1>3
<1>5. ~Mesh(f) => MeshSeqs(c)' \subseteq MeshSeqs(c)
    BY <1>2, <1>3
<1>6. MeshSeqs(c)' \subseteq MeshSeqs(c) \cup {f.pkt.seq}
    BY <1>2, <1>3
<1>7. Mesh(f) => f.pkt.seq \in MeshSeqs(c)'
    BY <1>2, <1>3
<1> QED
    BY <1>1, <1>4, <1>5, <1>6, <1>7

\* The numbers of the packets on the line.
LEMMA LineMesh ==
    ASSUME TypeOK
    PROVE  /\ \A i \in 1..Len(fromRadio) : Mesh(fromRadio[i]) =>
                 fromRadio[i].pkt \in Packets /\ fromRadio[i].pkt.seq \in Nat
           /\ \A p \in heard : p.seq \in Nat
           /\ used["mesh"] \in Nat
<1>1. \A i \in 1..Len(fromRadio) : fromRadio[i] \in FromRadio
    BY DEF TypeOK, WireType
<1>2. \A f \in FromRadio : Mesh(f) => f.pkt \in Packets
    BY FrameKinds DEF FromRadio, Mesh
<1>3. \A p \in Packets : p.seq \in Nat
    BY DEF Packets
<1>4. used["mesh"] \in Nat
    BY EventTypes DEF TypeOK, EnvType
<1> QED
    BY <1>1, <1>2, <1>3, <1>4 DEF TypeOK, EchoType

\* The line keeps a first part, and what is added is not from the mesh.
LEMMA SameNumbers ==
    ASSUME TypeOK, NumbersOK, used'["mesh"] \in Nat, used["mesh"] <= used'["mesh"],
           UNCHANGED heard,
           NEW k \in Nat, k <= Len(fromRadio), \A i \in 1..k : fromRadio'[i] = fromRadio[i],
           Len(fromRadio') \in Nat,
           \A i \in 1..Len(fromRadio') : i > k => ~Mesh(fromRadio'[i])
    PROVE  NumbersOK'
<1>1. Len(fromRadio) \in Nat
    BY LineLength DEF TypeOK
<1>2. \A i \in 1..Len(fromRadio') : Mesh(fromRadio'[i]) =>
         /\ i \in 1..Len(fromRadio) /\ fromRadio'[i] = fromRadio[i]
         /\ \A j \in 1..(i - 1) : j \in 1..Len(fromRadio) /\ fromRadio'[j] = fromRadio[j]
    BY <1>1
<1>3. ASSUME NEW i \in 1..Len(fromRadio'), Mesh(fromRadio'[i])
      PROVE  /\ fromRadio'[i].pkt.seq <= used'["mesh"]
             /\ \A j \in 1..(i - 1) : Mesh(fromRadio'[j]) =>
                   fromRadio'[j].pkt.seq < fromRadio'[i].pkt.seq
             /\ \A p \in heard' : p.from = "mesh" => p.seq < fromRadio'[i].pkt.seq
    <2>1. i \in 1..Len(fromRadio) /\ fromRadio'[i] = fromRadio[i] /\ Mesh(fromRadio[i])
        BY <1>2, <1>3
    <2>2. /\ fromRadio[i].pkt.seq <= used["mesh"] /\ fromRadio[i].pkt.seq \in Nat
          /\ used["mesh"] \in Nat
          /\ \A j \in 1..(i - 1) : Mesh(fromRadio[j]) => fromRadio[j].pkt.seq < fromRadio[i].pkt.seq
          /\ \A p \in heard : p.from = "mesh" => p.seq < fromRadio[i].pkt.seq
        BY <2>1, LineMesh DEF NumbersOK
    <2>3. \A j \in 1..(i - 1) : fromRadio'[j] = fromRadio[j]
        BY <1>2, <1>3
    <2>4. fromRadio'[i].pkt.seq <= used'["mesh"]
        BY <2>1, <2>2
    <2> QED
        BY <2>1, <2>2, <2>3, <2>4
<1>4. ASSUME NEW p \in heard', p.from = "mesh" PROVE p.seq <= used'["mesh"]
    <2>1. p \in heard /\ p.seq <= used["mesh"] /\ p.seq \in Nat /\ used["mesh"] \in Nat
        BY <1>4, LineMesh DEF NumbersOK
    <2> QED
        BY <2>1
<1> QED
    BY <1>3, <1>4 DEF NumbersOK, Mesh

LEMMA LineNumbers ==
    ASSUME TypeOK, NumbersOK, used'["mesh"] \in Nat, used["mesh"] <= used'["mesh"],
           UNCHANGED <<heard, fromRadio>>
    PROVE  NumbersOK'
<1>1. Len(fromRadio) \in Nat
    BY LineLength DEF TypeOK
<1> QED
    BY <1>1, SameNumbers

\* The first frame is read, and heard if it is a packet.
LEMMA ReadNumbers ==
    ASSUME TypeOK, NumbersOK, used'["mesh"] \in Nat, used["mesh"] <= used'["mesh"],
           fromRadio # <<>>, fromRadio' = Tail(fromRadio),
           \/ UNCHANGED heard
           \/ Head(fromRadio).kind = "pkt" /\ heard' = heard \cup {Head(fromRadio).pkt}
    PROVE  NumbersOK'
<1> DEFINE l == Len(fromRadio)
           m == Len(fromRadio')
<1>1. /\ l \in Nat /\ m = l - 1 /\ 1 \in 1..l /\ Head(fromRadio) = fromRadio[1]
      /\ \A i \in 1..m : i + 1 \in 1..l /\ fromRadio'[i] = fromRadio[i + 1]
    BY LineRead, LineLength DEF TypeOK
<1>2. \A p \in heard' : p \in heard \/ (Mesh(fromRadio[1]) /\ p = fromRadio[1].pkt) \/ p.from # "mesh"
    BY <1>1 DEF Mesh
<1>3. /\ \A i \in 1..l : Mesh(fromRadio[i]) => fromRadio[i].pkt.seq \in Nat
      /\ \A p \in heard : p.seq \in Nat
      /\ used["mesh"] \in Nat
    BY LineMesh DEF l
<1>4. /\ \A i \in 1..l : Mesh(fromRadio[i]) =>
            /\ fromRadio[i].pkt.seq <= used["mesh"]
            /\ \A j \in 1..(i - 1) : Mesh(fromRadio[j]) => fromRadio[j].pkt.seq < fromRadio[i].pkt.seq
            /\ \A p \in heard : p.from = "mesh" => p.seq < fromRadio[i].pkt.seq
      /\ \A p \in heard : p.from = "mesh" => p.seq <= used["mesh"]
    BY DEF NumbersOK, l
<1> HIDE DEF l, m
<1>5. ASSUME NEW i \in 1..m, Mesh(fromRadio'[i])
      PROVE  /\ fromRadio'[i].pkt.seq <= used'["mesh"]
             /\ \A j \in 1..(i - 1) : Mesh(fromRadio'[j]) =>
                   fromRadio'[j].pkt.seq < fromRadio'[i].pkt.seq
             /\ \A p \in heard' : p.from = "mesh" => p.seq < fromRadio'[i].pkt.seq
    <2>0. PICK a : a = i + 1
        OBVIOUS
    <2>1. a \in 1..l /\ fromRadio'[i] = fromRadio[a] /\ Mesh(fromRadio[a]) /\ 1 \in 1..(a - 1)
        <3>1. a \in 1..l /\ fromRadio'[i] = fromRadio[a]
            BY <1>1, <2>0
        <3>2. 1 \in 1..(a - 1)
            BY <1>1, <2>0
        <3> QED
            BY <1>5, <3>1, <3>2
    <2>2. fromRadio[a].pkt.seq <= used["mesh"] /\ fromRadio[a].pkt.seq \in Nat
        BY <1>3, <1>4, <2>1
    <2>3. ASSUME NEW j \in 1..(i - 1), Mesh(fromRadio'[j])
          PROVE  fromRadio'[j].pkt.seq < fromRadio'[i].pkt.seq
        <3>0. PICK b : b = j + 1
            OBVIOUS
        <3>1. j \in 1..m /\ b \in 1..(a - 1)
            BY <1>1, <2>0, <3>0
        <3>2. fromRadio'[j] = fromRadio[b]
            BY <1>1, <3>0, <3>1
        <3> QED
            BY <1>4, <2>1, <2>3, <3>1, <3>2
    <2>4. ASSUME NEW p \in heard', p.from = "mesh" PROVE p.seq < fromRadio'[i].pkt.seq
        BY <1>2, <1>4, <2>1, <2>4
    <2>5. fromRadio'[i].pkt.seq <= used'["mesh"]
        <3>1. \A x \in Nat : x <= used["mesh"] => x <= used'["mesh"]
            BY <1>3
        <3> QED
            BY <2>1, <2>2, <3>1
    <2> QED
        BY <2>3, <2>4, <2>5
<1>6. ASSUME NEW p \in heard', p.from = "mesh" PROVE p.seq <= used'["mesh"]
    <2>1. p.seq <= used["mesh"] /\ p.seq \in Nat
        BY <1>1, <1>2, <1>3, <1>4, <1>6
    <2> QED
        BY <1>3, <2>1
<1> QED
    BY <1>5, <1>6 DEF NumbersOK, Mesh, m

LEMMA HearsNumbers ==
    ASSUME TypeOK, NumbersOK, RadioHears PROVE NumbersOK'
<1> DEFINE l == Len(fromRadio)
           m == Len(fromRadio')
           u == used["mesh"]
<1>1. PICK f \in PktFrames : /\ fromRadio' = Append(fromRadio, f) /\ f \in FromRadio
                             /\ f.pkt.from = "mesh" /\ f.pkt.seq = u + 1
    BY HearsFrame
<1>2. /\ m = l + 1 /\ l \in Nat /\ fromRadio'[l + 1] = f
      /\ \A i \in 1..l : fromRadio'[i] = fromRadio[i]
    BY <1>1, LineAppend, LineLength DEF TypeOK
<1>3. used'["mesh"] = u + 1 /\ u \in Nat /\ UNCHANGED heard
    BY EventTypes DEF TypeOK, EnvType, RadioHears, Spend
<1>4. /\ \A i \in 1..l : Mesh(fromRadio[i]) => fromRadio[i].pkt.seq \in Nat
      /\ \A p \in heard : p.seq \in Nat
    BY LineMesh DEF l
<1>5. /\ \A i \in 1..l : Mesh(fromRadio[i]) =>
            /\ fromRadio[i].pkt.seq <= u
            /\ \A j \in 1..(i - 1) : Mesh(fromRadio[j]) => fromRadio[j].pkt.seq < fromRadio[i].pkt.seq
            /\ \A p \in heard : p.from = "mesh" => p.seq < fromRadio[i].pkt.seq
      /\ \A p \in heard : p.from = "mesh" => p.seq <= u
    BY DEF NumbersOK, l, u
<1> HIDE DEF l, m, u
<1>6. \A x \in Nat : x <= u => x <= u + 1 /\ x < u + 1
    BY <1>3
<1>7. ASSUME NEW i \in 1..m, Mesh(fromRadio'[i])
      PROVE  /\ fromRadio'[i].pkt.seq <= u + 1
             /\ \A j \in 1..(i - 1) : Mesh(fromRadio'[j]) =>
                   fromRadio'[j].pkt.seq < fromRadio'[i].pkt.seq
             /\ \A p \in heard : p.from = "mesh" => p.seq < fromRadio'[i].pkt.seq
    <2>1. \A j \in 1..(i - 1) : j \in 1..l /\ fromRadio'[j] = fromRadio[j]
        BY <1>2
    <2>2. CASE i \in 1..l
        <3>1. fromRadio'[i] = fromRadio[i]
            BY <1>2, <2>2
        <3> QED
            BY <1>4, <1>5, <1>6, <1>7, <2>1, <2>2, <3>1
    <2>3. CASE i = l + 1
        <3>1. fromRadio'[i].pkt.seq = u + 1
            BY <1>1, <1>2, <2>3 DEF u
        <3>2. u + 1 <= u + 1
            BY <1>3
        <3> QED
            BY <1>4, <1>5, <1>6, <2>1, <3>1, <3>2
    <2> QED
        BY <1>2, <2>2, <2>3
<1> QED
    BY <1>3, <1>4, <1>5, <1>6, <1>7 DEF NumbersOK, Mesh, m

LEMMA RadioNumbers ==
    ASSUME TypeOK, SourcesInv, NumbersOK,
           used'["mesh"] \in Nat, used["mesh"] <= used'["mesh"],
           \/ RadioAnswers \/ RadioHears \/ RadioReboots \/ LinkFails \/ Cancel
           \/ \E s \in Slots : RadioUpdates(s)
           \/ \E p \in outbound : OutboundExpires(p)
           \/ UNCHANGED vars
    PROVE  NumbersOK'
<1>1. UNCHANGED heard /\ Len(fromRadio) \in Nat
    BY RadioAside, LineLength DEF TypeOK
<1>2. CASE UNCHANGED fromRadio
    BY <1>1, <1>2, LineNumbers
<1>3. ASSUME NEW f \in FromRadio, fromRadio' = Append(fromRadio, f), ~Mesh(f) PROVE NumbersOK'
    <2> DEFINE l == Len(fromRadio)
               m == Len(fromRadio')
    <2>1. /\ m = l + 1 /\ l \in Nat /\ fromRadio'[l + 1] = f
          /\ \A i \in 1..l : fromRadio'[i] = fromRadio[i]
        BY <1>3, LineAppend, LineLength DEF TypeOK
    <2> HIDE DEF l, m
    <2>2. m \in Nat /\ l <= l /\ \A i \in 1..m : i > l => i = l + 1
        BY <2>1
    <2>3. \A i \in 1..m : i > l => ~Mesh(fromRadio'[i])
        BY <1>3, <2>1, <2>2
    <2> QED
        BY <1>1, <2>1, <2>2, <2>3, SameNumbers DEF l, m
<1>4. CASE RadioAnswers
    <2>1. CASE /\ toRadio[1].nonce \in Nonces
               /\ fromRadio' = fromRadio \o Append(Dump, Complete(toRadio[1].nonce))
        <3>1. /\ Len(fromRadio) \in Nat /\ Len(fromRadio') \in Nat
              /\ \A i \in 1..Len(fromRadio) : fromRadio'[i] = fromRadio[i]
              /\ \A i \in 1..Len(fromRadio') : i \in 1..Len(fromRadio)
                    \/ fromRadio'[i].kind = "cfg" \/ fromRadio'[i].kind = "complete"
            BY <2>1, DumpLine
        <3>2. \A i \in 1..Len(fromRadio') : i > Len(fromRadio) => i \notin 1..Len(fromRadio)
            BY <3>1
        <3>3. \A i \in 1..Len(fromRadio') : i > Len(fromRadio) => ~Mesh(fromRadio'[i])
            BY <3>1, <3>2 DEF Mesh
        <3>4. Len(fromRadio) <= Len(fromRadio)
            BY <3>1
        <3> QED
            BY <1>1, <3>1, <3>3, <3>4, SameNumbers
    <2>2. ASSUME NEW f \in PktFrames, fromRadio' = Append(fromRadio, f), f \in FromRadio,
                 toRadio[1].kind = "pkt", f.pkt = toRadio[1].pkt, 1 \in 1..Len(toRadio)
          PROVE  NumbersOK'
        <3>1. f.pkt.from \in Local
            BY <2>2 DEF SourcesInv, SentOK
        <3>2. "mesh" \notin Local
            BY BrokerAssumptions DEF Local, Joined
        <3> QED
            BY <1>3, <2>2, <3>1, <3>2 DEF Mesh
    <2>3. 1 \in 1..Len(toRadio)
        BY <1>4, RadioReads DEF RadioAnswers, TypeOK
    <2> QED
        BY <1>2, <1>4, <2>1, <2>2, <2>3, AnswersFrames
<1>5. ASSUME NEW s \in Slots, RadioUpdates(s) PROVE NumbersOK'
    <2>1. PICK f \in CfgFrames : fromRadio' = Append(fromRadio, f) /\ f \in FromRadio
        BY <1>5, UpdatesFrame
    <2>2. ~Mesh(f)
        BY FrameKinds DEF Mesh
    <2> QED
        BY <1>3, <2>1, <2>2
<1>6. CASE RadioReboots
    <2>1. PICK k \in Nat : /\ k <= Len(fromRadio) /\ Len(fromRadio') = k + 1
                           /\ \A i \in 1..k : fromRadio'[i] = fromRadio[i]
                           /\ fromRadio'[k + 1] = Rebooted
        BY <1>6, CutLine
    <2>2. Len(fromRadio') \in Nat /\ \A i \in 1..Len(fromRadio') : i > k => i = k + 1
        BY <2>1
    <2>3. ~Mesh(Rebooted)
        BY FrameKinds DEF Mesh
    <2>4. \A i \in 1..Len(fromRadio') : i > k => ~Mesh(fromRadio'[i])
        BY <2>1, <2>2, <2>3
    <2> QED
        BY <1>1, <2>1, <2>2, <2>4, SameNumbers
<1> QED
    BY <1>2, <1>4, <1>5, <1>6, HearsNumbers DEF LinkFails, Cancel, OutboundExpires, vars

\* Budgets are only ever spent.
LEMMA SpentMore ==
    ASSUME TypeOK, UNCHANGED used \/ \E e \in Events : Spend(e)
    PROVE  used'["mesh"] \in Nat /\ used["mesh"] <= used'["mesh"]
<1>1. used["mesh"] \in Nat
    BY EventTypes DEF TypeOK, EnvType
<1>2. CASE UNCHANGED used
    BY <1>1, <1>2
<1>3. ASSUME NEW e \in Events, Spend(e) PROVE used'["mesh"] \in {used["mesh"], used["mesh"] + 1}
    BY <1>3, EventTypes DEF TypeOK, EnvType, Spend
<1> QED
    BY <1>1, <1>2, <1>3

LEMMA NextSpent ==
    ASSUME TypeOK, [Next]_vars
    PROVE  used'["mesh"] \in Nat /\ used["mesh"] <= used'["mesh"]
<1>1. UNCHANGED used \/ \E e \in Events : Spend(e)
    <2>1. ASSUME NEW t \in Threads, SharedStep(t) PROVE UNCHANGED used
        BY <2>1 DEF SharedStep, CallStep, Unlink, DropRemoved, Close, ReadRegistry, ReadCache,
           SetStatus, Reserve, Forward, WriteSerial, SerialFailed, Cast, Send
    <2>2. CASE SerialStep
        BY <2>2 DEF SerialStep, SerialLoop, SerialError, SerialConfig, SerialComplete,
           SerialRebooted, SwapPending, ReissueDone, SerialPacket, Reissue
    <2>3. ASSUME NEW c \in Clients,
                 \/ ClientInput(c) \/ ReaderStep(c) \/ ReadError(c)
                 \/ WriterStep(c) \/ WriterWrote(c) \/ WriterFails(c)
          PROVE  UNCHANGED used \/ \E e \in Events : Spend(e)
        BY <2>3, EventTypes DEF ClientInput, ReadWant, ReadDisconnect, ReadPacket, ReadOther,
           ReadRaw, ReadTraffic, Message, ReaderStep, DropOwn, Note, Snapshot, Replay,
           ReadError, WriterStep, WriterStops, WriterTakes, WriterWrote, WriterFails
    <2>4. CASE \/ BootStart \/ BootScan \/ WebSend \/ RunReturns \/ ServerStep \/ ServerWakes
               \/ \E c \in Clients : AcceptConn(c) \/ AddClient(c)
        BY <2>4, EventTypes DEF BootStart, BootScan, WebSend, RunReturns, ServerStep,
           ServerStatus, ListClients, CloseSerial, RemoveListed, ServerWakes, AcceptConn,
           AddClient
    <2>5. CASE \/ RadioAnswers \/ RadioHears \/ RadioReboots \/ LinkFails \/ Cancel \/ SerialGlitch
               \/ \E s \in Slots : RadioUpdates(s)
               \/ \E p \in outbound : OutboundExpires(p)
               \/ UNCHANGED vars
        BY <2>5, EventTypes DEF RadioAnswers, RadioHears, RadioReboots, LinkFails, Cancel,
           SerialGlitch, RadioUpdates, OutboundExpires, vars
    <2> QED
        BY <2>1, <2>2, <2>3, <2>4, <2>5 DEF Next
<1> QED
    BY <1>1, SpentMore

\* A step of another goroutine: what it sends is not from the mesh.
LEMMA OtherMesh ==
    ASSUME TypeOK, LocalsOK, SourcesInv, MeshInv, NumbersOK', Joined \subseteq Joined',
           NEW t \in Threads \ {Serial}, SharedStep(t)
    PROVE  MeshInv'
<1>1. Aside /\ UNCHANGED heard /\ Newcomers
    <2>1. UNCHANGED heard /\ clients' \subseteq clients
        BY DEF SharedStep, CallStep, Unlink, DropRemoved, Close, ReadRegistry, ReadCache,
           SetStatus, Reserve, Forward, WriteSerial, SerialFailed, Cast, Send
    <2> QED
        BY <2>1, SharedOwn, OwnAside DEF Newcomers
<1>2. \A c \in Joined : closed[c] => closed'[c]
    BY DEF TypeOK, RegistryType, Joined, SharedStep, CallStep, Unlink, DropRemoved, Close,
       ReadRegistry, ReadCache, SetStatus, Reserve, Forward, WriteSerial, SerialFailed, Cast,
       Send
<1>3. \A c \in Clients : MeshSeqs(c)' = MeshSeqs(c)
    <2>1. CASE CallStep(t) \/ Reserve(t) \/ Forward(t) \/ WriteSerial(t) \/ Cast(t)
        BY <2>1, SameQueues DEF CallStep, Unlink, DropRemoved, Close, ReadRegistry, ReadCache,
           SetStatus, Reserve, Forward, WriteSerial, SerialFailed, Cast
    <2>2. ASSUME NEW c \in Clients, Send(t, c) PROVE \A d \in Clients : MeshSeqs(d)' = MeshSeqs(d)
        <3>1. frm[t].pkt.from \in Local
            BY <2>2, SentByOthers
        <3>2. ~Mesh(frm[t])
            BY <3>1, BrokerAssumptions DEF Local, Joined, Mesh
        <3>3. CASE Accept(c, frm[t])
            BY <3>2, <3>3, QueuedMesh
        <3> QED
            BY <2>2, <3>3, SameQueues DEF Send
    <2> QED
        BY <2>1, <2>2 DEF SharedStep
<1> QED
    BY <1>1, <1>2, <1>3, AsideMesh, KeptMesh DEF SameMesh

\* readSerial removes a client: from the registry, then for good.
LEMMA SerialCallMesh ==
    ASSUME TypeOK, SourcesInv, MeshInv, NumbersOK', CallStep(Serial)
    PROVE  MeshInv'
<1>1. /\ UNCHANGED <<pc, frm, todo, out, heard>> /\ clients' \subseteq clients
      /\ Serial \in Threads
    BY ThreadTypes DEF CallStep, Unlink, DropRemoved, Close, ReadRegistry, ReadCache, SetStatus
<1>2. Joined' = Joined
    BY <1>1, StayJoined
<1>3. /\ MeshHand' <=> MeshHand
      /\ \A c : Visiting(c)' <=> Visiting(c)
    BY <1>1 DEF MeshHand, Mesh, Visiting
<1>4. ASSUME NEW c \in Joined PROVE /\ closed[c] => closed'[c]
                                    /\ Removing(c) => Removing(c)' \/ closed'[c]
    <2>1. CASE Close(Serial)
        BY <1>1, <2>1 DEF TypeOK, RegistryType, CallType, Joined, Close, Removing
    <2>2. CASE Unlink(Serial) \/ DropRemoved(Serial)
        BY <1>1, <2>2 DEF TypeOK, CallType, Unlink, DropRemoved, Removing
    <2>3. CASE ReadRegistry(Serial) \/ ReadCache(Serial) \/ SetStatus(Serial)
        BY <2>3 DEF ReadRegistry, ReadCache, SetStatus, Removing
    <2> QED
        BY <2>1, <2>2, <2>3 DEF CallStep
<1>5. CutsKept
    BY <1>1, <1>2, <1>3, <1>4 DEF CutsKept, Cut
<1>6. DuesKept
    BY <1>1, <1>3 DEF DuesKept, Due
<1>7. SameMesh
    BY <1>1, <1>3, SameQueues DEF SameMesh
<1> QED
    BY <1>5, <1>6, <1>7, KeptMesh

LEMMA SerialWriteMesh ==
    ASSUME TypeOK, SourcesInv, MeshInv, NumbersOK', Joined \subseteq Joined',
           Reserve(Serial) \/ Forward(Serial) \/ WriteSerial(Serial)
    PROVE  MeshInv'
<1>1. /\ Serial \in Threads /\ UNCHANGED <<out, heard, clients, closed>>
      /\ call[Serial] = "none" /\ pc[Serial] \notin {"cast", "send"}
    BY ThreadTypes DEF Reserve, Forward, WriteSerial, SerialFailed, At
<1>2. pc'[Serial] # "send"
    <2>1. Home(Serial) # "send" /\ AfterWrite(Serial) # "send"
        BY HomeLabel DEF AfterWrite
    <2>2. \E l : Goto(Serial, l) /\ l # "send"
        BY <2>1 DEF Reserve, Forward, WriteSerial, SerialFailed, Finish
    <2> QED
        BY <1>1, <2>2 DEF TypeOK, WorkType, Goto
<1>3. \/ frm'[Serial] = frm[Serial] \/ frm'[Serial] = Nil
      \/ \E n \in Nonces : frm'[Serial] = WantMsg(n)
    BY <1>1 DEF TypeOK, WorkType, Reserve, Forward, WriteSerial, SerialFailed, Finish,
       FreeNonces
<1>4. \A n \in Nonces : ~Mesh(WantMsg(n))
    BY DEF WantMsg, Mesh
<1>5. MeshHand' => MeshHand /\ frm'[Serial] = frm[Serial]
    BY <1>3, <1>4 DEF MeshHand, Mesh
<1> QED
    BY <1>1, <1>2, <1>5, SameQueues, IdleMesh, KeptMesh DEF SameMesh

LEMMA SerialCastMesh ==
    ASSUME TypeOK, SourcesInv, MeshInv, NumbersOK', Joined \subseteq Joined', Cast(Serial)
    PROVE  MeshInv'
<1>1. /\ Serial \in Threads /\ UNCHANGED <<out, heard, clients, closed, call, victim>>
      /\ call[Serial] = "none" /\ pc[Serial] = "cast"
    BY ThreadTypes DEF Cast, At
<1>2. clients \ {Serial[2]} = clients
    <2>1. Serial[2] = Nil
        BY DEF Serial
    <2> QED
        BY <2>1, BrokerAssumptions DEF TypeOK, RegistryType
<1>3. \/ clients = {} /\ frm'[Serial] = Nil
      \/ frm' = frm /\ pc'[Serial] = "send" /\ todo'[Serial] = clients
    BY <1>1, <1>2 DEF TypeOK, WorkType, Cast, Finish, Goto
<1>4. MeshHand' => MeshHand /\ frm'[Serial] = frm[Serial]
    BY <1>3 DEF MeshHand, Mesh
<1>5. \A c : Visiting(c)' => c \in clients
    BY <1>3 DEF Visiting, MeshHand
<1>6. CutsKept
    BY <1>1, <1>5 DEF CutsKept, Cut, Removing
<1>7. ASSUME NEW c \in Joined, NEW k, Due(c, k) PROVE Due(c, k)' \/ Cut(c)'
    <2>1. CASE c \in clients
        BY <1>3, <1>7, <2>1 DEF Due, Visiting, MeshHand, Mesh
    <2>2. CASE c \notin clients
        BY <1>1, <1>5, <2>2 DEF Cut
    <2> QED
        BY <2>1, <2>2
<1>8. DuesKept
    BY <1>7 DEF DuesKept
<1> QED
    BY <1>1, <1>4, <1>6, <1>8, SameQueues, KeptMesh DEF SameMesh

\* readSerial gives a packet of the mesh to a client, which has all before it; or it
\* removes the client.
LEMMA SerialSendMesh ==
    ASSUME TypeOK, LocalsOK, SourcesInv, MeshInv, NumbersOK',
           Joined \subseteq Joined', NEW c \in Clients, Send(Serial, c)
    PROVE  MeshInv'
<1>1. /\ Serial \in Threads /\ pc[Serial] = "send" /\ call[Serial] = "none"
      /\ c \in todo[Serial] /\ UNCHANGED <<heard, clients, closed>>
    BY ThreadTypes DEF Send, At
<1>2. \/ /\ frm'[Serial] = frm[Serial] /\ pc'[Serial] = "send"
         /\ todo'[Serial] = todo[Serial] \ {c}
      \/ frm'[Serial] = Nil /\ todo[Serial] = {c}
    BY <1>1 DEF TypeOK, WorkType, Send, Finish
<1>3. /\ MeshHand' => MeshHand /\ frm'[Serial] = frm[Serial]
      /\ \A d : Visiting(d)' <=> Visiting(d) /\ d # c
    BY <1>1, <1>2 DEF MeshHand, Mesh, Visiting
<1>4. \A d : ~Removing(d)
    BY <1>1 DEF Removing
<1>5. CutsKept
    BY <1>1, <1>3, <1>4 DEF CutsKept, Cut
<1>6. \A d \in Clients : \A k : Due(d, k) /\ d # c => Due(d, k)'
    BY <1>1, <1>3 DEF Due, Visiting
<1>7. CASE UNCHANGED out /\ DisconnectSlow(Serial, c)
    <2>1. Cut(c)'
        BY <1>1, <1>7 DEF TypeOK, CallType, DisconnectSlow, StartRemove, Cut, Removing
    <2>2. DuesKept
        BY <1>6, <2>1 DEF DuesKept, Joined
    <2> QED
        BY <1>1, <1>3, <1>5, <1>7, <2>2, SameQueues, KeptMesh DEF SameMesh
<1>8. CASE ~closed[c] /\ Accept(c, frm[Serial]) /\ ~MeshHand
    <2>1. ~Mesh(frm[Serial])
        BY <1>1, <1>8, NilIsNoFrame DEF LocalsOK, MeshHand
    <2>2. DuesKept /\ \A d \in Clients : MeshSeqs(d)' = MeshSeqs(d)
        BY <1>8, <2>1, QueuedMesh DEF DuesKept, Due, MeshHand
    <2> QED
        BY <1>1, <1>3, <1>5, <2>2, KeptMesh DEF SameMesh
<1>9. CASE ~closed[c] /\ Accept(c, frm[Serial]) /\ MeshHand
    <2>0. PICK k : k = frm[Serial].pkt.seq
        OBVIOUS
    <2>1. /\ \A d \in Clients \ {c} : MeshSeqs(d)' = MeshSeqs(d)
          /\ MeshSeqs(c)' = MeshSeqs(c) \cup {k}
        BY <1>9, <2>0, QueuedMesh DEF MeshHand
    <2>2. \E p \in heard : p.from = "mesh" /\ p.seq = k
        BY <1>9, <2>0 DEF MeshInv, LatestOK, MeshHand, Mesh
    <2>3. \A p \in heard : p.seq \in Nat /\ (p.from = "mesh" => p.seq <= k)
        BY <1>9, <2>0, LineMesh DEF MeshInv, LatestOK
    <2>4. k \in Nat
        BY <2>2, <2>3
    <2>5. ~Cut(c)
        BY <1>1, <1>4, <1>9 DEF Cut, Visiting
    <2>6. \A j : Due(c, j) => j = k
        BY <2>0 DEF Due
    <2>7. \A p \in heard : p.from = "mesh" =>
             \A i \in MeshSeqs(c) : i < p.seq => p.seq \in MeshSeqs(c)'
        BY <2>1, <2>5, <2>6 DEF MeshInv, GapOK
    <2>8. LatestOK'
        BY <1>1, <1>3 DEF MeshInv, LatestOK
    <2>9. QueuedOK'
        BY <1>1, <2>1, <2>2 DEF MeshInv, QueuedOK
    <2>10. \A p \in heard : p.from = "mesh" => ~(k < p.seq)
        BY <2>3, <2>4
    <2>11. NoSilentLoss'
        <3> SUFFICES ASSUME NEW d \in Clients, NEW i \in MeshSeqs(d)', NEW j \in MeshSeqs(d)',
                            NEW p \in heard, p.from = "mesh", i < p.seq, p.seq < j
                     PROVE  p.seq \in MeshSeqs(d)'
            BY <1>1 DEF NoSilentLoss
        <3>1. CASE d # c
            BY <2>1, <3>1 DEF MeshInv, NoSilentLoss
        <3>2. CASE d = c
            BY <2>1, <2>7, <2>10, <3>2
        <3> QED
            BY <3>1, <3>2
    <2>12. GapOK'
        <3> SUFFICES ASSUME NEW d \in Clients, NEW p \in heard, p.from = "mesh",
                            NEW i \in MeshSeqs(d)', i < p.seq
                     PROVE  p.seq \in MeshSeqs(d)' \/ Cut(d)' \/ Due(d, p.seq)'
            BY <1>1 DEF GapOK
        <3>1. CASE d # c
            <4>1. i \in MeshSeqs(d) /\ MeshSeqs(d)' = MeshSeqs(d)
                BY <2>1, <3>1
            <4>2. d \in Joined
                BY <4>1, MeshJoined
            <4>3. p.seq \in MeshSeqs(d) \/ Cut(d) \/ Due(d, p.seq)
                BY <4>1 DEF MeshInv, GapOK
            <4> QED
                BY <1>5, <1>6, <3>1, <4>1, <4>2, <4>3 DEF CutsKept
        <3>2. CASE d = c
            BY <2>1, <2>7, <2>10, <3>2
        <3> QED
            BY <3>1, <3>2
    <2> QED
        BY <2>8, <2>9, <2>11, <2>12 DEF MeshInv
<1> QED
    BY <1>7, <1>8, <1>9 DEF Send

\* A packet is read: from the mesh it is newer than all before, and broadcast.
LEMMA SerialPacketMesh ==
    ASSUME TypeOK, SourcesInv, MeshInv, NumbersOK', Joined \subseteq Joined', SerialPacket
    PROVE  MeshInv'
<1>0. PICK f, p : f = Head(fromRadio) /\ p = f.pkt
    OBVIOUS
<1>1. /\ Serial \in Threads /\ UNCHANGED <<out, clients, closed>> /\ heard' = heard \cup {p}
      /\ pc[Serial] = "read" /\ call[Serial] = "none" /\ f.kind = "pkt"
      /\ fromRadio # <<>> /\ fromRadio' = Tail(fromRadio)
      /\ \A c \in Clients : MeshSeqs(c)' = MeshSeqs(c)
    BY <1>0, ThreadTypes, SameQueues DEF SerialPacket, ReadFrame, At
<1>2. f = fromRadio[1] /\ 1 \in 1..Len(fromRadio)
    BY <1>0, <1>1, LineRead DEF TypeOK
<1>3. CASE p.from = "mesh"
    <2>1. Origin(p) = Nil
        <3>1. p \notin outbound
            BY <1>3, BrokerAssumptions DEF TypeOK, EchoType
        <3> QED
            BY <3>1 DEF Origin
    <2>2. frm'[Serial] = f /\ pc'[Serial] = "cast"
        BY <1>0, <1>1, <2>1 DEF TypeOK, WorkType, SerialPacket, Goto
    <2>3. f \in PktFrames
        BY <1>0, <1>1, HeadTyped DEF TypeOK
    <2>4. f # Nil
        BY <2>3, NilIsNoFrame DEF ToClient
    <2>5. MeshHand' /\ \A c : ~Visiting(c)'
        BY <1>0, <1>1, <1>3, <2>2, <2>4 DEF MeshHand, Mesh, Visiting
    <2>6. /\ \A q \in heard : q.from = "mesh" => q.seq < p.seq
          /\ \A q \in heard : q.seq \in Nat
          /\ p.seq \in Nat
        BY <1>0, <1>1, <1>2, <1>3, LineMesh DEF MeshInv, NumbersOK, Mesh
    <2>7. LatestOK'
        BY <1>0, <1>1, <2>2, <2>6 DEF LatestOK
    <2>8. QueuedOK'
        BY <1>1 DEF MeshInv, QueuedOK
    <2>9. \A c \in Clients : \A i \in MeshSeqs(c) : i \in Nat /\ i < p.seq
        BY <2>6 DEF MeshInv, QueuedOK
    <2>10. NoSilentLoss'
        <3> SUFFICES ASSUME NEW c \in Clients, NEW i \in MeshSeqs(c)', NEW j \in MeshSeqs(c)',
                            NEW q \in heard', q.from = "mesh", i < q.seq, q.seq < j
                     PROVE  q.seq \in MeshSeqs(c)'
            BY DEF NoSilentLoss
        <3>1. CASE q \in heard
            BY <1>1, <3>1 DEF MeshInv, NoSilentLoss
        <3>2. CASE q = p
            BY <1>1, <2>6, <2>9, <3>2
        <3> QED
            BY <1>1, <3>1, <3>2
    <2>11. GapOK'
        <3> SUFFICES ASSUME NEW c \in Clients, NEW q \in heard', q.from = "mesh",
                            NEW i \in MeshSeqs(c)', i < q.seq
                     PROVE  q.seq \in MeshSeqs(c)' \/ Cut(c)' \/ Due(c, q.seq)'
            BY DEF GapOK
        <3>1. CASE q \in heard
            <4>1. q.seq \in MeshSeqs(c) \/ Cut(c) \/ Due(c, q.seq)
                BY <1>1, <3>1 DEF MeshInv, GapOK
            <4>2. Cut(c) => Cut(c)'
                BY <1>1, <2>5 DEF Cut, Removing
            <4>3. ~Due(c, q.seq)
                BY <1>1 DEF Due, Visiting
            <4> QED
                BY <1>1, <4>1, <4>2, <4>3
        <3>2. CASE q = p
            BY <1>0, <2>2, <2>5, <3>2 DEF Due
        <3> QED
            BY <1>1, <3>1, <3>2
    <2> QED
        BY <2>7, <2>8, <2>10, <2>11 DEF MeshInv
<1>4. CASE p.from # "mesh"
    <2>1. frm'[Serial] \in {frm[Serial], f}
        BY <1>0, <1>1 DEF TypeOK, WorkType, SerialPacket
    <2>2. MeshHand' => MeshHand /\ frm'[Serial] = frm[Serial]
        BY <1>0, <1>4, <2>1 DEF MeshHand, Mesh
    <2>3. \A q \in heard' : q.from = "mesh" => q \in heard
        BY <1>1, <1>4
    <2>4. heard \subseteq heard'
        BY <1>1
    <2>5. \A c : ~Visiting(c)'
        <3>1. CASE frm'[Serial] = f
            BY <1>0, <1>4, <3>1 DEF Visiting, MeshHand, Mesh
        <3>2. CASE pc'[Serial] = "loop"
            BY <3>2 DEF Visiting
        <3> QED
            BY <1>0, <1>1, <3>1, <3>2 DEF TypeOK, WorkType, SerialPacket, Goto
    <2>6. LatestOK'
        BY <2>2, <2>3, <2>4 DEF MeshInv, LatestOK
    <2>7. QueuedOK'
        BY <1>1, <2>4 DEF MeshInv, QueuedOK
    <2>8. NoSilentLoss'
        BY <1>1, <2>3 DEF MeshInv, NoSilentLoss
    <2>9. GapOK'
        <3> SUFFICES ASSUME NEW c \in Clients, NEW q \in heard', q.from = "mesh",
                            NEW i \in MeshSeqs(c)', i < q.seq
                     PROVE  q.seq \in MeshSeqs(c)' \/ Cut(c)' \/ Due(c, q.seq)'
            BY DEF GapOK
        <3>1. q.seq \in MeshSeqs(c) \/ Cut(c) \/ Due(c, q.seq)
            BY <1>1, <2>3 DEF MeshInv, GapOK
        <3>2. Cut(c) => Cut(c)'
            BY <1>1, <2>5 DEF Cut, Removing
        <3>3. ~Due(c, q.seq)
            BY <1>1 DEF Due, Visiting
        <3> QED
            BY <1>1, <3>1, <3>2, <3>3
    <2> QED
        BY <2>6, <2>7, <2>8, <2>9 DEF MeshInv
<1> QED
    BY <1>3, <1>4

LEMMA SerialMesh ==
    ASSUME TypeOK, SourcesInv, MeshInv, NumbersOK', Joined \subseteq Joined',
           SerialStep \/ SerialGlitch
    PROVE  MeshInv'
<1>1. ASSUME /\ UNCHANGED <<out, heard, clients, closed>>
             /\ call[Serial] = "none" /\ pc[Serial] \notin {"cast", "send"}
             /\ UNCHANGED frm \/ ~MeshHand'
             /\ pc'[Serial] # "send" \/ ~MeshHand'
      PROVE  MeshInv'
    <2>1. MeshHand' => MeshHand /\ frm'[Serial] = frm[Serial]
        BY <1>1 DEF MeshHand, Mesh
    <2>2. \A c : ~Visiting(c)'
        BY <1>1 DEF Visiting
    <2>3. CutsKept /\ DuesKept
        BY <1>1, <2>2 DEF CutsKept, DuesKept, Cut, Due, Visiting, Removing
    <2> QED
        BY <1>1, <2>1, <2>3, SameQueues, KeptMesh DEF SameMesh
<1>2. CASE \/ SerialLoop \/ SerialError \/ SerialRebooted \/ SwapPending \/ ReissueDone
           \/ SerialGlitch \/ \E n \in Nonces : Reissue(n)
    <2>1. /\ UNCHANGED <<out, heard, clients, closed, frm>>
          /\ call[Serial] = "none" /\ pc[Serial] \notin {"cast", "send"}
          /\ pc' = pc \/ \E l : Goto(Serial, l) /\ l # "send"
        BY <1>2 DEF SerialLoop, SerialError, SerialRebooted, SwapPending, ReissueDone,
           SerialGlitch, Reissue, ReadFrame, At
    <2>2. pc'[Serial] # "send"
        BY <2>1, ThreadTypes DEF TypeOK, WorkType, Goto
    <2> QED
        BY <1>1, <2>1, <2>2
<1>3. CASE SerialConfig
    <2>1. /\ UNCHANGED <<out, heard, clients, closed>> /\ frm'[Serial] = Head(fromRadio)
          /\ call[Serial] = "none" /\ pc[Serial] = "read" /\ Head(fromRadio).kind = "cfg"
        BY <1>3, ThreadTypes DEF TypeOK, WorkType, SerialConfig, ReadFrame, At
    <2>2. ~MeshHand'
        BY <2>1 DEF MeshHand, Mesh
    <2> QED
        BY <1>1, <2>1, <2>2
<1>4. CASE SerialComplete
    <2>1. /\ UNCHANGED <<out, heard, clients, closed>>
          /\ call[Serial] = "none" /\ pc[Serial] = "read"
        BY <1>4 DEF SerialComplete, ReadFrame, At
    <2>2. \/ UNCHANGED frm /\ pc'[Serial] = "loop"
          \/ \E i : frm'[Serial] = DoneFrame(i, "radio")
        BY <1>4, ThreadTypes DEF TypeOK, WorkType, SerialComplete, Goto
    <2>3. \A i : ~Mesh(DoneFrame(i, "radio"))
        BY DEF DoneFrame, Mesh
    <2>4. (UNCHANGED frm /\ pc'[Serial] = "loop") \/ ~MeshHand'
        BY <2>2, <2>3 DEF MeshHand, Mesh
    <2> QED
        BY <1>1, <2>1, <2>4
<1> QED
    BY <1>2, <1>3, <1>4, SerialPacketMesh DEF SerialStep

\* The replay of a snapshot queues parts of the config and an answer.
LEMMA ClientMesh ==
    ASSUME TypeOK, NEW c \in Clients,
           \/ ClientInput(c) \/ ReaderStep(c) \/ ReadError(c)
           \/ WriterStep(c) \/ WriterWrote(c) \/ WriterFails(c)
    PROVE  /\ UNCHANGED <<heard, clients, closed, fromRadio>>
           /\ \A d \in Clients : MeshSeqs(d)' = MeshSeqs(d)
<1>1. UNCHANGED <<heard, clients, closed, fromRadio>>
    BY DEF ClientInput, ReadWant, ReadDisconnect, ReadPacket, ReadOther, ReadRaw,
       ReadTraffic, ReaderStep, DropOwn, Note, Snapshot, Replay, ReadError, WriterStep,
       WriterStops, WriterTakes, WriterWrote, WriterFails
<1>2. /\ \A s, v : ~Mesh(CfgFrame(s, v))
      /\ \A i : ~Mesh(DoneFrame(i, "cache"))
    BY DEF CfgFrame, DoneFrame, Mesh
<1>3. UNCHANGED out \/ \E f : Accept(c, f) /\ ~Mesh(f)
    <2>1. CASE Replay(c)
        BY <1>2, <2>1 DEF Replay
    <2>2. CASE \/ ClientInput(c) \/ DropOwn(c) \/ Note(c) \/ Snapshot(c) \/ ReadError(c)
               \/ WriterStep(c) \/ WriterWrote(c) \/ WriterFails(c)
        BY <2>2 DEF ClientInput, ReadWant, ReadDisconnect, ReadPacket, ReadOther, ReadRaw,
           ReadTraffic, DropOwn, Note, Snapshot, ReadError, WriterStep, WriterStops,
           WriterTakes, WriterWrote, WriterFails
    <2> QED
        BY <2>1, <2>2 DEF ReaderStep
<1> QED
    BY <1>1, <1>3, SameQueues, QueuedMesh

LEMMA NextNumbers ==
    ASSUME TypeOK, SourcesInv, NumbersOK, [Next]_vars PROVE NumbersOK'
<1>0. used'["mesh"] \in Nat /\ used["mesh"] <= used'["mesh"]
    BY NextSpent
<1>1. ASSUME NEW t \in Threads, SharedStep(t) PROVE UNCHANGED <<heard, fromRadio>>
    BY <1>1 DEF SharedStep, CallStep, Unlink, DropRemoved, Close, ReadRegistry, ReadCache,
       SetStatus, Reserve, Forward, WriteSerial, SerialFailed, Cast, Send
<1>2. CASE SerialStep \/ SerialGlitch
    <2>1. \/ UNCHANGED <<heard, fromRadio>>
          \/ /\ fromRadio # <<>> /\ fromRadio' = Tail(fromRadio)
             /\ \/ UNCHANGED heard
                \/ Head(fromRadio).kind = "pkt" /\ heard' = heard \cup {Head(fromRadio).pkt}
        BY <1>2 DEF SerialStep, SerialGlitch, SerialLoop, SerialError, SerialConfig,
           SerialComplete, SerialRebooted, SwapPending, ReissueDone, SerialPacket, Reissue,
           ReadFrame
    <2> QED
        BY <1>0, <2>1, LineNumbers, ReadNumbers
<1>3. CASE \/ BootStart \/ BootScan \/ WebSend \/ RunReturns \/ ServerStep \/ ServerWakes
           \/ \E c \in Clients : AcceptConn(c) \/ AddClient(c)
    <2>1. UNCHANGED <<heard, fromRadio>>
        BY <1>3 DEF BootStart, BootScan, WebSend, RunReturns, ServerStep, ServerStatus,
           ListClients, CloseSerial, RemoveListed, ServerWakes, AcceptConn, AddClient
    <2> QED
        BY <1>0, <2>1, LineNumbers
<1>4. CASE \/ RadioAnswers \/ RadioHears \/ RadioReboots \/ LinkFails \/ Cancel
           \/ \E s \in Slots : RadioUpdates(s)
           \/ \E p \in outbound : OutboundExpires(p)
           \/ UNCHANGED vars
    BY <1>0, <1>4, RadioNumbers
<1>5. ASSUME NEW c \in Clients,
             \/ ClientInput(c) \/ ReaderStep(c) \/ ReadError(c)
             \/ WriterStep(c) \/ WriterWrote(c) \/ WriterFails(c)
      PROVE  NumbersOK'
    BY <1>0, <1>5, ClientMesh, LineNumbers
<1> QED
    BY <1>0, <1>1, <1>2, <1>3, <1>4, <1>5, LineNumbers DEF Next

LEMMA NextMesh ==
    ASSUME TypeOK, LocalsOK, RegistryInv, SourcesInv, MeshInv, [Next]_vars
    PROVE  MeshInv'
<1>0. NumbersOK' /\ Joined \subseteq Joined'
    BY NextNumbers, NextJoined DEF MeshInv
<1>1. ASSUME NEW t \in Threads, SharedStep(t) PROVE MeshInv'
    <2>1. CASE t # Serial
        BY <1>0, <1>1, <2>1, OtherMesh
    <2>2. CASE t = Serial
        BY <1>0, <1>1, <2>2, SerialCallMesh, SerialWriteMesh, SerialCastMesh, SerialSendMesh
        DEF SharedStep
    <2> QED
        BY <2>1, <2>2
<1>2. CASE SerialStep \/ SerialGlitch
    BY <1>0, <1>2, SerialMesh
<1>3. ASSUME Aside, Newcomers, UNCHANGED <<heard, closed>>,
             \A d \in Clients : MeshSeqs(d)' = MeshSeqs(d)
      PROVE  MeshInv'
    BY <1>0, <1>3, AsideMesh, KeptMesh DEF SameMesh
<1>4. ASSUME NEW c \in Clients,
             \/ ClientInput(c) \/ ReaderStep(c) \/ ReadError(c)
             \/ WriterStep(c) \/ WriterWrote(c) \/ WriterFails(c)
      PROVE  MeshInv'
    BY <1>3, <1>4, ClientAside, ClientMesh DEF Newcomers
<1>5. CASE \/ BootStart \/ BootScan \/ WebSend \/ RunReturns \/ ServerStep \/ ServerWakes
           \/ \E c \in Clients : AcceptConn(c) \/ AddClient(c)
    <2>1. /\ UNCHANGED <<out, heard, closed>>
          /\ UNCHANGED clients \/ \E c \in Clients : AddClient(c) /\ clients' = clients \cup {c}
        BY <1>5 DEF BootStart, BootScan, WebSend, RunReturns, ServerStep, ServerStatus,
           ListClients, CloseSerial, RemoveListed, ServerWakes, AcceptConn, AddClient
    <2>2. \A c \in Clients : AddClient(c) => c \notin Joined
        BY DEF RegistryInv, JoinedOK, AcceptorOK, AddClient
    <2>3. Newcomers
        BY <2>1, <2>2 DEF Newcomers
    <2> QED
        BY <1>3, <1>5, <2>1, <2>3, OthersAside, SameQueues
<1>6. CASE \/ RadioAnswers \/ RadioHears \/ RadioReboots \/ LinkFails \/ Cancel
           \/ \E s \in Slots : RadioUpdates(s)
           \/ \E p \in outbound : OutboundExpires(p)
           \/ UNCHANGED vars
    <2>1. UNCHANGED <<clients, out, heard, pc, frm, todo, call, victim>>
        BY <1>6, RadioAside
    <2>2. UNCHANGED closed
        BY <1>6 DEF RadioAnswers, RadioHears, RadioReboots, LinkFails, Cancel, RadioUpdates,
           OutboundExpires, vars
    <2>3. Aside /\ Newcomers
        BY <2>1 DEF Aside, Newcomers
    <2> QED
        BY <1>3, <2>1, <2>2, <2>3, SameQueues
<1> QED
    BY <1>1, <1>2, <1>4, <1>5, <1>6 DEF Next

LEMMA InitMesh == Init => MeshInv
<1> SUFFICES ASSUME Init PROVE MeshInv
    OBVIOUS
<1>1. heard = {} /\ Len(fromRadio) = 0 /\ frm[Serial] = Nil
    BY ThreadTypes DEF Init
<1>2. \A c \in Clients : MeshSeqs(c) = {}
    BY DEF Init, MeshSeqs
<1> QED
    BY <1>1, <1>2 DEF MeshInv, NumbersOK, LatestOK, MeshHand, QueuedOK, GapOK, NoSilentLoss

\* A client is disconnected rather than skipped: between the first and the last packet
\* of the mesh queued for it none that readSerial has received is missing, for any number of
\* clients, any size of the queues, and whichever goroutines remove clients meanwhile.
THEOREM SilentCorrect == Spec => []NoSilentLoss
<1> DEFINE Inv == BaseInv /\ MeshInv
<1>1. Init => Inv
    BY InitBase, InitMesh
<1>2. Inv /\ [Next]_vars => Inv'
    BY NextBase, NextMesh DEF BaseInv
<1>3. Inv => NoSilentLoss
    BY DEF MeshInv
<1> QED
    BY <1>1, <1>2, <1>3, PTL DEF Spec

-----------------------------------------------------------------------------
(* What any step leaves of what has reached a client *)

LEMMA NextNewcomers ==
    ASSUME TypeOK, RegistryInv, [Next]_vars PROVE Newcomers
<1>1. clients' \subseteq clients \/ \E c \in Clients : AddClient(c) /\ clients' = clients \cup {c}
    <2>1. ASSUME NEW t \in Threads, SharedStep(t) PROVE clients' \subseteq clients
        BY <2>1, SharedRest
    <2>2. CASE SerialStep \/ SerialGlitch
        BY <2>2 DEF SerialStep, SerialGlitch, SerialLoop, SerialError, SerialConfig,
           SerialComplete, SerialRebooted, SwapPending, ReissueDone, SerialPacket, Reissue
    <2>3. ASSUME NEW c \in Clients,
                 \/ ClientInput(c) \/ ReaderStep(c) \/ ReadError(c)
                 \/ WriterStep(c) \/ WriterWrote(c) \/ WriterFails(c)
          PROVE  UNCHANGED clients
        BY <2>3, ClientMesh
    <2>4. CASE \/ BootStart \/ BootScan \/ WebSend \/ RunReturns \/ ServerStep \/ ServerWakes
               \/ \E c \in Clients : AcceptConn(c) \/ AddClient(c)
        BY <2>4 DEF BootStart, BootScan, WebSend, RunReturns, ServerStep, ServerStatus,
           ListClients, CloseSerial, RemoveListed, ServerWakes, AcceptConn, AddClient
    <2>5. CASE \/ RadioAnswers \/ RadioHears \/ RadioReboots \/ LinkFails \/ Cancel
               \/ \E s \in Slots : RadioUpdates(s)
               \/ \E p \in outbound : OutboundExpires(p)
               \/ UNCHANGED vars
        BY <2>5, RadioAside
    <2> QED
        BY <2>1, <2>2, <2>3, <2>4, <2>5 DEF Next
<1>2. \A c \in Clients : AddClient(c) => c \notin Joined
    BY DEF RegistryInv, JoinedOK, AcceptorOK, AddClient
<1> QED
    BY <1>1, <1>2 DEF Newcomers

\* What a step can queue.
Replays(c) == /\ Replay(c)
              /\ \/ \E s, v : Accept(c, CfgFrame(s, v))
                 \/ Held(snap[c]) = {} /\ \E i : Accept(c, DoneFrame(i, "cache"))
LEMMA NextQueues ==
    ASSUME [Next]_vars
    PROVE  \/ UNCHANGED out
           \/ \E t \in Threads, c \in Clients : Send(t, c) /\ Accept(c, frm[t])
           \/ \E c \in Clients : Replays(c)
<1>1. ASSUME NEW t \in Threads, SharedStep(t)
      PROVE  UNCHANGED out \/ \E c \in Clients : Send(t, c) /\ Accept(c, frm[t])
    <2>1. CASE CallStep(t) \/ Reserve(t) \/ Forward(t) \/ WriteSerial(t) \/ Cast(t)
        BY <2>1 DEF CallStep, Unlink, DropRemoved, Close, ReadRegistry, ReadCache, SetStatus,
           Reserve, Forward, WriteSerial, SerialFailed, Cast
    <2>2. ASSUME NEW c \in Clients, Send(t, c) PROVE UNCHANGED out \/ Accept(c, frm[t])
        BY <2>2 DEF Send
    <2> QED
        BY <1>1, <2>1, <2>2 DEF SharedStep
<1>2. CASE SerialStep \/ SerialGlitch
    BY <1>2 DEF SerialStep, SerialGlitch, SerialLoop, SerialError, SerialConfig,
       SerialComplete, SerialRebooted, SwapPending, ReissueDone, SerialPacket, Reissue
<1>3. ASSUME NEW c \in Clients,
             \/ ClientInput(c) \/ ReaderStep(c) \/ ReadError(c)
             \/ WriterStep(c) \/ WriterWrote(c) \/ WriterFails(c)
      PROVE  UNCHANGED out \/ Replays(c)
    <2>1. CASE Replay(c)
        BY <2>1 DEF Replay, Replays
    <2>2. CASE \/ ClientInput(c) \/ DropOwn(c) \/ Note(c) \/ Snapshot(c) \/ ReadError(c)
               \/ WriterStep(c) \/ WriterWrote(c) \/ WriterFails(c)
        BY <2>2 DEF ClientInput, ReadWant, ReadDisconnect, ReadPacket, ReadOther, ReadRaw,
           ReadTraffic, DropOwn, Note, Snapshot, ReadError, WriterStep, WriterStops,
           WriterTakes, WriterWrote, WriterFails
    <2> QED
        BY <1>3, <2>1, <2>2 DEF ReaderStep
<1>4. CASE \/ BootStart \/ BootScan \/ WebSend \/ RunReturns \/ ServerStep \/ ServerWakes
           \/ \E c \in Clients : AcceptConn(c) \/ AddClient(c)
    BY <1>4 DEF BootStart, BootScan, WebSend, RunReturns, ServerStep, ServerStatus,
       ListClients, CloseSerial, RemoveListed, ServerWakes, AcceptConn, AddClient
<1>5. CASE \/ RadioAnswers \/ RadioHears \/ RadioReboots \/ LinkFails \/ Cancel
           \/ \E s \in Slots : RadioUpdates(s)
           \/ \E p \in outbound : OutboundExpires(p)
           \/ UNCHANGED vars
    BY <1>5, RadioAside
<1> QED
    BY <1>1, <1>2, <1>3, <1>4, <1>5 DEF Next

LEMMA NextSlots ==
    ASSUME TypeOK, [Next]_vars
    PROVE  QueuesGrow /\ \A c \in Clients : SlotsSent(c) \subseteq SlotsSent(c)'
<1>1. ASSUME NEW c \in Clients, NEW f, Accept(c, f)
      PROVE  QueuesGrow /\ \A d \in Clients : SlotsSent(d) \subseteq SlotsSent(d)'
    BY <1>1, QueuedKept, QueuedSlots
<1> QED
    BY <1>1, NextQueues, SameQueues DEF Replays

LEMMA NextReached ==
    ASSUME TypeOK, TypeOK', RegistryInv, [Next]_vars
    PROVE  \A c \in clients' : \A f : Reached(c, f) => Reached(c, f)'
<1>1. ASSUME NEW t \in Threads, SharedStep(t) PROVE HandsKept
    <2>1. CASE t # Serial
        BY <1>1, <2>1, SharedOwn, OwnAside, AsideKept
    <2>2. CASE t = Serial /\ CallStep(Serial)
        <3>1. /\ UNCHANGED <<pc, frm, todo>>
              /\ call[Serial] = "unlink" => clients' = clients \ {victim[Serial]}
            BY <2>2 DEF CallStep, Unlink, DropRemoved, Close, ReadRegistry, ReadCache, SetStatus
        <3> QED
            BY <3>1 DEF HandsKept, Reached, Coming, Slow
    <2>3. CASE t = Serial /\ (Reserve(Serial) \/ Forward(Serial) \/ WriteSerial(Serial))
        BY <2>3 DEF Reserve, Forward, WriteSerial, HandsKept, Coming, Slow, At
    <2>4. CASE t = Serial /\ Cast(Serial)
        <3>1. clients \ {Serial[2]} = clients
            <4>1. Serial[2] = Nil
                BY DEF Serial
            <4> QED
                BY <4>1, BrokerAssumptions DEF TypeOK, RegistryType
        <3>2. /\ UNCHANGED clients /\ call[Serial] = "none"
              /\ \/ clients = {}
                 \/ frm' = frm /\ pc'[Serial] = "send" /\ todo'[Serial] = clients
            BY <2>4, <3>1, ThreadTypes DEF TypeOK, WorkType, Cast, Finish, Goto, At
        <3> QED
            BY <3>2 DEF HandsKept, Reached, Coming, Slow
    <2> QED
        BY <1>1, <2>1, <2>2, <2>3, <2>4, SerialSendKept DEF SharedStep
<1>2. ASSUME SerialStep \/ SerialGlitch PROVE HandsKept
    <2>1. call[Serial] = "none" /\ pc[Serial] \notin {"cast", "send"}
        BY <1>2 DEF SerialStep, SerialGlitch, SerialLoop, SerialError, SerialConfig,
           SerialComplete, SerialRebooted, SwapPending, ReissueDone, SerialPacket, Reissue,
           ReadFrame, At
    <2> QED
        BY <2>1 DEF HandsKept, Coming, Slow
<1>3. ASSUME \/ RadioAnswers \/ RadioHears \/ RadioReboots \/ LinkFails \/ Cancel
             \/ \E s \in Slots : RadioUpdates(s)
             \/ \E p \in outbound : OutboundExpires(p)
             \/ UNCHANGED vars
      PROVE  HandsKept
    <2>1. Aside
        BY <1>3, RadioAside DEF Aside
    <2> QED
        BY <2>1, AsideKept
<1>4. HandsKept
    BY <1>1, <1>2, <1>3, ClientAside, OthersAside, AsideKept DEF Next
<1> QED
    BY <1>4, NextSlots, ReachedKept

LEMMA NextLearnt ==
    ASSUME TypeOK, TypeOK', RegistryInv, [Next]_vars
    PROVE  \A c \in clients' : \A s \in Slots : Learnt(c, s) => Learnt(c, s)'
<1> SUFFICES ASSUME NEW c \in clients', NEW s \in Slots, Learnt(c, s) PROVE Learnt(c, s)'
    OBVIOUS
<1>1. PICK v \in Nat : Reached(c, CfgFrame(s, v))
    BY DEF Learnt
<1>2. PICK f : f = CfgFrame(s, v)
    OBVIOUS
<1>3. Reached(c, f)'
    BY <1>1, <1>2, NextReached
<1>4. Reached(c, CfgFrame(s, v))'
    BY <1>2, <1>3 DEF CfgFrame
<1> QED
    BY <1>4 DEF Learnt

-----------------------------------------------------------------------------
(* The radio's answers, when its dumps begin with my_info *)

\* The line keeps a first part, and an answer added to it ends a whole dump; or its
\* first frame is read.
Extends(k) == /\ k <= Len(fromRadio) /\ Len(fromRadio') \in Nat /\ UNCHANGED cache
              /\ \A i \in 1..k : fromRadio'[i] = fromRadio[i]
              /\ \A i \in 1..Len(fromRadio') : i > k =>
                    /\ fromRadio'[i].kind = "cfg" => fromRadio'[i].ver # 0
                    /\ fromRadio'[i].kind = "complete" => \E j \in 1..(i - 1) : Whole(j, i)'
Reads == /\ fromRadio # <<>> /\ fromRadio' = Tail(fromRadio)
         /\ IF Head(fromRadio).kind = "cfg" THEN SerialConfig
                                            ELSE Head(fromRadio).kind = "rebooted" \/ UNCHANGED cache

LEMMA SameExtends ==
    ASSUME TypeOK, UNCHANGED <<fromRadio, cache>> PROVE \E k \in Nat : Extends(k)
<1>1. Len(fromRadio) \in Nat
    BY LineLength DEF TypeOK
<1>2. Len(fromRadio) <= Len(fromRadio) /\ \A i \in 1..Len(fromRadio) : ~(i > Len(fromRadio))
    BY <1>1
<1>3. Extends(Len(fromRadio))
    BY <1>1, <1>2 DEF Extends
<1> QED
    BY <1>1, <1>3

LEMMA AppendExtends ==
    ASSUME TypeOK, UNCHANGED cache, NEW f \in FromRadio, fromRadio' = Append(fromRadio, f),
           f.kind # "complete", f.kind = "cfg" => f.ver # 0
    PROVE  \E k \in Nat : Extends(k)
<1> DEFINE l == Len(fromRadio)
           m == Len(fromRadio')
<1>1. /\ m = l + 1 /\ l \in Nat /\ fromRadio'[l + 1] = f
      /\ \A i \in 1..l : fromRadio'[i] = fromRadio[i]
    BY LineAppend, LineLength DEF TypeOK
<1> HIDE DEF l, m
<1>2. m \in Nat /\ l <= l /\ \A i \in 1..m : i > l => i = l + 1
    BY <1>1
<1>3. \A i \in 1..m : i > l => fromRadio'[i] = f
    BY <1>1, <1>2
<1>4. Extends(l)
    BY <1>1, <1>2, <1>3 DEF Extends, l, m
<1> QED
    BY <1>1, <1>4

\* The radio's answer adds a whole dump.
LEMMA DumpExtends ==
    ASSUME MyInfoFirst, TypeOK, VersionsOK, UNCHANGED cache, NEW n \in Nonces,
           fromRadio' = fromRadio \o Append(Dump, Complete(n))
    PROVE  \E k \in Nat : Extends(k)
<1>0. PICK l, m : l = Len(fromRadio) /\ m = Len(fromRadio')
    OBVIOUS
<1> DEFINE InDump(i) == /\ l < i /\ i < m /\ fromRadio'[i].kind = "cfg"
                        /\ fromRadio'[i].slot \in Slots
                        /\ fromRadio'[i].ver = radioCfg[fromRadio'[i].slot]
           AtEnd(i) == i = m /\ fromRadio'[i].kind = "complete"
<1>1. /\ l \in Nat /\ m \in Nat /\ l < m
      /\ \A i \in 1..l : fromRadio'[i] = fromRadio[i]
      /\ \A i \in 1..m : i \in 1..l \/ InDump(i) \/ AtEnd(i)
      /\ \A s \in RadioSlots : \E i \in 1..m :
            l < i /\ i < m /\ fromRadio'[i].kind = "cfg" /\ fromRadio'[i].slot = s
    <2>1. l \in Nat /\ m \in Nat /\ l < m /\ \A i \in 1..l : fromRadio'[i] = fromRadio[i]
        BY <1>0, DumpLine
    <2>2. ASSUME NEW i \in 1..m PROVE i \in 1..l \/ InDump(i) \/ AtEnd(i)
        BY <1>0, DumpLine
    <2>3. ASSUME NEW s \in RadioSlots
          PROVE  \E i \in 1..m : /\ l < i /\ i < m
                                 /\ fromRadio'[i].kind = "cfg" /\ fromRadio'[i].slot = s
        <3>1. PICK i \in 1..Len(fromRadio') :
                /\ Len(fromRadio) < i /\ i < Len(fromRadio')
                /\ fromRadio'[i].kind = "cfg" /\ fromRadio'[i].slot = s
            BY DumpLine
        <3>2. i \in 1..m /\ l < i /\ i < m
            BY <1>0, <3>1
        <3> QED
            BY <3>1, <3>2
    <2> HIDE DEF InDump, AtEnd
    <2> QED
        BY <2>1, <2>2, <2>3
<1>2. l + 1 < m /\ fromRadio'[l + 1].kind = "cfg" /\ fromRadio'[l + 1].slot = MyInfo
    <2>1. /\ Len(DumpOrder) \in Nat /\ 1 \in 1..Len(DumpOrder) /\ DumpOrder[1] = MyInfo
        BY BrokerAssumptions DEF MyInfoFirst
    <2>2. /\ m = l + Len(DumpOrder) + 1
          /\ fromRadio'[l + 1] = CfgFrame(MyInfo, radioCfg[MyInfo])
        BY <1>0, <2>1, LineDump DEF TypeOK
    <2>3. \A v : CfgFrame(MyInfo, v).kind = "cfg" /\ CfgFrame(MyInfo, v).slot = MyInfo
        BY DEF CfgFrame
    <2> QED
        BY <1>1, <2>1, <2>2, <2>3
<1>3. ASSUME NEW i \in 1..m, i > l
      PROVE  i = m \/ (fromRadio'[i].kind = "cfg" /\ fromRadio'[i].ver # 0)
    <2>1. i \notin 1..l
        BY <1>1, <1>3
    <2>2. CASE InDump(i)
        BY <2>2 DEF VersionsOK
    <2> QED
        BY <1>1, <2>1, <2>2
<1>4. fromRadio'[m].kind = "complete"
    <2>1. m \in 1..m /\ m \notin 1..l /\ ~(m < m)
        BY <1>1
    <2> QED
        BY <1>1, <2>1
<1>5. PICK j \in 1..(m - 1) : j = l + 1
    BY <1>1, <1>2
<1>6. Whole(j, m)'
    <2>1. Says(MyInfo, j)'
        BY <1>2, <1>5 DEF Says
    <2>2. Unbroken(j, m)'
        <3>1. \A k \in j..m : k \in 1..m /\ k > l
            BY <1>1, <1>5
        <3> QED
            BY <1>3, <1>4, <3>1 DEF Unbroken
    <2>3. ASSUME NEW s \in RadioSlots PROVE \E k \in j..(m - 1) : Says(s, k)'
        <3>1. PICK k \in 1..m : l < k /\ k < m /\ fromRadio'[k].kind = "cfg" /\ fromRadio'[k].slot = s
            BY <1>1
        <3>2. k \in j..(m - 1)
            BY <1>1, <1>5, <3>1
        <3> QED
            BY <3>1, <3>2 DEF Says
    <2> QED
        BY <2>1, <2>2, <2>3 DEF Whole
<1>7. l <= l
    BY <1>1
<1>8. Extends(l)
    <2>1. \A i \in 1..m : i > l /\ fromRadio'[i].kind = "complete" => i = m
        BY <1>3
    <2>2. \A i \in 1..m : i > l /\ fromRadio'[i].kind = "cfg" => fromRadio'[i].ver # 0
        BY <1>3, <1>4
    <2>3. ASSUME NEW i \in 1..m, i > l, fromRadio'[i].kind = "complete"
          PROVE  \E k \in 1..(i - 1) : Whole(k, i)'
        BY <1>5, <1>6, <2>1, <2>3
    <2> QED
        BY <1>0, <1>1, <1>7, <2>2, <2>3 DEF Extends
<1> QED
    BY <1>1, <1>8

LEMMA RadioExtends ==
    ASSUME MyInfoFirst, TypeOK, VersionsOK,
           \/ RadioAnswers \/ RadioHears \/ RadioReboots \/ LinkFails \/ Cancel
           \/ \E s \in Slots : RadioUpdates(s)
           \/ \E p \in outbound : OutboundExpires(p)
           \/ UNCHANGED vars
    PROVE  \E k \in Nat : Extends(k)
<1>0. UNCHANGED cache
    BY RadioAside
<1>1. CASE RadioAnswers
    <2>1. \A f \in PktFrames : f.kind = "pkt"
        BY FrameKinds
    <2> QED
        BY <1>0, <1>1, <2>1, AnswersFrames, SameExtends, AppendExtends, DumpExtends
<1>2. CASE RadioHears
    BY <1>0, <1>2, HearsFrame, AppendExtends, FrameKinds
<1>3. ASSUME NEW s \in Slots, RadioUpdates(s) PROVE \E k \in Nat : Extends(k)
    <2>1. PICK f \in CfgFrames : /\ fromRadio' = Append(fromRadio, f) /\ f \in FromRadio
                                 /\ f.ver = radioCfg[s] + 1
        BY <1>3, UpdatesFrame
    <2>2. f.kind = "cfg" /\ f.ver # 0
        BY <2>1, FrameKinds DEF TypeOK, WireType
    <2> QED
        BY <1>0, <2>1, <2>2, AppendExtends
<1>4. CASE RadioReboots
    <2>1. PICK k \in Nat : /\ k <= Len(fromRadio) /\ Len(fromRadio') = k + 1
                           /\ \A i \in 1..k : fromRadio'[i] = fromRadio[i]
                           /\ fromRadio'[k + 1] = Rebooted
        BY <1>4, CutLine
    <2>2. Len(fromRadio') \in Nat /\ \A i \in 1..Len(fromRadio') : i > k => i = k + 1
        BY <2>1
    <2>3. \A i \in 1..Len(fromRadio') : i > k => fromRadio'[i].kind = "rebooted"
        BY <2>1, <2>2, FrameKinds
    <2>4. Extends(k)
        BY <1>0, <2>1, <2>2, <2>3 DEF Extends
    <2> QED
        BY <2>4
<1>5. CASE UNCHANGED fromRadio
    BY <1>0, <1>5, SameExtends
<1> QED
    BY <1>1, <1>2, <1>3, <1>4, <1>5 DEF LinkFails, Cancel, OutboundExpires, vars

LEMMA NextLine ==
    ASSUME MyInfoFirst, TypeOK, VersionsOK, [Next]_vars, [~Damaged({"cfg"})]_vars
    PROVE  Reads \/ \E k \in Nat : Extends(k)
<1>1. ASSUME NEW t \in Threads, SharedStep(t) PROVE UNCHANGED <<fromRadio, cache>>
    BY <1>1 DEF SharedStep, CallStep, Unlink, DropRemoved, Close, ReadRegistry, ReadCache,
       SetStatus, Reserve, Forward, WriteSerial, SerialFailed, Cast, Send
<1>2. CASE SerialStep
    <2>1. CASE SerialConfig \/ SerialComplete \/ SerialPacket \/ SerialRebooted
        BY <2>1 DEF SerialConfig, SerialComplete, SerialPacket, SerialRebooted, ReadFrame, Reads
    <2>2. CASE \/ SerialLoop \/ SerialError \/ SwapPending \/ ReissueDone
               \/ \E n \in Nonces : Reissue(n)
        BY <2>2, SameExtends DEF SerialLoop, SerialError, SwapPending, ReissueDone, Reissue
    <2> QED
        BY <1>2, <2>1, <2>2 DEF SerialStep
<1>3. CASE SerialGlitch
    <2>1. CASE UNCHANGED vars
        BY <2>1, SameExtends DEF vars
    <2>2. CASE ~Damaged({"cfg"})
        BY <1>3, <2>2 DEF Damaged, SerialGlitch, Reads
    <2> QED
        BY <2>1, <2>2
<1>4. CASE \/ BootStart \/ BootScan \/ WebSend \/ RunReturns \/ ServerStep \/ ServerWakes
           \/ \E c \in Clients : AcceptConn(c) \/ AddClient(c)
    BY <1>4, SameExtends DEF BootStart, BootScan, WebSend, RunReturns, ServerStep,
       ServerStatus, ListClients, CloseSerial, RemoveListed, ServerWakes, AcceptConn, AddClient
<1>5. CASE \/ RadioAnswers \/ RadioHears \/ RadioReboots \/ LinkFails \/ Cancel
           \/ \E s \in Slots : RadioUpdates(s)
           \/ \E p \in outbound : OutboundExpires(p)
           \/ UNCHANGED vars
    BY <1>5, RadioExtends
<1>6. ASSUME NEW c \in Clients,
             \/ ClientInput(c) \/ ReaderStep(c) \/ ReadError(c)
             \/ WriterStep(c) \/ WriterWrote(c) \/ WriterFails(c)
      PROVE  UNCHANGED <<fromRadio, cache>>
    BY <1>6 DEF ClientInput, ReadWant, ReadDisconnect, ReadPacket, ReadOther, ReadRaw,
       ReadTraffic, ReaderStep, DropOwn, Note, Snapshot, Replay, ReadError, WriterStep,
       WriterStops, WriterTakes, WriterWrote, WriterFails
<1> QED
    BY <1>1, <1>2, <1>3, <1>4, <1>5, <1>6, SameExtends DEF Next

LEMMA NextVersions ==
    ASSUME MyInfoFirst, TypeOK, VersionsOK, [Next]_vars, [~Damaged({"cfg"})]_vars
    PROVE  VersionsOK'
<1>1. \A s \in Slots : radioCfg'[s] # 0
    <2>1. UNCHANGED radioCfg \/ \E s \in Slots : RadioUpdates(s)
        <3>1. ASSUME NEW t \in Threads, SharedStep(t) PROVE UNCHANGED radioCfg
            BY <3>1 DEF SharedStep, CallStep, Unlink, DropRemoved, Close, ReadRegistry,
               ReadCache, SetStatus, Reserve, Forward, WriteSerial, SerialFailed, Cast, Send
        <3>2. CASE SerialStep \/ SerialGlitch
            BY <3>2 DEF SerialStep, SerialGlitch, SerialLoop, SerialError, SerialConfig,
               SerialComplete, SerialRebooted, SwapPending, ReissueDone, SerialPacket,
               Reissue, ReadFrame
        <3>3. CASE \/ BootStart \/ BootScan \/ WebSend \/ RunReturns \/ ServerStep \/ ServerWakes
                   \/ \E c \in Clients : AcceptConn(c) \/ AddClient(c)
            BY <3>3 DEF BootStart, BootScan, WebSend, RunReturns, ServerStep, ServerStatus,
               ListClients, CloseSerial, RemoveListed, ServerWakes, AcceptConn, AddClient
        <3>4. ASSUME NEW c \in Clients,
                     \/ ClientInput(c) \/ ReaderStep(c) \/ ReadError(c)
                     \/ WriterStep(c) \/ WriterWrote(c) \/ WriterFails(c)
              PROVE  UNCHANGED radioCfg
            BY <3>4 DEF ClientInput, ReadWant, ReadDisconnect, ReadPacket, ReadOther, ReadRaw,
               ReadTraffic, ReaderStep, DropOwn, Note, Snapshot, Replay, ReadError, WriterStep,
               WriterStops, WriterTakes, WriterWrote, WriterFails
        <3>5. CASE \/ RadioAnswers \/ RadioHears \/ RadioReboots \/ LinkFails \/ Cancel
                   \/ \E p \in outbound : OutboundExpires(p)
                   \/ UNCHANGED vars
            BY <3>5 DEF RadioAnswers, RadioHears, RadioReboots, LinkFails, Cancel,
               OutboundExpires, vars
        <3> QED
            BY <3>1, <3>2, <3>3, <3>4, <3>5 DEF Next
    <2>2. ASSUME NEW s \in Slots, RadioUpdates(s), NEW u \in Slots PROVE radioCfg'[u] # 0
        <3>1. radioCfg'[u] = radioCfg[u] \/ radioCfg'[u] = radioCfg[u] + 1
            BY <2>2 DEF TypeOK, WireType, RadioUpdates
        <3>2. radioCfg[u] \in Nat
            BY DEF TypeOK, WireType
        <3> QED
            BY <3>1, <3>2 DEF VersionsOK
    <2> QED
        BY <2>1, <2>2 DEF VersionsOK
<1>2. ASSUME NEW i \in 1..Len(fromRadio'), fromRadio'[i].kind = "cfg" PROVE fromRadio'[i].ver # 0
    <2>1. CASE Reads
        <3>1. i + 1 \in 1..Len(fromRadio) /\ fromRadio'[i] = fromRadio[i + 1]
            BY <2>1, LineRead DEF Reads, TypeOK
        <3> QED
            BY <1>2, <3>1 DEF VersionsOK
    <2>2. ASSUME NEW k \in Nat, Extends(k) PROVE fromRadio'[i].ver # 0
        <3>1. CASE i > k
            BY <1>2, <2>2, <3>1 DEF Extends
        <3>2. CASE ~(i > k)
            <4>1. i \in 1..k /\ i \in 1..Len(fromRadio)
                BY <2>2, <3>2, LineLength DEF Extends, TypeOK
            <4> QED
                BY <1>2, <2>2, <4>1 DEF Extends, VersionsOK
        <3> QED
            BY <3>1, <3>2
    <2> QED
        BY <2>1, <2>2, NextLine
<1> QED
    BY <1>1, <1>2 DEF VersionsOK

\* What is read moves the line up by one.
LEMMA ReadsLine ==
    ASSUME TypeOK, Reads
    PROVE  /\ 1 \in 1..Len(fromRadio) /\ Head(fromRadio) = fromRadio[1]
           /\ Len(fromRadio') = Len(fromRadio) - 1 /\ Len(fromRadio) \in Nat
           /\ \A i \in 1..Len(fromRadio') :
                 i + 1 \in 1..Len(fromRadio) /\ fromRadio'[i] = fromRadio[i + 1]
           /\ \A j \in 2..Len(fromRadio) :
                 j - 1 \in 1..Len(fromRadio') /\ fromRadio'[j - 1] = fromRadio[j]
BY LineRead, LineLength DEF Reads, TypeOK

\* my_info makes the cache ready; nothing but a reboot undoes that.
LEMMA ReadsReady ==
    ASSUME TypeOK, VersionsOK, Reads, Ready \/ Says(MyInfo, 1), fromRadio[1].kind # "rebooted"
    PROVE  Ready'
<1>1. 1 \in 1..Len(fromRadio) /\ Head(fromRadio) = fromRadio[1]
    BY ReadsLine
<1>2. CASE fromRadio[1].kind = "cfg"
    <2>0. PICK f : f = fromRadio[1]
        OBVIOUS
    <2>1. cache' = [cache EXCEPT ![f.slot] = f.ver]
        BY <1>1, <1>2, <2>0 DEF Reads, SerialConfig
    <2>2. f.ver # 0 /\ MyInfo \in Slots
        BY <1>1, <1>2, <2>0, BrokerAssumptions DEF VersionsOK
    <2>3. cache'[MyInfo] = IF f.slot = MyInfo THEN f.ver ELSE cache[MyInfo]
        BY <2>1, <2>2 DEF TypeOK, ConfigType
    <2> QED
        BY <2>0, <2>2, <2>3 DEF Ready, Says
<1>3. CASE fromRadio[1].kind # "cfg"
    BY <1>1, <1>3 DEF Reads, Ready, Says
<1> QED
    BY <1>2, <1>3

LEMMA NextStart ==
    ASSUME MyInfoFirst, TypeOK, VersionsOK, StartOK, [Next]_vars, [~Damaged({"cfg"})]_vars
    PROVE  StartOK'
<1> SUFFICES ASSUME NEW i \in 1..Len(fromRadio'), fromRadio'[i].kind = "complete"
             PROVE  (\E j \in 1..(i - 1) : Whole(j, i)') \/ (Ready' /\ Unbroken(1, i)')
    BY DEF StartOK
<1>1. CASE Reads
    <2>0. PICK a : a = i + 1
        OBVIOUS
    <2>1. /\ 1 \in 1..Len(fromRadio) /\ Len(fromRadio) \in Nat
          /\ a \in 1..Len(fromRadio) /\ fromRadio'[i] = fromRadio[a] /\ i \in Nat
          /\ \A k \in 1..i : k + 1 \in 1..a /\ fromRadio'[k] = fromRadio[k + 1]
        BY <1>1, <2>0, ReadsLine
    <2>2. 1 \in 1..a
        BY <2>0, <2>1
    <2>3. ASSUME Unbroken(1, a) PROVE Unbroken(1, i)' /\ fromRadio[1].kind # "rebooted"
        BY <2>1, <2>2, <2>3 DEF Unbroken
    <2>4. CASE Ready /\ Unbroken(1, a)
        BY <1>1, <2>3, <2>4, ReadsReady
    <2>5. ASSUME NEW j \in 1..(a - 1), Whole(j, a), j = 1
          PROVE  Ready' /\ Unbroken(1, i)'
        BY <1>1, <2>3, <2>5, ReadsReady DEF Whole
    <2>6. ASSUME NEW j \in 1..(a - 1), Whole(j, a), j # 1
          PROVE  \E k \in 1..(i - 1) : Whole(k, i)'
        <3>1. PICK k \in 1..(i - 1) : j = k + 1
            <4>1. j - 1 \in 1..(i - 1) /\ j = (j - 1) + 1
                BY <2>0, <2>1, <2>6
            <4> QED
                BY <4>1
        <3>2. \A b \in k..i : b \in 1..i /\ b + 1 \in j..a
            BY <2>0, <2>1, <3>1
        <3>3. Says(MyInfo, k)'
            <4>1. k \in k..i
                BY <2>1, <3>1
            <4> QED
                BY <2>1, <2>6, <3>1, <3>2, <4>1 DEF Whole, Says
        <3>4. Unbroken(k, i)'
            BY <2>1, <2>6, <3>2 DEF Whole, Unbroken
        <3>5. ASSUME NEW s \in RadioSlots PROVE \E b \in k..(i - 1) : Says(s, b)'
            <4>1. PICK b \in j..(a - 1) : Says(s, b)
                BY <2>6 DEF Whole
            <4>2. PICK d \in k..(i - 1) : b = d + 1
                <5>1. b - 1 \in k..(i - 1) /\ b = (b - 1) + 1
                    BY <2>0, <2>1, <3>1, <4>1
                <5> QED
                    BY <5>1
            <4>3. d \in 1..i
                BY <2>1, <3>1, <4>2
            <4> QED
                BY <2>1, <4>1, <4>2, <4>3 DEF Says
        <3> QED
            BY <3>3, <3>4, <3>5 DEF Whole
    <2> QED
        BY <2>1, <2>4, <2>5, <2>6 DEF StartOK
<1>2. ASSUME NEW k \in Nat, Extends(k)
      PROVE  (\E j \in 1..(i - 1) : Whole(j, i)') \/ (Ready' /\ Unbroken(1, i)')
    <2>1. CASE i > k
        BY <1>2, <2>1 DEF Extends
    <2>2. CASE ~(i > k)
        <3>1. /\ i \in 1..Len(fromRadio) /\ i \in Nat
              /\ \A b \in 1..i : fromRadio'[b] = fromRadio[b]
              /\ i \in 1..i
            BY <1>2, <2>2, LineLength DEF Extends, TypeOK
        <3>2. ASSUME NEW j \in 1..(i - 1), Whole(j, i) PROVE Whole(j, i)'
            <4>1. /\ \A b \in j..i : b \in 1..i
                  /\ \A b \in j..(i - 1) : b \in 1..i
                  /\ j \in 1..i
                BY <3>1
            <4> QED
                BY <3>1, <3>2, <4>1 DEF Whole, Says, Unbroken
        <3>3. Ready /\ Unbroken(1, i) => Ready' /\ Unbroken(1, i)'
            BY <1>2, <3>1 DEF Extends, Ready, Unbroken
        <3> QED
            BY <3>1, <3>2, <3>3 DEF StartOK
    <2> QED
        BY <2>1, <2>2
<1> QED
    BY <1>1, <1>2, NextLine

\* Whoever is registered and waits for the radio was and did before, or asks now and
\* finds the cache not ready.
LEMMA NextWaiting ==
    ASSUME TypeOK, RegistryInv, ServeOK, [Next]_vars, NEW c \in clients', c \in Clients,
           Waiting(c)'
    PROVE  c \in clients /\ (Waiting(c) \/ ~Ready)
<1>1. Waiting(c) \/ (ReadWant(c) /\ ~Ready)
    <2>1. CASE ~Free(c)'
        <3>1. Reserve(Reader(c)) => pc[Reader(c)] = "reserve"
            BY DEF Reserve, At
        <3> QED
            BY <2>1, <3>1, NextFree DEF Waiting
    <2>2. CASE pc'[Reader(c)] \in {"drop", "reserve"}
        <3>1. CallStep(Reader(c)) => UNCHANGED pc
            BY DEF CallStep, Unlink, DropRemoved, Close, ReadRegistry, ReadCache, SetStatus
        <3>2. DropOwn(c) => pc[Reader(c)] = "drop"
            BY DEF DropOwn, At
        <3>3. ~ReadError(c)
            BY <2>2, ThreadTypes DEF TypeOK, WorkType, ReadError, Goto
        <3> QED
            BY <2>2, <3>1, <3>2, <3>3, NextReaders DEF ReaderKept, Waiting
    <2> QED
        BY <2>1, <2>2 DEF Waiting
<1>2. c \in Joined
    <2>1. CASE pc[Reader(c)] \in {"drop", "reserve", "read"}
        BY <2>1 DEF Joined
    <2>2. CASE ~Free(c)
        <3>1. c # Nil
            BY BrokerAssumptions
        <3>2. PICK p \in Parked : ownerAt[p] = c
            BY <2>2 DEF Free
        <3>3. CASE p = <<"req", Serial>>
            BY <3>1, <3>2, <3>3, OwnerAt, ThreadTypes DEF RegistryInv, JoinedOK, ServingOK
        <3>4. ASSUME NEW n \in Nonces, p = <<"pending", n>> PROVE c \in Joined
            BY <3>1, <3>2, <3>4, OwnerAt DEF RegistryInv, JoinedOK, PendingOK
        <3>5. ASSUME NEW n \in Nonces, p = <<"old", n>> PROVE c \in Joined
            BY <3>1, <3>2, <3>5, OwnerAt DEF RegistryInv, JoinedOK, OldOK
        <3> QED
            BY <3>3, <3>4, <3>5, ParkedTypes
    <2>3. ReadWant(c) => pc[Reader(c)] = "read"
        BY DEF ReadWant, Message, At
    <2> QED
        BY <1>1, <2>1, <2>2, <2>3 DEF Waiting
<1> QED
    BY <1>1, <1>2, NextNewcomers DEF Newcomers

LEMMA NextDump ==
    ASSUME MyInfoFirst, TypeOK, TypeOK', RegistryInv, ServeOK, VersionsOK, StartOK, DumpOK,
           [Next]_vars, [~Damaged({"cfg"})]_vars
    PROVE  DumpOK'
<1> SUFFICES ASSUME NEW c \in clients', Waiting(c)',
                    NEW i \in 1..Len(fromRadio'), fromRadio'[i].kind = "complete",
                    NEW s \in RadioSlots
             PROVE  Learnt(c, s)' \/ Announced(s, i)'
    BY DEF DumpOK
<1>1. c \in Clients /\ s \in Slots
    BY BrokerAssumptions DEF TypeOK, RegistryType, RadioSlots
<1>2. Learnt(c, s) => Learnt(c, s)'
    BY <1>1, NextLearnt
<1>3. ASSUME NEW a \in 1..Len(fromRadio), fromRadio'[i] = fromRadio[a]
      PROVE  Learnt(c, s)' \/ Announced(s, a)
    <2>1. fromRadio[a].kind = "complete" /\ c \in clients /\ (Waiting(c) \/ ~Ready)
        BY <1>1, <1>3, NextWaiting
    <2>2. CASE Waiting(c)
        BY <1>2, <2>1, <2>2 DEF DumpOK
    <2>3. CASE ~Ready
        <3>1. PICK j \in 1..(a - 1) : Whole(j, a)
            BY <2>1, <2>3 DEF StartOK
        <3>2. PICK k \in j..(a - 1) : Says(s, k)
            BY <3>1 DEF Whole
        <3>3. k \in 1..(a - 1)
            BY <3>1, <3>2
        <3> QED
            BY <3>2, <3>3 DEF Announced
    <2> QED
        BY <2>1, <2>2, <2>3
<1>4. CASE Reads
    <2>0. PICK a : a = i + 1
        OBVIOUS
    <2>1. /\ 1 \in 1..Len(fromRadio) /\ Head(fromRadio) = fromRadio[1]
          /\ Len(fromRadio') = Len(fromRadio) - 1 /\ Len(fromRadio) \in Nat
          /\ a \in 1..Len(fromRadio) /\ fromRadio'[i] = fromRadio[a]
          /\ \A j \in 2..Len(fromRadio) :
                 j - 1 \in 1..Len(fromRadio') /\ fromRadio'[j - 1] = fromRadio[j]
        BY <1>4, <2>0, ReadsLine
    <2>2. CASE Announced(s, a)
        <3>1. PICK j \in 1..(a - 1) : fromRadio[j].kind = "cfg" /\ fromRadio[j].slot = s
            BY <2>2 DEF Announced, Says
        <3>2. CASE j = 1
            <4>1. SerialConfig /\ fromRadio[1].kind = "cfg" /\ fromRadio[1].slot = s
                BY <1>4, <2>1, <3>1, <3>2 DEF Reads
            <4>2. PICK f : f = fromRadio[1]
                OBVIOUS
            <4>3. frm'[Serial] = f /\ pc'[Serial] = "cast"
                BY <2>1, <4>1, <4>2, ThreadTypes DEF TypeOK, WorkType, SerialConfig, Goto
            <4>4. f \in CfgFrames /\ f.slot = s
                BY <1>4, <2>1, <4>1, <4>2, HeadTyped DEF Reads, TypeOK
            <4>5. PICK v \in Nat : f = CfgFrame(s, v)
                BY <4>4 DEF CfgFrames, CfgFrame
            <4>6. Reached(c, CfgFrame(s, v))'
                BY <4>3, <4>5 DEF Reached, Coming, CfgFrame
            <4> QED
                BY <4>6 DEF Learnt
        <3>3. CASE j # 1
            <4>1. j \in 2..Len(fromRadio) /\ j - 1 \in 1..(i - 1)
                BY <2>0, <2>1, <3>1, <3>3
            <4>2. fromRadio'[j - 1].kind = "cfg" /\ fromRadio'[j - 1].slot = s
                BY <2>1, <3>1, <4>1
            <4> QED
                BY <4>1, <4>2 DEF Announced, Says
        <3> QED
            BY <3>2, <3>3
    <2> QED
        BY <1>3, <2>1, <2>2
<1>5. ASSUME NEW k \in Nat, Extends(k) PROVE Learnt(c, s)' \/ Announced(s, i)'
    <2>1. CASE i > k
        <3>1. PICK j \in 1..(i - 1) : Whole(j, i)'
            BY <1>5, <2>1 DEF Extends
        <3>2. PICK b \in j..(i - 1) : Says(s, b)'
            BY <3>1 DEF Whole
        <3>3. b \in 1..(i - 1)
            BY <3>1, <3>2
        <3> QED
            BY <3>2, <3>3 DEF Announced
    <2>2. CASE ~(i > k)
        <3>1. /\ i \in 1..Len(fromRadio) /\ fromRadio'[i] = fromRadio[i]
              /\ \A j \in 1..(i - 1) : fromRadio'[j] = fromRadio[j]
            BY <1>5, <2>2, LineLength DEF Extends, TypeOK
        <3>2. Announced(s, i) => Announced(s, i)'
            BY <3>1 DEF Announced, Says
        <3> QED
            BY <1>3, <3>1, <3>2
    <2> QED
        BY <2>1, <2>2
<1> QED
    BY <1>4, <1>5, NextLine

\* The answer in the hand of readSerial is the one handleConfigComplete put there.
LEMMA NextDone ==
    ASSUME TypeOK, [Next]_vars
    PROVE  \/ SerialComplete
           \/ frm'[Serial] = frm[Serial] \/ frm'[Serial] = Nil \/ frm'[Serial].kind # "done"
<1>1. CASE SharedStep(Serial)
    <2>1. CASE Reserve(Serial)
        <3>1. \A n : WantMsg(n).kind # "done"
            BY DEF WantMsg
        <3> QED
            BY <2>1, <3>1, ThreadTypes DEF TypeOK, WorkType, Reserve
    <2>2. CASE CallStep(Serial)
        BY <2>2 DEF CallStep, Unlink, DropRemoved, Close, ReadRegistry, ReadCache, SetStatus
    <2>3. CASE \/ Forward(Serial) \/ WriteSerial(Serial) \/ Cast(Serial)
               \/ \E c \in Clients : Send(Serial, c)
        BY <2>3, ThreadTypes DEF TypeOK, WorkType, Forward, WriteSerial, SerialFailed, Cast,
           Send, Finish
    <2> QED
        BY <1>1, <2>1, <2>2, <2>3 DEF SharedStep
<1>2. ASSUME NEW t \in Threads, t # Serial, SharedStep(t) PROVE frm'[Serial] = frm[Serial]
    BY <1>2, SharedOwn, OwnAside DEF Aside
<1>3. CASE SerialStep \/ SerialGlitch
    BY <1>3, ThreadTypes DEF TypeOK, WorkType, SerialStep, SerialGlitch, SerialLoop,
       SerialError, SerialConfig, SerialRebooted, SwapPending, ReissueDone, SerialPacket,
       Reissue, ReadFrame
<1>4. CASE \/ RadioAnswers \/ RadioHears \/ RadioReboots \/ LinkFails \/ Cancel
           \/ \E s \in Slots : RadioUpdates(s)
           \/ \E p \in outbound : OutboundExpires(p)
           \/ UNCHANGED vars
    BY <1>4, RadioAside
<1> QED
    BY <1>1, <1>2, <1>3, <1>4, ClientAside, OthersAside DEF Next, Aside

LEMMA NextAnswer ==
    ASSUME TypeOK, TypeOK', RegistryInv, SourcesInv, HandshakeInv, DumpOK, AnswerOK,
           [Next]_vars
    PROVE  AnswerOK'
<1>1. CASE SerialComplete
    <2>0. PICK n, r : n = Head(fromRadio).nonce /\ r = pendingConfig[n]
        OBVIOUS
    <2>1. /\ At(Serial, "read") /\ UNCHANGED <<clients, out>>
          /\ fromRadio # <<>> /\ Head(fromRadio).kind = "complete"
          /\ \/ UNCHANGED frm
             \/ r.client # Nil /\ frm'[Serial] = DoneFrame(r.id, "radio")
        BY <1>1, <2>0, ThreadTypes DEF TypeOK, WorkType, SerialComplete, ReadFrame
    <2>2. \A c \in Clients : SlotsSent(c)' = SlotsSent(c)
        BY <2>1, SameQueues
    <2>3. clients \subseteq Clients
        BY DEF TypeOK, RegistryType
    <2>4. CASE UNCHANGED frm
        BY <2>1, <2>2, <2>3, <2>4 DEF AnswerOK
    <2>5. CASE r.client # Nil /\ frm'[Serial] = DoneFrame(r.id, "radio")
        <3>1. n \in Nonces
            BY <2>0, <2>1, HeadTyped, FrameKinds DEF TypeOK
        <3>2. r.client = r.id[1]
            <4>1. r.id \in RequestIds
                BY <2>0, <2>5, <3>1 DEF TypeOK, ConfigType, Requests, NoReq
            <4> QED
                BY <2>0, <3>1, <4>1 DEF HandshakeInv, OwnerOK, OwnedBy
        <3>3. 1 \in 1..Len(fromRadio) /\ Head(fromRadio) = fromRadio[1]
            BY <2>1 DEF TypeOK, WireType
        <3>4. \A s : ~Announced(s, 1)
            BY DEF Announced
        <3>5. \A c \in clients : r.client = c => \A s \in RadioSlots : Learnt(c, s)
            <4>1. ASSUME NEW c \in clients, r.client = c PROVE Waiting(c)
                BY <2>0, <3>1, <4>1, ParkedTypes, OwnerAt DEF Waiting, Free
            <4> QED
                BY <2>1, <3>3, <3>4, <4>1 DEF DumpOK
        <3>6. ASSUME NEW c \in clients, NEW s \in RadioSlots, Learnt(c, s)
              PROVE  s \in SlotsSent(c)
            <4>1. PICK v \in Nat : Reached(c, CfgFrame(s, v))
                BY <3>6 DEF Learnt
            <4>2. Got(c, CfgFrame(s, v))
                BY <2>1, <4>1 DEF Reached, Coming, Slow, At
            <4>3. PICK j \in 1..Len(out[c]) : out[c][j] = CfgFrame(s, v)
                BY <4>2 DEF Got
            <4>4. CfgFrame(s, v).kind = "cfg" /\ CfgFrame(s, v).slot = s
                BY DEF CfgFrame
            <4> QED
                BY <4>3, <4>4 DEF SlotsSent
        <3>7. \A i : DoneFrame(i, "radio").id = i
            BY DEF DoneFrame
        <3>8. frm'[Serial].id[1] = r.client
            BY <2>5, <3>2, <3>7
        <3>9. \A c \in clients' : frm'[Serial].id[1] = c => RadioSlots \subseteq SlotsSent(c)'
            BY <2>1, <2>2, <2>3, <3>5, <3>6, <3>8
        <3> QED
            BY <3>9 DEF AnswerOK
    <2> QED
        BY <2>1, <2>4, <2>5
<1>2. CASE frm'[Serial] = frm[Serial]
    <2> SUFFICES ASSUME frm[Serial] # Nil, frm[Serial].kind = "done", NEW c \in clients',
                        frm[Serial].id[1] = c, c \in Clients
                 PROVE  RadioSlots \subseteq SlotsSent(c)'
        <3>1. clients' \subseteq Clients
            BY DEF TypeOK, RegistryType
        <3> QED
            BY <1>2, <3>1 DEF AnswerOK
    <2>1. c \in Joined
        BY ThreadTypes, DistinctThreads DEF HandshakeInv, SendingOK, RegistryInv, JoinedOK,
           TargetsOK
    <2>2. c \in clients
        BY <2>1, NextNewcomers DEF Newcomers
    <2> QED
        BY <2>2, NextSlots DEF AnswerOK
<1>3. CASE frm'[Serial] = Nil \/ frm'[Serial].kind # "done"
    BY <1>3 DEF AnswerOK
<1> QED
    BY <1>1, <1>2, <1>3, NextDone

\* Where a frame is queued, all before it stays.
LEMMA QueuedBefore ==
    ASSUME TypeOK, NEW c \in Clients, NEW f, Accept(c, f), NEW m, m = Len(out[c]) + 1
    PROVE  /\ \A i \in 1..Len(out[c]) : SentBefore(c, i)' = SentBefore(c, i)
           /\ SentBefore(c, m)' = SlotsSent(c)
           /\ Dones(c)' \subseteq Dones(c) \cup {m}
           /\ f.kind # "done" => Dones(c)' = Dones(c)
           /\ \A d \in Clients \ {c} : Dones(d)' = Dones(d)
           /\ \A d \in Clients \ {c} : \A i : SentBefore(d, i)' = SentBefore(d, i)
<1> DEFINE l == Len(out[c])
           D == 1..Len(out[c])
<1>1. /\ l \in Nat /\ out'[c][m] = f /\ \A i \in D : out'[c][i] = out[c][i]
      /\ 1..Len(out'[c]) = D \cup {m} /\ m - 1 = l
      /\ \A d \in Clients \ {c} : out'[d] = out[d]
    BY Queued
<1>2. \A i \in D : \A j \in 1..(i - 1) : j \in D
    BY <1>1
<1>3. 1..(m - 1) = D
    BY <1>1
<1>4. /\ Dones(c) = {i \in D : out[c][i].kind = "done"}
      /\ Dones(c)' = {i \in D \cup {m} : out'[c][i].kind = "done"}
    BY <1>1 DEF Dones
<1>5. SlotsSent(c) = {out[c][j].slot : j \in {k \in D : out[c][k].kind = "cfg"}}
    BY DEF SlotsSent
<1>6. SentBefore(c, m)' = {out'[c][j].slot : j \in {k \in 1..(m - 1) : out'[c][k].kind = "cfg"}}
    BY DEF SentBefore
<1> HIDE DEF l, D
<1>7. SentBefore(c, m)' = SlotsSent(c)
    BY <1>1, <1>3, <1>5, <1>6
<1>8. ASSUME NEW i \in D PROVE SentBefore(c, i)' = SentBefore(c, i)
    <2>1. \A j \in 1..(i - 1) : out'[c][j] = out[c][j]
        BY <1>1, <1>2
    <2> QED
        BY <2>1 DEF SentBefore
<1>9. Dones(c)' \subseteq Dones(c) \cup {m} /\ (f.kind # "done" => Dones(c)' = Dones(c))
    BY <1>1, <1>4
<1>10. \A d \in Clients \ {c} : Dones(d)' = Dones(d)
    BY <1>1 DEF Dones
<1>11. \A d \in Clients \ {c} : \A i : SentBefore(d, i)' = SentBefore(d, i)
    BY <1>1 DEF SentBefore
<1> QED
    BY <1>7, <1>8, <1>9, <1>10, <1>11 DEF D

\* Whoever has had an answer and is registered was so before the step.
LEMMA AnsweredBefore ==
    ASSUME TypeOK, RegistryInv, SourcesInv, [Next]_vars, NEW c \in clients', c \in Clients,
           Dones(c) # {}
    PROVE  c \in clients
BY NextNewcomers, NotJoined DEF Newcomers

\* An answer that readSerial queues is preceded by the whole dump.
LEMMA SentAnswer ==
    ASSUME TypeOK, LocalsOK, RegistryInv, SourcesInv, HandshakeInv, AnswerOK, [Next]_vars,
           NEW t \in Threads, NEW c \in clients', c \in Clients, Send(t, c), frm[t].kind = "done"
    PROVE  c \in clients /\ RadioSlots \subseteq SlotsSent(c)
<1>1. t = Serial
    BY SentByOthers
<1>2. frm[Serial] # Nil /\ pc[Serial] = "send" /\ c \in todo[Serial]
    BY <1>1, ThreadTypes, NilIsNoFrame DEF LocalsOK, Send, At
<1>3. frm[Serial].id[1] = c
    BY <1>1, <1>2, ThreadTypes DEF HandshakeInv, SendingOK
<1>4. c \in Joined
    BY <1>2, ThreadTypes, DistinctThreads DEF RegistryInv, JoinedOK, TargetsOK
<1>5. c \in clients
    BY <1>4, NextNewcomers DEF Newcomers
<1> QED
    BY <1>1, <1>2, <1>3, <1>5 DEF AnswerOK

LEMMA NextComplete ==
    ASSUME TypeOK, TypeOK', LocalsOK, RegistryInv, SourcesInv, HandshakeInv, AnswerOK,
           RadioAnswerComplete, [Next]_vars
    PROVE  RadioAnswerComplete'
<1> SUFFICES ASSUME NEW c \in clients', c \in Clients, NEW i \in Dones(c)',
                    out'[c][i].via = "radio"
             PROVE  RadioSlots \subseteq SentBefore(c, i)'
    <2>1. clients' \subseteq Clients
        BY DEF TypeOK, RegistryType
    <2> QED
        BY <2>1 DEF RadioAnswerComplete
<1>1. ASSUME i \in Dones(c), out'[c][i] = out[c][i], SentBefore(c, i)' = SentBefore(c, i)
      PROVE  RadioSlots \subseteq SentBefore(c, i)'
    <2>1. c \in clients
        BY <1>1, AnsweredBefore
    <2> QED
        BY <1>1, <2>1 DEF RadioAnswerComplete
<1>2. CASE UNCHANGED out
    BY <1>1, <1>2 DEF Dones, SentBefore
<1>3. ASSUME NEW d \in Clients, NEW f, Accept(d, f),
             d = c /\ f.kind = "done" /\ f.via = "radio" => RadioSlots \subseteq SlotsSent(c)
      PROVE  RadioSlots \subseteq SentBefore(c, i)'
    <2>1. CASE d # c
        BY <1>1, <1>3, <2>1, Queued, QueuedBefore
    <2>2. CASE d = c
        <3>0. PICK m : m = Len(out[c]) + 1
            OBVIOUS
        <3>1. CASE i \in Dones(c)
            <4>1. i \in 1..Len(out[c])
                BY <3>1 DEF Dones
            <4> QED
                BY <1>1, <1>3, <2>2, <3>0, <3>1, <4>1, Queued, QueuedBefore
        <3>2. CASE i = m /\ i \notin Dones(c)
            <4>1. out'[c][m] = f
                BY <1>3, <2>2, <3>0, Queued
            <4>2. f.kind = "done"
                BY <4>1, <3>2 DEF Dones
            <4>3. SentBefore(c, m)' = SlotsSent(c)
                BY <1>3, <2>2, <3>0, QueuedBefore
            <4> QED
                BY <1>3, <2>2, <3>2, <4>1, <4>2, <4>3
        <3> QED
            BY <1>3, <2>2, <3>0, <3>1, <3>2, QueuedBefore
    <2> QED
        BY <2>1, <2>2
<1>4. ASSUME NEW t \in Threads, NEW d \in Clients, Send(t, d), Accept(d, frm[t])
      PROVE  RadioSlots \subseteq SentBefore(c, i)'
    BY <1>3, <1>4, SentAnswer
<1>5. ASSUME NEW d \in Clients, Replays(d) PROVE RadioSlots \subseteq SentBefore(c, i)'
    <2>1. /\ \A s, v : CfgFrame(s, v).kind # "done"
          /\ \A j : DoneFrame(j, "cache").via # "radio"
        BY DEF CfgFrame, DoneFrame
    <2> QED
        BY <1>3, <1>5, <2>1 DEF Replays
<1> QED
    BY <1>2, <1>4, <1>5, NextQueues

\* Whoever is told that its config is complete has had what the cache holds.
LEMMA NextUpToDate ==
    ASSUME TypeOK, TypeOK', LocalsOK, RegistryInv, SourcesInv, DeliveryInv, HandshakeInv,
           AnswerOK, UpToDate, [Next]_vars
    PROVE  UpToDate'
<1> SUFFICES ASSUME RadioSlots = Slots, NEW c \in clients', c \in Clients, NEW s \in Held(cache)',
                    Dones(c)' # {}
             PROVE  Reached(c, CfgFrame(s, cache[s]))'
    <2>1. clients' \subseteq Clients
        BY DEF TypeOK, RegistryType
    <2> QED
        BY <2>1 DEF UpToDate
<1>1. s \in Slots
    BY DEF Held
<1>2. ASSUME cache'[s] = cache[s], Reached(c, CfgFrame(s, cache[s]))
      PROVE  Reached(c, CfgFrame(s, cache[s]))'
    <2>1. PICK f : f = CfgFrame(s, cache[s])
        OBVIOUS
    <2>2. Reached(c, f)'
        BY <1>2, <2>1, NextReached
    <2> QED
        BY <1>2, <2>1, <2>2 DEF CfgFrame
<1>3. ASSUME cache'[s] = cache[s], Dones(c) # {} PROVE Reached(c, CfgFrame(s, cache[s]))'
    <2>1. c \in clients /\ s \in Held(cache)
        BY <1>3, AnsweredBefore DEF Held
    <2> QED
        BY <1>2, <1>3, <2>1 DEF UpToDate
<1>4. CASE SerialConfig
    <2>0. PICK f : f = Head(fromRadio)
        OBVIOUS
    <2>1. /\ UNCHANGED out /\ cache' = [cache EXCEPT ![f.slot] = f.ver]
          /\ frm'[Serial] = f /\ pc'[Serial] = "cast" /\ f.kind = "cfg" /\ fromRadio # <<>>
        BY <1>4, <2>0, ThreadTypes DEF TypeOK, WorkType, SerialConfig, ReadFrame, Goto
    <2>2. f \in CfgFrames /\ f.slot \in Slots
        BY <2>0, <2>1, HeadTyped, FrameKinds DEF TypeOK
    <2>3. cache'[f.slot] = f.ver /\ \A u \in Slots \ {f.slot} : cache'[u] = cache[u]
        BY <2>1, <2>2 DEF TypeOK, ConfigType
    <2>4. Dones(c) # {}
        BY <2>1 DEF Dones
    <2>5. CASE s = f.slot
        <3>1. f = CfgFrame(f.slot, f.ver)
            BY <2>2 DEF CfgFrames, CfgFrame
        <3>2. Reached(c, f)'
            BY <2>1 DEF Reached, Coming
        <3> QED
            BY <2>3, <2>5, <3>1, <3>2 DEF CfgFrame
    <2>6. CASE s # f.slot
        BY <1>1, <1>3, <2>3, <2>4, <2>6
    <2> QED
        BY <2>5, <2>6
<1>5. CASE SerialRebooted
    BY <1>5 DEF SerialRebooted, ResetCache, NoCache, Held
<1>6. CASE UNCHANGED <<out, cache>>
    BY <1>3, <1>6 DEF Dones
<1>7. ASSUME NEW t \in Threads, NEW d \in Clients, Send(t, d), Accept(d, frm[t])
      PROVE  Reached(c, CfgFrame(s, cache[s]))'
    <2>1. UNCHANGED cache
        BY <1>7 DEF Send
    <2>2. CASE Dones(c) = {}
        <3>1. d = c /\ frm[t].kind = "done"
            BY <1>7, <2>2, QueuedBefore
        <3>2. c \in clients /\ s \in SlotsSent(c)
            BY <1>1, <1>7, <3>1, SentAnswer
        <3>3. s \in Held(cache)
            BY <2>1 DEF Held
        <3>4. Reached(c, CfgFrame(s, cache[s]))
            BY <3>2, <3>3 DEF DeliveryInv, SlotsOK
        <3> QED
            BY <1>2, <2>1, <3>4
    <2> QED
        BY <1>3, <2>1, <2>2
<1>8. ASSUME NEW d \in Clients, Replays(d) PROVE Reached(c, CfgFrame(s, cache[s]))'
    <2>1. UNCHANGED cache /\ Replaying(d)
        BY <1>8 DEF Replays, Replay, At, Replaying
    <2>2. CASE Dones(c) = {}
        <3>1. \A u, v : CfgFrame(u, v).kind # "done"
            BY DEF CfgFrame
        <3>2. d = c /\ Held(snap[c]) = {}
            BY <1>8, <2>2, <3>1, QueuedBefore DEF Replays
        <3>3. c \in clients
            BY <2>1, <3>2, NotJoined, NextNewcomers DEF Newcomers
        <3>4. s \in Held(cache)
            BY <2>1 DEF Held
        <3>5. Reached(c, CfgFrame(s, cache[s])) \/ snap[c][s] = cache[s]
            BY <2>1, <3>2, <3>3, <3>4 DEF DeliveryInv, ReplayOK, Replaying
        <3>6. snap[c][s] # cache[s]
            BY <1>1, <3>2, <3>4 DEF Held
        <3> QED
            BY <1>2, <2>1, <3>5, <3>6
    <2> QED
        BY <1>3, <2>1, <2>2
<1>9. UNCHANGED cache \/ SerialConfig \/ SerialRebooted
    <2>1. ASSUME NEW t \in Threads, SharedStep(t) PROVE UNCHANGED cache
        BY <2>1, SharedRest
    <2>2. CASE SerialStep \/ SerialGlitch
        BY <2>2 DEF SerialStep, SerialGlitch, SerialLoop, SerialError, SerialComplete,
           SwapPending, ReissueDone, SerialPacket, Reissue
    <2>3. ASSUME NEW d \in Clients,
                 \/ ClientInput(d) \/ ReaderStep(d) \/ ReadError(d)
                 \/ WriterStep(d) \/ WriterWrote(d) \/ WriterFails(d)
          PROVE  UNCHANGED cache
        BY <2>3 DEF ClientInput, ReadWant, ReadDisconnect, ReadPacket, ReadOther, ReadRaw,
           ReadTraffic, ReaderStep, DropOwn, Note, Snapshot, Replay, ReadError, WriterStep,
           WriterStops, WriterTakes, WriterWrote, WriterFails
    <2>4. CASE \/ BootStart \/ BootScan \/ WebSend \/ RunReturns \/ ServerStep \/ ServerWakes
               \/ \E d \in Clients : AcceptConn(d) \/ AddClient(d)
        BY <2>4 DEF BootStart, BootScan, WebSend, RunReturns, ServerStep, ServerStatus,
           ListClients, CloseSerial, RemoveListed, ServerWakes, AcceptConn, AddClient
    <2>5. CASE \/ RadioAnswers \/ RadioHears \/ RadioReboots \/ LinkFails \/ Cancel
               \/ \E u \in Slots : RadioUpdates(u)
               \/ \E p \in outbound : OutboundExpires(p)
               \/ UNCHANGED vars
        BY <2>5, RadioAside
    <2> QED
        BY <2>1, <2>2, <2>3, <2>4, <2>5 DEF Next
<1> QED
    BY <1>4, <1>5, <1>6, <1>7, <1>8, <1>9, NextQueues

LEMMA InitAnswers == Init => AnswersInv
<1> SUFFICES ASSUME Init PROVE AnswersInv
    OBVIOUS
<1>1. /\ Len(fromRadio) = 0 /\ Len(toRadio) = 0 /\ Held(cache) = {}
      /\ \A t \in Threads : frm[t] = Nil
    BY DEF Init, NoCache, Held
<1>2. \A c \in Clients : Dones(c) = {}
    BY DEF Init, Dones
<1>3. clients \subseteq Clients
    BY BrokerAssumptions DEF Init
<1>4. ServeOK /\ \A s \in Slots : radioCfg[s] # 0
    BY NoReqClient DEF Init, ServeOK
<1> QED
    BY <1>1, <1>2, <1>3, <1>4, ThreadTypes DEF AnswersInv, VersionsOK, StartOK, DumpOK,
       AnswerOK, RadioAnswerComplete, UpToDate

LEMMA AnswersInvariant ==
    ASSUME MyInfoFirst
    PROVE  Spec /\ [][~Damaged({"cfg"})]_vars => [](BaseInv /\ HandshakeInv /\ AnswersInv)
<1> DEFINE Inv == BaseInv /\ HandshakeInv /\ AnswersInv
<1>1. Init => Inv
    BY InitBase, InitHandshake, InitAnswers
<1>2. Inv /\ [Next]_vars /\ [~Damaged({"cfg"})]_vars => Inv'
    <2> SUFFICES ASSUME Inv, [Next]_vars, [~Damaged({"cfg"})]_vars PROVE Inv'
        OBVIOUS
    <2>1. BaseInv' /\ HandshakeInv'
        BY NextBase, NextHandshake DEF BaseInv
    <2>2. ServeOK' /\ VersionsOK' /\ StartOK'
        BY NextServe, NextVersions, NextStart DEF BaseInv, AnswersInv
    <2>3. DumpOK'
        BY <2>1, NextDump DEF BaseInv, AnswersInv
    <2>4. AnswerOK'
        BY <2>1, NextAnswer DEF BaseInv, AnswersInv
    <2>5. RadioAnswerComplete'
        BY <2>1, NextComplete DEF BaseInv, AnswersInv
    <2>6. UpToDate'
        BY <2>1, NextUpToDate DEF BaseInv, AnswersInv
    <2> QED
        BY <2>1, <2>2, <2>3, <2>4, <2>5, <2>6 DEF AnswersInv
<1> QED
    BY <1>1, <1>2, PTL DEF Spec

\* If the radio begins a dump with my_info and no part of the config is lost on the line,
\* a registered client that is told that the radio has completed its config has been sent
\* every slot of the dump before: for any number of clients and requests at once, nonces
\* drawn twice, retries, reboots that cut dumps short, other frames lost, and full queues.
THEOREM CompleteCorrect ==
    ASSUME MyInfoFirst
    PROVE  Spec /\ [][~Damaged({"cfg"})]_vars => []RadioAnswerComplete
<1>1. BaseInv /\ AnswersInv => RadioAnswerComplete
    BY DEF AnswersInv
<1> QED
    BY <1>1, AnswersInvariant, PTL

\* Under the same conditions, and if the radio dumps all it has, a registered client
\* that has had an answer, from the radio or from the cache, has been sent what the
\* broker caches of each slot in that very version, or it is on its way, or the client
\* is being removed because its queue is full.
THEOREM MissedCorrect ==
    ASSUME MyInfoFirst, RadioSlots = Slots
    PROVE  Spec /\ [][~Damaged({"cfg"})]_vars => []NoMissedUpdate
<1>1. BaseInv /\ AnswersInv => NoMissedUpdate
    BY DEF AnswersInv, UpToDate, NoMissedUpdate, Reached, Coming
<1> QED
    BY <1>1, AnswersInvariant, PTL

-----------------------------------------------------------------------------
(* While the radio does not reboot *)

\* No reboot is on the line or being handled, so handleRebooted has no request in hand.
Rebooting == {"swap", "reissue", "reserve", "forward", "write"}
CalmLine == \A i \in 1..Len(fromRadio) : fromRadio[i].kind # "rebooted"
CalmInv == CalmLine /\ pc[Serial] \notin Rebooting /\ \A c \in Clients : ~HandedOver(c)

LEMMA CalmAppend ==
    ASSUME TypeOK, CalmLine, NEW f \in FromRadio, fromRadio' = Append(fromRadio, f),
           f.kind # "rebooted"
    PROVE  CalmLine'
<1> DEFINE l == Len(fromRadio)
           m == Len(fromRadio')
<1>1. /\ m = l + 1 /\ l \in Nat /\ fromRadio'[l + 1] = f
      /\ \A i \in 1..l : fromRadio'[i] = fromRadio[i]
    BY LineAppend, LineLength DEF TypeOK
<1> HIDE DEF l, m
<1>2. \A i \in 1..m : i \in 1..l \/ i = l + 1
    BY <1>1
<1>3. \A i \in 1..l : fromRadio[i].kind # "rebooted"
    BY DEF CalmLine, l
<1>4. \A i \in 1..m : fromRadio'[i].kind # "rebooted"
    BY <1>1, <1>2, <1>3
<1> QED
    BY <1>4 DEF CalmLine, m

LEMMA NextCalmLine ==
    ASSUME TypeOK, CalmLine, [Next]_vars, [~RadioReboots]_vars PROVE CalmLine'
<1>1. CASE UNCHANGED fromRadio
    BY <1>1 DEF CalmLine
<1>2. ASSUME NEW t \in Threads, SharedStep(t) PROVE UNCHANGED fromRadio
    BY <1>2 DEF SharedStep, CallStep, Unlink, DropRemoved, Close, ReadRegistry, ReadCache,
       SetStatus, Reserve, Forward, WriteSerial, SerialFailed, Cast, Send
<1>3. CASE SerialStep \/ SerialGlitch
    <2>1. UNCHANGED fromRadio \/ (fromRadio # <<>> /\ fromRadio' = Tail(fromRadio))
        BY <1>3 DEF SerialStep, SerialGlitch, SerialLoop, SerialError, SerialConfig,
           SerialComplete, SerialRebooted, SwapPending, ReissueDone, SerialPacket, Reissue,
           ReadFrame
    <2>2. ASSUME fromRadio # <<>>, fromRadio' = Tail(fromRadio) PROVE CalmLine'
        <3>1. \A i \in 1..Len(fromRadio') :
                 i + 1 \in 1..Len(fromRadio) /\ fromRadio'[i] = fromRadio[i + 1]
            BY <2>2, LineRead DEF TypeOK
        <3> QED
            BY <3>1 DEF CalmLine
    <2> QED
        BY <1>1, <2>1, <2>2
<1>4. CASE \/ BootStart \/ BootScan \/ WebSend \/ RunReturns \/ ServerStep \/ ServerWakes
           \/ \E c \in Clients : AcceptConn(c) \/ AddClient(c)
    BY <1>1, <1>4 DEF BootStart, BootScan, WebSend, RunReturns, ServerStep, ServerStatus,
       ListClients, CloseSerial, RemoveListed, ServerWakes, AcceptConn, AddClient
<1>5. ASSUME NEW c \in Clients,
             \/ ClientInput(c) \/ ReaderStep(c) \/ ReadError(c)
             \/ WriterStep(c) \/ WriterWrote(c) \/ WriterFails(c)
      PROVE  UNCHANGED fromRadio
    BY <1>5 DEF ClientInput, ReadWant, ReadDisconnect, ReadPacket, ReadOther, ReadRaw,
       ReadTraffic, ReaderStep, DropOwn, Note, Snapshot, Replay, ReadError, WriterStep,
       WriterStops, WriterTakes, WriterWrote, WriterFails
<1>6. CASE RadioAnswers
    <2>1. ASSUME NEW n \in Nonces, fromRadio' = fromRadio \o Append(Dump, Complete(n))
          PROVE  CalmLine'
        <3> SUFFICES ASSUME NEW i \in 1..Len(fromRadio') PROVE fromRadio'[i].kind # "rebooted"
            BY DEF CalmLine
        <3>1. \/ i \in 1..Len(fromRadio) /\ fromRadio'[i] = fromRadio[i]
              \/ fromRadio'[i].kind \in {"cfg", "complete"}
            BY <2>1, DumpLine
        <3> QED
            BY <3>1 DEF CalmLine
    <2>2. \A f \in PktFrames : f.kind = "pkt"
        BY FrameKinds
    <2> QED
        BY <1>1, <1>6, <2>1, <2>2, AnswersFrames, CalmAppend
<1>7. CASE RadioHears
    BY <1>7, HearsFrame, CalmAppend, FrameKinds
<1>8. ASSUME NEW s \in Slots, RadioUpdates(s) PROVE CalmLine'
    BY <1>8, UpdatesFrame, CalmAppend, FrameKinds
<1>9. CASE \/ LinkFails \/ Cancel \/ UNCHANGED vars
           \/ \E p \in outbound : OutboundExpires(p)
    BY <1>1, <1>9 DEF LinkFails, Cancel, OutboundExpires, vars
<1> QED
    BY <1>1, <1>2, <1>3, <1>4, <1>5, <1>6, <1>7, <1>8, <1>9 DEF Next, vars

LEMMA NextCalm ==
    ASSUME TypeOK, ServeOK, CalmInv, [Next]_vars, [~RadioReboots]_vars PROVE CalmInv'
<1>1. ~SerialRebooted
    <2>1. ASSUME fromRadio # <<>> PROVE Head(fromRadio).kind # "rebooted"
        <3>1. 1 \in 1..Len(fromRadio) /\ Head(fromRadio) = fromRadio[1]
            BY <2>1 DEF TypeOK, WireType
        <3> QED
            BY <3>1 DEF CalmInv, CalmLine
    <2> QED
        BY <2>1 DEF SerialRebooted, ReadFrame
<1>2. ~SwapPending /\ ~ReissueDone /\ \A n : ~Reissue(n)
    BY DEF CalmInv, Rebooting, SwapPending, ReissueDone, Reissue, At
<1>3. pc'[Serial] \notin Rebooting
    <2>1. CASE SharedStep(Serial)
        <3>1. ~Reserve(Serial) /\ ~Forward(Serial) /\ ~WriteSerial(Serial)
            BY DEF CalmInv, Rebooting, Reserve, Forward, WriteSerial, At
        <3>2. CASE CallStep(Serial)
            BY <3>2 DEF CallStep, Unlink, DropRemoved, Close, ReadRegistry, ReadCache,
               SetStatus, CalmInv
        <3>3. CASE Cast(Serial) \/ \E c \in Clients : Send(Serial, c)
            <4>0. Home(Serial) = "loop"
                BY DistinctThreads DEF Home
            <4>1. UNCHANGED pc \/ Goto(Serial, "send") \/ Goto(Serial, Home(Serial))
                <5>1. Cast(Serial) => Goto(Serial, "send") \/ Goto(Serial, Home(Serial))
                    BY DEF Cast, Finish
                <5>2. ASSUME NEW c \in Clients, Send(Serial, c)
                      PROVE  UNCHANGED pc \/ Goto(Serial, Home(Serial))
                    BY <5>2 DEF Send, Finish
                <5> QED
                    BY <3>3, <5>1, <5>2
            <4> QED
                BY <4>0, <4>1, ThreadTypes DEF TypeOK, WorkType, Goto, CalmInv, Rebooting
        <3> QED
            BY <2>1, <3>1, <3>2, <3>3 DEF SharedStep
    <2>2. ASSUME NEW t \in Threads, t # Serial, SharedStep(t) PROVE Aside
        BY <2>2, SharedOwn, OwnAside
    <2>3. CASE SerialStep \/ SerialGlitch
        <3>1. \/ UNCHANGED pc
              \/ \E l \in {"read", "loop", "cast", "send", "stopped", "posted"} : Goto(Serial, l)
            BY <1>1, <1>2, <2>3 DEF SerialStep, SerialGlitch, SerialLoop, SerialError,
               SerialConfig, SerialComplete, SerialPacket
        <3> QED
            BY <3>1, ThreadTypes DEF TypeOK, WorkType, Goto, CalmInv, Rebooting
    <2>4. CASE \/ RadioAnswers \/ RadioHears \/ RadioReboots \/ LinkFails \/ Cancel
               \/ \E s \in Slots : RadioUpdates(s)
               \/ \E p \in outbound : OutboundExpires(p)
               \/ UNCHANGED vars
        BY <2>4, RadioAside DEF CalmInv
    <2> QED
        BY <2>1, <2>2, <2>3, <2>4, ClientAside, OthersAside DEF Next, Aside, CalmInv
<1>4. ASSUME NEW c \in Clients PROVE ~HandedOver(c)'
    <2>1. old' = old \/ \A n \in Nonces : old'[n].client # c \/ old'[n] = old[n]
        BY <1>2, NextOld DEF OldShrinks
    <2>2. req'[Serial] = req[Serial] \/ req'[Serial].client # c
        <3>1. ASSUME NEW d \in Clients, ReadWant(d) PROVE req'[Serial] = req[Serial]
            <4>1. Reader(d) # Serial
                BY DistinctThreads
            <4> QED
                BY <3>1, <4>1, ThreadTypes DEF TypeOK, WorkType, ReadWant
        <3> QED
            BY <1>2, <3>1, NextReq, ThreadTypes DEF ReqShrinks
    <2> QED
        BY <2>1, <2>2 DEF CalmInv, HandedOver
<1> QED
    BY <1>3, <1>4, NextCalmLine DEF CalmInv

\* While the radio does not reboot, nothing is overlooked: with no condition on the
\* schedule, a client has one request in pendingConfig at a time, and none that outlives
\* its reader.
THEOREM CalmCorrect ==
    Spec /\ [][~RadioReboots]_vars => [](OneRequestPerClient /\ NoGhostRequests)
<1> DEFINE Inv == TypeOK /\ LocalsOK /\ SenderOK /\ RegistryInv /\ ServeOK /\ CalmInv
<1>1. Init => Inv
    <2> SUFFICES ASSUME Init PROVE CalmInv
        BY InitType, InitRegistry, InitSingle DEF SingleInv
    <2>1. Len(fromRadio) = 0 /\ pc[Serial] \notin Rebooting
        BY ThreadTypes, DistinctThreads DEF Init, Rebooting
    <2>2. \A c \in Clients : ~HandedOver(c)
        BY NoReqClient, ThreadTypes DEF Init, HandedOver
    <2> QED
        BY <2>1, <2>2 DEF CalmInv, CalmLine
<1>2. Inv /\ [Next]_vars /\ [~RadioReboots]_vars => Inv'
    BY NextType, NextRegistry, NextServe, NextCalm
<1>3. Inv => [~Overlooked]_vars
    BY DEF CalmInv, Overlooked
<1> HIDE DEF Inv
<1>4. Spec /\ [][~RadioReboots]_vars => [][~Overlooked]_vars
    BY <1>1, <1>2, <1>3, PTL DEF Spec
<1> QED
    BY <1>4, OneRequestCorrect, NoGhostsCorrect, PTL

-----------------------------------------------------------------------------
(* Broker implements Handshake *)

\* A step of the broker is a step of the abstract handshake, or none.
ContractStep == [Contract!Next]_(Contract!vars)

\* The open requests are the ids in some place.
openIds == {i \in RequestIds : \E p \in Places : idAt[p] = i}

\* A goroutine has a request in hand only while it serves it.
Busy == {"drop", "reserve", "snapshot", "replay"}
BusyOK == \A t \in Threads : req[t].id \in RequestIds => pc[t] \in Busy

SameOpen == OpenRequests \ {NoReq.id, BootId} = openIds

LEMMA OpenIds == TypeOK => SameOpen
<1> SUFFICES ASSUME TypeOK PROVE SameOpen
    OBVIOUS
<1>1. \A r \in Requests \cup {NoReq} : r.id \in RequestIds \cup {NoReq.id, BootId}
    BY DEF Requests
<1>2. /\ \A t \in Threads : req[t] \in Requests \cup {NoReq}
      /\ \A n \in Nonces : /\ pendingConfig[n] \in Requests \cup {NoReq}
                           /\ old[n] \in Requests \cup {NoReq}
    BY DEF TypeOK, WorkType, ConfigType
<1>3. ASSUME NEW t \in Threads, frm[t] # Nil, frm[t].kind = "done" PROVE frm[t].id \in RequestIds
    BY <1>3, FrameKinds DEF TypeOK, WorkType, ToClient, ToRadio
<1>4. ASSUME NEW i
      PROVE  i \in OpenRequests <=>
                 \/ \E t \in Threads : \/ i = req[t].id
                                       \/ frm[t] # Nil /\ frm[t].kind = "done" /\ i = frm[t].id
                 \/ \E n \in Nonces : i = pendingConfig[n].id \/ i = old[n].id
    BY DEF OpenRequests
<1>5. ASSUME NEW i \in OpenRequests, i \notin {NoReq.id, BootId} PROVE i \in openIds
    <2>1. i \in RequestIds
        BY <1>1, <1>2, <1>3, <1>4, <1>5
    <2>2. \E p \in Places : idAt[p] = i
        <3>1. ASSUME NEW t \in Threads, i = req[t].id PROVE \E p \in Places : idAt[p] = i
            <4>1. <<"req", t>> \in Places /\ idAt[<<"req", t>>] = i
                BY <3>1, PlaceTypes, IdAt
            <4> QED
                BY <4>1
        <3>2. ASSUME NEW t \in Threads, frm[t] # Nil, frm[t].kind = "done", i = frm[t].id
              PROVE  \E p \in Places : idAt[p] = i
            <4>1. <<"frm", t>> \in Places /\ idAt[<<"frm", t>>] = i
                BY <3>2, PlaceTypes, IdAt DEF FrameId
            <4> QED
                BY <4>1
        <3>3. ASSUME NEW n \in Nonces, i = pendingConfig[n].id
              PROVE  \E p \in Places : idAt[p] = i
            <4>1. <<"pending", n>> \in Places /\ idAt[<<"pending", n>>] = i
                BY <3>3, PlaceTypes, IdAt
            <4> QED
                BY <4>1
        <3>4. ASSUME NEW n \in Nonces, i = old[n].id PROVE \E p \in Places : idAt[p] = i
            <4>1. <<"old", n>> \in Places /\ idAt[<<"old", n>>] = i
                BY <3>4, PlaceTypes, IdAt
            <4> QED
                BY <4>1
        <3> QED
            BY <1>4, <3>1, <3>2, <3>3, <3>4
    <2> QED
        BY <2>1, <2>2 DEF openIds
<1>6. ASSUME NEW i \in openIds PROVE i \in OpenRequests /\ i \notin {NoReq.id, BootId}
    <2>1. i \in RequestIds /\ i \notin {NoReq.id, BootId}
        BY NoReqId DEF openIds
    <2>2. PICK p \in Places : idAt[p] = i
        BY DEF openIds
    <2>3. \/ \E t \in Threads : i = req[t].id \/ i = FrameId(frm[t])
          \/ \E n \in Nonces : i = pendingConfig[n].id \/ i = old[n].id
        <3>1. CASE \E t \in Threads : p = <<"req", t>> \/ p = <<"frm", t>>
            BY <2>2, <3>1, IdAt
        <3>2. CASE \E n \in Nonces : p = <<"pending", n>> \/ p = <<"old", n>>
            BY <2>2, <3>2, IdAt
        <3> QED
            BY <3>1, <3>2, PlaceTypes
    <2>4. i \in OpenRequests
        BY <1>4, <2>1, <2>3 DEF FrameId
    <2> QED
        BY <2>1, <2>4
<1> QED
    BY <1>5, <1>6 DEF SameOpen

LEMMA OpenIdsNext == TypeOK' => SameOpen'
BY OpenIds, PTL

\* What a frame adds to the histories.
sentTo == [c \in Clients |-> Len(out[c])]
knownTo == [c \in Clients |-> SlotsSent(c)]
answersTo == [c \in Clients |-> Answers(c)]

LEMMA SameHistories == ASSUME UNCHANGED out PROVE UNCHANGED <<sentTo, knownTo, answersTo>>
BY DEF sentTo, knownTo, answersTo, SlotsSent, Answers, Dones

LEMMA QueuedHistories ==
    ASSUME TypeOK, NEW c \in Clients, NEW f, Accept(c, f)
    PROVE  /\ sentTo' = [sentTo EXCEPT ![c] = @ + 1]
           /\ f.kind # "cfg" => UNCHANGED knownTo
           /\ f.kind = "cfg" => knownTo' = [knownTo EXCEPT ![c] = @ \cup {f.slot}]
           /\ f.kind # "done" => UNCHANGED answersTo
           /\ f.kind = "done" => answersTo' = [answersTo EXCEPT ![c] =
                 @ \cup {[at |-> sentTo[c] + 1, id |-> f.id, via |-> f.via]}]
<1> DEFINE D == 1..Len(out[c])
           m == Len(out[c]) + 1
<1>1. /\ out'[c][m] = f /\ \A i \in D : out'[c][i] = out[c][i]
      /\ 1..Len(out'[c]) = D \cup {m} /\ Len(out'[c]) = m
      /\ \A d \in Clients \ {c} : out'[d] = out[d]
    BY Queued
<1>2. sentTo' = [sentTo EXCEPT ![c] = @ + 1]
    BY <1>1 DEF sentTo
<1>3. f.kind # "cfg" => UNCHANGED knownTo
    BY QueuedSlots DEF knownTo
<1>4. f.kind = "cfg" => knownTo' = [knownTo EXCEPT ![c] = @ \cup {f.slot}]
    BY QueuedSlots DEF knownTo
<1>5. \A d \in Clients \ {c} : Answers(d)' = Answers(d)
    BY <1>1 DEF Answers, Dones
<1>6. ASSUME f.kind # "done" PROVE Answers(c)' = Answers(c)
    <2>1. Dones(c)' = Dones(c) /\ Dones(c) \subseteq D
        <3> HIDE DEF D, m
        <3> QED
            BY <1>1, <1>6 DEF Dones, D
    <2> QED
        BY <1>1, <2>1 DEF Answers
<1>7. ASSUME f.kind = "done"
      PROVE  Answers(c)' = Answers(c) \cup {[at |-> m, id |-> f.id, via |-> f.via]}
    <2>1. Dones(c)' = Dones(c) \cup {m} /\ Dones(c) \subseteq D
        <3> HIDE DEF D, m
        <3> QED
            BY <1>1, <1>7 DEF Dones, D
    <2> HIDE DEF D, m
    <2> QED
        BY <1>1, <2>1 DEF Answers
<1>8. sentTo[c] + 1 = m
    BY DEF sentTo
<1> HIDE DEF m
<1> QED
    BY <1>2, <1>3, <1>4, <1>5, <1>6, <1>7, <1>8 DEF answersTo

-----------------------------------------------------------------------------
(* Kinds of abstract steps *)

LEMMA ForgetContract ==
    ASSUME TypeOK, TypeOK', UNCHANGED <<clients, asked, out>>, openIds' \subseteq openIds
    PROVE  ContractStep
<1>1. Contract!Drop
    BY OpenIds, OpenIdsNext, SameHistories DEF SameOpen, Contract!Drop, sentTo, knownTo, answersTo
<1> QED
    BY <1>1 DEF ContractStep, Contract!Next

LEMMA LeaveContract ==
    ASSUME TypeOK, TypeOK', NEW c \in Clients, clients' = clients \ {c},
           UNCHANGED <<asked, out>>, openIds' = openIds
    PROVE  ContractStep
<1>1. CASE c \in clients
    <2>1. Contract!Leave(c)
        BY <1>1, OpenIds, OpenIdsNext, SameHistories
           DEF SameOpen, Contract!Leave, sentTo, knownTo, answersTo
    <2> QED
        BY <2>1 DEF ContractStep, Contract!Next
<1>2. CASE c \notin clients
    BY <1>2, ForgetContract
<1> QED
    BY <1>1, <1>2

LEMMA JoinContract ==
    ASSUME TypeOK, TypeOK', NEW c \in Clients, c \notin clients, clients' = clients \cup {c},
           UNCHANGED <<asked, out>>, openIds' = openIds
    PROVE  ContractStep
<1>1. Contract!Join(c)
    BY OpenIds, OpenIdsNext, SameHistories DEF SameOpen, Contract!Join, sentTo, knownTo, answersTo
<1> QED
    BY <1>1 DEF ContractStep, Contract!Next

LEMMA AskContract ==
    ASSUME TypeOK, TypeOK', NEW c \in Clients, asked' = [asked EXCEPT ![c] = @ + 1],
           UNCHANGED <<clients, out>>, openIds' \in {openIds, openIds \cup {NextId(c)}}
    PROVE  ContractStep
<1>1. Contract!Ask(c)
    BY OpenIds, OpenIdsNext, SameHistories
       DEF SameOpen, Contract!Ask, NextId, sentTo, knownTo, answersTo
<1> QED
    BY <1>1 DEF ContractStep, Contract!Next

LEMMA QueueContract ==
    ASSUME TypeOK, TypeOK', NEW c \in Clients, NEW f \in CfgFrames \cup PktFrames,
           Accept(c, f), UNCHANGED <<clients, asked>>, openIds' = openIds
    PROVE  ContractStep
<1>1. CASE f \in CfgFrames
    <2>1. f.slot \in Slots /\ f.kind = "cfg"
        BY <1>1, FrameKinds
    <2>2. Contract!Learn(c, f.slot)
        BY <2>1, OpenIds, OpenIdsNext, QueuedHistories
           DEF SameOpen, Contract!Learn, Contract!Queue, sentTo, knownTo, answersTo
    <2> QED
        BY <2>1, <2>2 DEF ContractStep, Contract!Next
<1>2. CASE f \in PktFrames
    <2>1. f.kind = "pkt"
        BY <1>2, FrameKinds
    <2>2. Contract!Hear(c)
        BY <2>1, OpenIds, OpenIdsNext, QueuedHistories
           DEF SameOpen, Contract!Hear, Contract!Queue, sentTo, knownTo, answersTo
    <2> QED
        BY <2>2 DEF ContractStep, Contract!Next
<1> QED
    BY <1>1, <1>2

LEMMA AnswerContract ==
    ASSUME TypeOK, TypeOK', NEW c \in Clients, NEW i \in openIds, i[1] = c,
           NEW via \in {"radio", "cache"}, Accept(c, DoneFrame(i, via)),
           via = "radio" /\ c \in clients => RadioSlots \subseteq SlotsSent(c),
           UNCHANGED <<clients, asked>>, openIds' = openIds \ {i}
    PROVE  ContractStep
<1>1. PICK f : f = DoneFrame(i, via)
    OBVIOUS
<1>2. f.kind = "done" /\ f.id = i /\ f.via = via
    BY <1>1 DEF DoneFrame
<1>3. Accept(c, f)
    BY <1>1
<1>4. Contract!Answer(c, i, via)
    BY <1>2, <1>3, OpenIds, OpenIdsNext, QueuedHistories
       DEF SameOpen, Contract!Answer, Contract!Queue, sentTo, knownTo, answersTo
<1> QED
    BY <1>4, OpenIds DEF SameOpen, ContractStep, Contract!Next

-----------------------------------------------------------------------------
(* Where ids go *)

\* An id found in a place was in some place before.
ReqFrom  == \A t \in Threads : req'[t].id \in RequestIds =>
    req'[t] = req[t] \/ \E n \in Nonces : req'[t] = old[n]
FrmFrom  == \A t \in Threads : FrameId(frm'[t]) \in RequestIds =>
    frm'[t] = frm[t] \/ \E n \in Nonces : FrameId(frm'[t]) = pendingConfig[n].id
PendFrom == \A n \in Nonces : pendingConfig'[n].id \in RequestIds =>
    pendingConfig'[n] = pendingConfig[n] \/ \E t \in Threads : pendingConfig'[n] = req[t]
OldFrom  == \A n \in Nonces : old'[n].id \in RequestIds =>
    old'[n] = old[n] \/ old'[n] = pendingConfig[n]

LEMMA SameFrom ==
    /\ UNCHANGED req => ReqFrom
    /\ UNCHANGED frm => FrmFrom
    /\ UNCHANGED pendingConfig => PendFrom
    /\ UNCHANGED old => OldFrom
BY DEF ReqFrom, FrmFrom, PendFrom, OldFrom

LEMMA PlaceIds ==
    /\ \A t \in Threads : /\ req[t].id \in RequestIds => req[t].id \in openIds
                          /\ FrameId(frm[t]) \in RequestIds => FrameId(frm[t]) \in openIds
    /\ \A n \in Nonces :
          /\ pendingConfig[n].id \in RequestIds => pendingConfig[n].id \in openIds
          /\ old[n].id \in RequestIds => old[n].id \in openIds
<1>1. \A p \in Places : idAt[p] \in RequestIds => idAt[p] \in openIds
    BY DEF openIds
<1>2. ASSUME NEW t \in Threads
      PROVE  /\ req[t].id \in RequestIds => req[t].id \in openIds
             /\ FrameId(frm[t]) \in RequestIds => FrameId(frm[t]) \in openIds
    <2>1. <<"req", t>> \in Places /\ <<"frm", t>> \in Places
        BY PlaceTypes
    <2>2. idAt[<<"req", t>>] = req[t].id /\ idAt[<<"frm", t>>] = FrameId(frm[t])
        BY IdAt
    <2> QED
        BY <1>1, <2>1, <2>2
<1>3. ASSUME NEW n \in Nonces
      PROVE  /\ pendingConfig[n].id \in RequestIds => pendingConfig[n].id \in openIds
             /\ old[n].id \in RequestIds => old[n].id \in openIds
    <2>1. <<"pending", n>> \in Places /\ <<"old", n>> \in Places
        BY PlaceTypes
    <2>2. idAt[<<"pending", n>>] = pendingConfig[n].id /\ idAt[<<"old", n>>] = old[n].id
        BY IdAt
    <2> QED
        BY <1>1, <2>1, <2>2
<1> QED
    BY <1>2, <1>3

LEMMA FromOpen ==
    ASSUME ReqFrom, FrmFrom, PendFrom, OldFrom PROVE openIds' \subseteq openIds
<1> SUFFICES ASSUME NEW i \in RequestIds, NEW p \in Places, idAt'[p] = i PROVE i \in openIds
    BY DEF openIds
<1>1. ASSUME NEW t \in Threads, p = <<"req", t>> PROVE i \in openIds
    <2>1. req'[t].id = i
        BY <1>1, IdAtNext
    <2> QED
        BY <2>1, PlaceIds DEF ReqFrom
<1>2. ASSUME NEW t \in Threads, p = <<"frm", t>> PROVE i \in openIds
    <2>1. FrameId(frm'[t]) = i
        BY <1>2, IdAtNext
    <2>2. CASE frm'[t] = frm[t]
        <3>1. FrameId(frm[t]) = i
            BY <2>1, <2>2
        <3> QED
            BY <3>1, PlaceIds
    <2>3. CASE \E n \in Nonces : FrameId(frm'[t]) = pendingConfig[n].id
        BY <2>1, <2>3, PlaceIds
    <2> QED
        BY <2>1, <2>2, <2>3 DEF FrmFrom
<1>3. ASSUME NEW n \in Nonces, p = <<"pending", n>> PROVE i \in openIds
    <2>1. pendingConfig'[n].id = i
        BY <1>3, IdAtNext
    <2> QED
        BY <2>1, PlaceIds DEF PendFrom
<1>4. ASSUME NEW n \in Nonces, p = <<"old", n>> PROVE i \in openIds
    <2>1. old'[n].id = i
        BY <1>4, IdAtNext
    <2> QED
        BY <2>1, PlaceIds DEF OldFrom
<1> QED
    BY <1>1, <1>2, <1>3, <1>4, PlaceTypes

\* Nothing is opened or forgotten.
Alike(i, j) == i = j \/ (i \notin RequestIds /\ j \notin RequestIds)
LEMMA AlikeOpen ==
    ASSUME \A t \in Threads : /\ Alike(req'[t].id, req[t].id)
                              /\ Alike(FrameId(frm'[t]), FrameId(frm[t])),
           UNCHANGED <<pendingConfig, old>>
    PROVE  openIds' = openIds
<1>1. \A p \in Places : Alike(idAt'[p], idAt[p])
    <2> SUFFICES ASSUME NEW p \in Places PROVE Alike(idAt'[p], idAt[p])
        OBVIOUS
    <2>1. ASSUME NEW t \in Threads, p = <<"req", t>> PROVE Alike(idAt'[p], idAt[p])
        BY <2>1, IdAt, IdAtNext
    <2>2. ASSUME NEW t \in Threads, p = <<"frm", t>> PROVE Alike(idAt'[p], idAt[p])
        BY <2>2, IdAt, IdAtNext
    <2>3. ASSUME NEW n \in Nonces, p = <<"pending", n>> \/ p = <<"old", n>>
          PROVE  Alike(idAt'[p], idAt[p])
        BY <2>3, IdAt, IdAtNext DEF Alike
    <2> QED
        BY <2>1, <2>2, <2>3, PlaceTypes
<1> QED
    BY <1>1 DEF openIds, Alike

LEMMA AlikeRefl == \A i : Alike(i, i)
BY DEF Alike

\* The id at a is gone, all others stay.
LEMMA GoneOpen ==
    ASSUME UniqueOK, NEW a \in Places, NEW i \in RequestIds, idAt[a] = i,
           idAt'[a] \notin RequestIds, \A p \in Places \ {a} : Alike(idAt'[p], idAt[p])
    PROVE  i \in openIds /\ openIds' = openIds \ {i}
<1>1. \A p \in Places : idAt[p] = i => p = a
    BY DEF UniqueOK
<1>2. ASSUME NEW j \in RequestIds PROVE j \in openIds' <=> j \in openIds /\ j # i
    <2>1. ASSUME NEW p \in Places, idAt'[p] = j PROVE idAt[p] = j /\ j # i
        BY <1>1, <2>1 DEF Alike
    <2>2. ASSUME NEW p \in Places, idAt[p] = j, j # i PROVE idAt'[p] = j
        BY <2>2 DEF Alike
    <2> QED
        BY <2>1, <2>2 DEF openIds
<1> QED
    BY <1>2 DEF openIds

-----------------------------------------------------------------------------
(* A goroutine has a request only while it serves it *)

LEMMA StayBusy == ASSUME BusyOK, UNCHANGED <<pc, req>> PROVE BusyOK'
BY DEF BusyOK

LEMMA GotoBusy ==
    ASSUME TypeOK, BusyOK, NEW t \in Threads, NEW l, Goto(t, l), UNCHANGED req,
           pc[t] \notin Busy \/ l \in Busy
    PROVE  BusyOK'
BY DEF TypeOK, WorkType, BusyOK, Goto

LEMMA FinishBusy ==
    ASSUME TypeOK, BusyOK, NEW t \in Threads, Finish(t) PROVE BusyOK'
BY NoReqId DEF TypeOK, WorkType, BusyOK, Finish, Goto

LEMMA SharedBusy ==
    ASSUME TypeOK, BusyOK, NEW t \in Threads, SharedStep(t) PROVE BusyOK'
<1>1. CASE CallStep(t)
    BY <1>1, StayBusy DEF CallStep, Unlink, DropRemoved, Close, ReadRegistry, ReadCache,
       SetStatus
<1>2. CASE Reserve(t)
    BY <1>2, NoReqId DEF TypeOK, WorkType, BusyOK, Reserve, Goto
<1>3. CASE Forward(t) \/ WriteSerial(t) \/ Cast(t) \/ \E c \in Clients : Send(t, c)
    <2>1. pc[t] \in {"forward", "write", "cast", "send"}
        BY <1>3 DEF Forward, WriteSerial, Cast, Send, At
    <2>2. Finish(t) \/ (UNCHANGED req /\ (UNCHANGED pc \/ \E l : Goto(t, l)))
        BY <1>3 DEF Forward, WriteSerial, SerialFailed, Cast, Send
    <2> QED
        BY <2>1, <2>2, FinishBusy, GotoBusy, StayBusy DEF Busy
<1> QED
    BY <1>1, <1>2, <1>3 DEF SharedStep

LEMMA SerialBusy ==
    ASSUME TypeOK, BusyOK, SerialStep \/ SerialGlitch PROVE BusyOK'
<1>1. CASE \/ SerialLoop \/ SerialError \/ SerialConfig \/ SerialComplete \/ SerialRebooted
           \/ SwapPending \/ ReissueDone \/ SerialPacket \/ SerialGlitch
    <2>1. pc[Serial] \notin Busy
        BY <1>1 DEF SerialLoop, SerialError, SerialConfig, SerialComplete, SerialRebooted,
           SwapPending, ReissueDone, SerialPacket, SerialGlitch, ReadFrame, At, Busy
    <2>2. UNCHANGED req /\ \E l : Goto(Serial, l)
        BY <1>1 DEF SerialLoop, SerialError, SerialConfig, SerialComplete, SerialRebooted,
           SwapPending, ReissueDone, SerialPacket, SerialGlitch
    <2> QED
        BY <2>1, <2>2, ThreadTypes, GotoBusy
<1>2. ASSUME NEW n \in Nonces, Reissue(n) PROVE BusyOK'
    <2>1. \/ UNCHANGED <<pc, req>>
          \/ /\ Goto(Serial, "reserve")
             /\ \A t \in Threads \ {Serial} : req'[t] = req[t]
        BY <1>2 DEF TypeOK, WorkType, Reissue
    <2> QED
        BY <2>1, StayBusy DEF TypeOK, WorkType, BusyOK, Goto, Busy
<1> QED
    BY <1>1, <1>2 DEF SerialStep

LEMMA ClientBusy ==
    ASSUME TypeOK, BusyOK, NEW c \in Clients,
           \/ ClientInput(c) \/ ReaderStep(c) \/ ReadError(c)
           \/ WriterStep(c) \/ WriterWrote(c) \/ WriterFails(c)
    PROVE  BusyOK'
<1>1. CASE ReadWant(c)
    <2>1. \E l \in {"snapshot", "drop"} : Goto(Reader(c), l)
        BY <1>1 DEF ReadWant
    <2>2. \A t \in Threads \ {Reader(c)} : req'[t] = req[t]
        BY <1>1 DEF TypeOK, WorkType, ReadWant
    <2> QED
        BY <2>1, <2>2 DEF TypeOK, WorkType, BusyOK, Goto, Busy
<1>2. CASE \/ ReadDisconnect(c) \/ ReadPacket(c) \/ ReadOther(c) \/ ReadRaw(c) \/ Note(c)
           \/ ReadError(c)
    <2>1. pc[Reader(c)] \notin Busy
        BY <1>2 DEF ReadDisconnect, ReadPacket, ReadOther, ReadRaw, ReadTraffic, Note,
           ReadError, Message, At, Busy
    <2>2. UNCHANGED req /\ (UNCHANGED pc \/ \E l : Goto(Reader(c), l))
        BY <1>2 DEF ReadDisconnect, ReadPacket, ReadOther, ReadRaw, ReadTraffic, Note,
           ReadError
    <2> QED
        BY <2>1, <2>2, ThreadTypes, GotoBusy, StayBusy
<1>3. CASE DropOwn(c) \/ Snapshot(c)
    <2>1. UNCHANGED req /\ \E l \in {"reserve", "replay"} : Goto(Reader(c), l)
        BY <1>3 DEF DropOwn, Snapshot
    <2> QED
        BY <2>1, ThreadTypes, GotoBusy DEF Busy
<1>4. CASE Replay(c)
    BY <1>4, ThreadTypes, FinishBusy, StayBusy DEF Replay
<1>5. CASE WriterStep(c) \/ WriterWrote(c) \/ WriterFails(c)
    <2>1. pc[Writer(c)] \notin Busy
        BY <1>5 DEF WriterStep, WriterStops, WriterTakes, WriterWrote, WriterFails, At, Busy
    <2>2. UNCHANGED req /\ \E l : Goto(Writer(c), l)
        BY <1>5 DEF WriterStep, WriterStops, WriterTakes, WriterWrote, WriterFails
    <2> QED
        BY <2>1, <2>2, ThreadTypes, GotoBusy
<1> QED
    BY <1>1, <1>2, <1>3, <1>4, <1>5 DEF ClientInput, ReaderStep

LEMMA OthersBusy ==
    ASSUME TypeOK, RegistryInv, BusyOK,
           \/ BootStart \/ BootScan \/ WebSend \/ RunReturns \/ ServerStep \/ ServerWakes
           \/ \E c \in Clients : AcceptConn(c) \/ AddClient(c)
    PROVE  BusyOK'
<1>1. CASE BootScan
    <2>1. pc[Boot] \notin Busy
        BY <1>1 DEF BootScan, At, Busy
    <2>2. CASE UNCHANGED req
        BY <1>1, <2>1, <2>2, ThreadTypes, GotoBusy DEF BootScan
    <2>3. CASE Goto(Boot, "reserve")
        BY <1>1, <2>3 DEF TypeOK, WorkType, BootScan, BusyOK, Goto, Busy
    <2> QED
        BY <1>1, <2>2, <2>3 DEF BootScan
<1>2. CASE \/ BootStart \/ WebSend \/ RunReturns \/ ServerStep \/ ServerWakes
           \/ \E c \in Clients : AcceptConn(c)
    <2>1. PICK t \in {Boot, Web, Runner, Server, Acceptor} :
             /\ pc[t] \notin Busy /\ UNCHANGED req
             /\ UNCHANGED pc \/ \E l : Goto(t, l)
        BY <1>2 DEF BootStart, WebSend, RunReturns, ServerStep, ServerStatus, ListClients,
           CloseSerial, RemoveListed, ServerWakes, AcceptConn, At, Busy
    <2>2. t \in Threads
        BY ThreadTypes
    <2> QED
        BY <2>1, <2>2, GotoBusy, StayBusy
<1>3. ASSUME NEW c \in Clients, AddClient(c) PROVE BusyOK'
    <2>1. /\ pc[Acceptor] = "add" /\ pc[Reader(c)] = "off" /\ pc[Writer(c)] = "off"
          /\ UNCHANGED req
        BY <1>3 DEF RegistryInv, JoinedOK, AcceptorOK, MembersOK, Joined, AddClient, At
    <2>2. \A t \in Threads : t # Acceptor /\ t # Reader(c) /\ t # Writer(c) => pc'[t] = pc[t]
        BY <1>3 DEF TypeOK, WorkType, AddClient
    <2> QED
        BY <2>1, <2>2 DEF BusyOK, Busy
<1> QED
    BY <1>1, <1>2, <1>3

LEMMA NextBusy ==
    ASSUME TypeOK, RegistryInv, BusyOK, [Next]_vars PROVE BusyOK'
<1>1. CASE \/ RadioAnswers \/ RadioHears \/ RadioReboots \/ LinkFails \/ Cancel
           \/ \E s \in Slots : RadioUpdates(s)
           \/ \E p \in outbound : OutboundExpires(p)
           \/ UNCHANGED vars
    BY <1>1, RadioAside, StayBusy
<1> QED
    BY <1>1, SharedBusy, SerialBusy, ClientBusy, OthersBusy DEF Next

-----------------------------------------------------------------------------
(* The steps of the broker *)

LEMMA FinishFrom ==
    ASSUME TypeOK, NEW t \in Threads, Finish(t) PROVE ReqFrom /\ FrmFrom
<1>1. /\ frm'[t] = Nil /\ req'[t] = NoReq
      /\ \A u \in Threads \ {t} : frm'[u] = frm[u] /\ req'[u] = req[u]
    BY DEF TypeOK, WorkType, Finish
<1> QED
    BY <1>1, NoReqId DEF ReqFrom, FrmFrom, FrameId

\* A frame that is no ConfigCompleteId.
LEMMA HandFrom ==
    ASSUME TypeOK, NEW t \in Threads, NEW f, f = Nil \/ f.kind # "done",
           frm' = [frm EXCEPT ![t] = f]
    PROVE  FrmFrom
<1>1. /\ frm'[t] = f /\ \A u \in Threads \ {t} : frm'[u] = frm[u]
    BY DEF TypeOK, WorkType
<1>2. FrameId(f) \notin RequestIds
    BY NoReqId DEF FrameId
<1> QED
    BY <1>1, <1>2 DEF FrmFrom

LEMMA CallContract ==
    ASSUME TypeOK, LocalsOK, TypeOK', NEW t \in Threads, CallStep(t) PROVE ContractStep
<1>1. CASE Unlink(t)
    <2>1. openIds' = openIds
        BY <1>1, AlikeOpen, AlikeRefl DEF Unlink
    <2> QED
        BY <1>1, <2>1, LeaveContract DEF LocalsOK, Unlink
<1>2. CASE DropRemoved(t)
    <2>1. PendFrom
        BY <1>2, NoReqId DEF DropRemoved, DropPending, PendFrom
    <2>2. ReqFrom /\ FrmFrom /\ OldFrom
        BY <1>2, SameFrom DEF DropRemoved
    <2> QED
        BY <1>2, <2>1, <2>2, FromOpen, ForgetContract DEF DropRemoved
<1>3. CASE Close(t) \/ ReadRegistry(t) \/ ReadCache(t) \/ SetStatus(t)
    <2>1. UNCHANGED <<clients, asked, out, req, frm, pendingConfig, old>>
        BY <1>3 DEF Close, ReadRegistry, ReadCache, SetStatus
    <2> QED
        BY <2>1, SameFrom, FromOpen, ForgetContract
<1> QED
    BY <1>1, <1>2, <1>3 DEF CallStep

LEMMA WriteContract ==
    ASSUME TypeOK, TypeOK', NEW t \in Threads,
           Reserve(t) \/ Forward(t) \/ WriteSerial(t) \/ Cast(t)
    PROVE  ContractStep
<1>1. CASE Reserve(t)
    <2>1. PICK n \in FreeNonces : /\ pendingConfig' = [pendingConfig EXCEPT ![n] = req[t]]
                                  /\ frm' = [frm EXCEPT ![t] = WantMsg(n)]
        BY <1>1 DEF Reserve
    <2>2. PendFrom
        BY <2>1 DEF TypeOK, ConfigType, FreeNonces, PendFrom
    <2>3. FrmFrom
        <3>1. WantMsg(n).kind # "done"
            BY DEF WantMsg
        <3> QED
            BY <2>1, <3>1, HandFrom
    <2>4. ReqFrom
        BY <1>1, NoReqId DEF TypeOK, WorkType, Reserve, ReqFrom
    <2> QED
        BY <1>1, <2>2, <2>3, <2>4, SameFrom, FromOpen, ForgetContract DEF Reserve
<1>2. CASE SerialFailed(t)
    <2>1. OldFrom
        BY <1>2, NoReqId DEF SerialFailed, OldFrom
    <2> QED
        BY <1>2, <2>1, FinishFrom, SameFrom, FromOpen, ForgetContract DEF SerialFailed
<1>3. CASE (Forward(t) \/ WriteSerial(t)) /\ ~SerialFailed(t)
    <2>1. /\ UNCHANGED <<clients, asked, out, req, pendingConfig, old>>
          /\ UNCHANGED frm \/ frm' = [frm EXCEPT ![t] = Nil]
        BY <1>3 DEF Forward, WriteSerial
    <2> QED
        BY <2>1, HandFrom, SameFrom, FromOpen, ForgetContract
<1>4. CASE Cast(t)
    <2>1. /\ UNCHANGED <<clients, asked, out, pendingConfig, old>>
          /\ Finish(t) \/ UNCHANGED <<frm, req>>
        BY <1>4 DEF Cast
    <2> QED
        BY <2>1, FinishFrom, SameFrom, FromOpen, ForgetContract
<1> QED
    BY <1>1, <1>2, <1>3, <1>4 DEF Forward, WriteSerial

LEMMA SendContract ==
    ASSUME TypeOK, LocalsOK, RegistryInv, SourcesInv, HandshakeInv, AnswerOK, BusyOK, TypeOK',
           NEW t \in Threads, NEW c \in Clients, Send(t, c)
    PROVE  ContractStep
<1>1. /\ UNCHANGED <<clients, asked, pendingConfig, old>>
      /\ Finish(t) \/ UNCHANGED <<frm, req>>
      /\ UNCHANGED out \/ Accept(c, frm[t])
      /\ todo[t] = {c} => Finish(t)
      /\ pc[t] = "send" /\ c \in todo[t]
    BY DEF Send, At
<1>2. CASE UNCHANGED out
    BY <1>1, <1>2, FinishFrom, SameFrom, FromOpen, ForgetContract
<1>3. frm[t] \in ToClient /\ frm[t] # Nil
    BY <1>1, NilIsNoFrame DEF LocalsOK
<1>4. /\ \A u \in Threads \ {t} : frm'[u] = frm[u] /\ req'[u] = req[u]
      /\ req[t].id \notin RequestIds /\ req'[t].id \notin RequestIds
      /\ Finish(t) => frm'[t] = Nil
    <2>1. req[t].id \notin RequestIds
        BY <1>1 DEF BusyOK, Busy
    <2> QED
        BY <1>1, <2>1, NoReqId DEF TypeOK, WorkType, Finish
<1>5. CASE Accept(c, frm[t]) /\ frm[t].kind # "done"
    <2>1. frm[t] \in CfgFrames \cup PktFrames
        BY <1>3, <1>5, FrameKinds DEF ToClient
    <2>2. FrameId(frm[t]) \notin RequestIds /\ FrameId(frm'[t]) \notin RequestIds
        <3>1. FrameId(frm[t]) = NoReq.id
            BY <1>5 DEF FrameId
        <3>2. frm'[t] = frm[t] \/ frm'[t] = Nil
            BY <1>1, <1>4
        <3>3. FrameId(frm'[t]) = NoReq.id
            BY <1>5, <3>2 DEF FrameId
        <3> QED
            BY <3>1, <3>3, NoReqId
    <2>3. \A u \in Threads : /\ Alike(req'[u].id, req[u].id)
                             /\ Alike(FrameId(frm'[u]), FrameId(frm[u]))
        <3> SUFFICES ASSUME NEW u \in Threads
                     PROVE  /\ Alike(req'[u].id, req[u].id)
                            /\ Alike(FrameId(frm'[u]), FrameId(frm[u]))
            OBVIOUS
        <3>1. CASE u = t
            BY <1>4, <2>2, <3>1 DEF Alike
        <3>2. CASE u # t
            BY <1>4, <3>2, AlikeRefl
        <3> QED
            BY <3>1, <3>2
    <2>4. openIds' = openIds
        BY <1>1, <2>3, AlikeOpen
    <2> QED
        BY <1>1, <1>5, <2>1, <2>4, QueueContract
<1>6. CASE Accept(c, frm[t]) /\ frm[t].kind = "done"
    <2>1. PICK i, via : i = frm[t].id /\ via = frm[t].via
        OBVIOUS
    <2>2. frm[t] = DoneFrame(i, via) /\ i \in RequestIds /\ via \in {"radio", "cache"}
        <3>1. frm[t] \in DoneFrames
            BY <1>3, <1>6, FrameKinds DEF ToClient
        <3> QED
            BY <2>1, <3>1 DEF DoneFrames, DoneFrame
    <2>3. t = Serial
        BY <1>6, SentByOthers
    <2>4. todo[t] = {i[1]} /\ i[1] = c
        BY <1>1, <1>3, <1>6, <2>1 DEF HandshakeInv, SendingOK
    <2>5. FrameId(frm[t]) = i /\ FrameId(frm'[t]) \notin RequestIds
        <3>1. frm'[t] = Nil
            BY <1>1, <1>4, <2>4
        <3> QED
            BY <1>3, <1>6, <2>1, <3>1, NoReqId DEF FrameId
    <2>6. PICK a : a = <<"frm", t>>
        OBVIOUS
    <2>7. a \in Places /\ idAt[a] = i /\ idAt'[a] \notin RequestIds
        BY <2>5, <2>6, PlaceTypes, IdAt, IdAtNext
    <2>8. ASSUME NEW p \in Places \ {a} PROVE Alike(idAt'[p], idAt[p])
        <3>1. ASSUME NEW u \in Threads, p = <<"req", u>> PROVE Alike(req'[u].id, req[u].id)
            BY <1>4 DEF Alike
        <3>2. ASSUME NEW u \in Threads, p = <<"frm", u>> PROVE idAt'[p] = idAt[p]
            <4>1. frm'[u] = frm[u]
                BY <1>4, <2>6, <3>2
            <4>2. FrameId(frm'[u]) = FrameId(frm[u])
                BY <4>1
            <4> QED
                BY <3>2, <4>2, IdAt, IdAtNext
        <3>3. CASE \E u \in Threads : p = <<"req", u>>
            BY <3>1, <3>3, IdAt, IdAtNext
        <3>4. CASE \E u \in Threads : p = <<"frm", u>>
            BY <3>2, <3>4, AlikeRefl
        <3>5. CASE \E n \in Nonces : p = <<"pending", n>> \/ p = <<"old", n>>
            BY <1>1, <3>5, AlikeRefl, IdAt, IdAtNext
        <3> QED
            BY <3>3, <3>4, <3>5, PlaceTypes
    <2>9. i \in openIds /\ openIds' = openIds \ {i}
        BY <2>2, <2>7, <2>8, GoneOpen DEF HandshakeInv, IdsOK
    <2>10. c \in clients => RadioSlots \subseteq SlotsSent(c)
        BY <1>3, <1>6, <2>1, <2>3, <2>4 DEF AnswerOK
    <2> QED
        BY <1>1, <1>6, <2>2, <2>4, <2>9, <2>10, AnswerContract
<1> QED
    BY <1>1, <1>2, <1>5, <1>6

LEMMA SerialContract ==
    ASSUME TypeOK, TypeOK', HandshakeInv, SerialStep \/ SerialGlitch PROVE ContractStep
<1> USE ThreadTypes
<1>1. UNCHANGED <<clients, asked, out>>
    BY DEF SerialStep, SerialGlitch, SerialLoop, SerialError, SerialConfig, SerialComplete,
       SerialRebooted, SwapPending, ReissueDone, SerialPacket, Reissue
<1>2. CASE \/ SerialLoop \/ SerialError \/ SerialRebooted \/ ReissueDone \/ SerialGlitch
    <2>1. UNCHANGED <<req, frm, pendingConfig, old>>
        BY <1>2 DEF SerialLoop, SerialError, SerialRebooted, ReissueDone, SerialGlitch
    <2> QED
        BY <1>1, <2>1, SameFrom, FromOpen, ForgetContract
<1>3. CASE SerialConfig \/ SerialPacket
    <2>1. PICK f : f = Head(fromRadio)
        OBVIOUS
    <2>2. /\ f.kind # "done" /\ UNCHANGED <<req, pendingConfig, old>>
          /\ UNCHANGED frm \/ frm' = [frm EXCEPT ![Serial] = f]
        BY <1>3, <2>1 DEF SerialConfig, SerialPacket, ReadFrame
    <2> QED
        BY <1>1, <2>2, HandFrom, SameFrom, FromOpen, ForgetContract
<1>4. CASE SerialComplete
    <2>1. PICK n, r : n = Head(fromRadio).nonce /\ r = pendingConfig[n]
        OBVIOUS
    <2>2. n \in Nonces
        <3>1. Head(fromRadio) \in FromRadio /\ Head(fromRadio).kind = "complete"
            BY <1>4 DEF TypeOK, WireType, SerialComplete, ReadFrame
        <3> QED
            BY <2>1, <3>1, FrameKinds DEF FromRadio
    <2>3. PendFrom
        BY <1>4, <2>1, NoReqId DEF TypeOK, ConfigType, SerialComplete, TakeRequest, PendFrom
    <2>4. FrmFrom
        <3>1. CASE UNCHANGED frm
            BY <3>1, SameFrom
        <3>2. CASE frm' = [frm EXCEPT ![Serial] = DoneFrame(r.id, "radio")]
            <4>1. /\ frm'[Serial] = DoneFrame(r.id, "radio")
                  /\ \A u \in Threads \ {Serial} : frm'[u] = frm[u]
                BY <3>2 DEF TypeOK, WorkType
            <4>2. FrameId(frm'[Serial]) = pendingConfig[n].id \/ frm'[Serial] = Nil
                BY <2>1, <4>1 DEF FrameId, DoneFrame
            <4>3. frm'[Serial] = Nil => FrameId(frm'[Serial]) \notin RequestIds
                BY NoReqId DEF FrameId
            <4> QED
                BY <2>2, <4>1, <4>2, <4>3 DEF FrmFrom
        <3> QED
            BY <1>4, <2>1, <3>1, <3>2 DEF SerialComplete
    <2>5. UNCHANGED <<req, old>>
        BY <1>4 DEF SerialComplete
    <2> QED
        BY <1>1, <2>3, <2>4, <2>5, SameFrom, FromOpen, ForgetContract
<1>5. CASE SwapPending
    <2>1. OldFrom /\ PendFrom
        BY <1>5, NoReqId DEF SwapPending, OldFrom, PendFrom
    <2>2. UNCHANGED <<req, frm>>
        BY <1>5 DEF SwapPending
    <2> QED
        BY <1>1, <2>1, <2>2, SameFrom, FromOpen, ForgetContract
<1>6. ASSUME NEW n \in Nonces, Reissue(n) PROVE ContractStep
    <2>1. OldFrom
        BY <1>6, NoReqId DEF TypeOK, WorkType, Reissue, OldFrom
    <2>2. ReqFrom
        BY <1>6 DEF TypeOK, WorkType, Reissue, ReqFrom
    <2>3. UNCHANGED <<frm, pendingConfig>>
        BY <1>6 DEF Reissue
    <2> QED
        BY <1>1, <2>1, <2>2, <2>3, SameFrom, FromOpen, ForgetContract
<1> QED
    BY <1>2, <1>3, <1>4, <1>5, <1>6 DEF SerialStep

LEMMA InputContract ==
    ASSUME TypeOK, TypeOK', HandshakeInv, BusyOK, NEW c \in Clients, ClientInput(c)
    PROVE  ContractStep
<1> USE ThreadTypes
<1>1. /\ asked' = [asked EXCEPT ![c] = @ + 1] /\ UNCHANGED <<clients, out, pendingConfig, old>>
      /\ pc[Reader(c)] = "read"
    BY DEF ClientInput, ReadWant, ReadDisconnect, ReadPacket, ReadOther, ReadRaw, ReadTraffic,
       Message, At
<1>2. req[Reader(c)].id \notin RequestIds /\ FrameId(frm[Reader(c)]) \notin RequestIds
    BY <1>1, NoReqId DEF BusyOK, Busy, HandshakeInv, SendingOK, FrameId
<1>3. CASE ReadWant(c)
    <2>1. PICK i : i = NextId(c)
        OBVIOUS
    <2>2. i \in RequestIds
        BY <2>1 DEF TypeOK, EnvType, NextId, RequestIds
    <2>3. /\ UNCHANGED frm /\ req'[Reader(c)].id = i
          /\ \A t \in Threads \ {Reader(c)} : req'[t] = req[t]
        BY <1>3, <2>1 DEF TypeOK, WorkType, ReadWant
    <2>4. PICK a : a = <<"req", Reader(c)>>
        OBVIOUS
    <2>5. a \in Places /\ idAt'[a] = i /\ idAt[a] \notin RequestIds
        BY <1>2, <2>3, <2>4, PlaceTypes, IdAt, IdAtNext
    <2>6. ASSUME NEW p \in Places \ {a} PROVE idAt'[p] = idAt[p]
        <3>1. ASSUME NEW t \in Threads, p = <<"req", t>> PROVE idAt'[p] = idAt[p]
            <4>1. req'[t] = req[t]
                BY <2>3, <2>4, <3>1
            <4>2. idAt[<<"req", t>>] = req[t].id /\ idAt'[<<"req", t>>] = req'[t].id
                BY IdAt, IdAtNext
            <4> QED
                BY <3>1, <4>1, <4>2
        <3>2. ASSUME NEW t \in Threads, p = <<"frm", t>> PROVE idAt'[p] = idAt[p]
            <4>1. FrameId(frm'[t]) = FrameId(frm[t])
                BY <2>3
            <4>2. /\ idAt[<<"frm", t>>] = FrameId(frm[t])
                  /\ idAt'[<<"frm", t>>] = FrameId(frm'[t])
                BY IdAt, IdAtNext
            <4> QED
                BY <3>2, <4>1, <4>2
        <3>3. ASSUME NEW n \in Nonces, p = <<"pending", n>> PROVE idAt'[p] = idAt[p]
            BY <1>1, <3>3, IdAt, IdAtNext
        <3>4. ASSUME NEW n \in Nonces, p = <<"old", n>> PROVE idAt'[p] = idAt[p]
            BY <1>1, <3>4, IdAt, IdAtNext
        <3> QED
            BY <3>1, <3>2, <3>3, <3>4, PlaceTypes
    <2>7. openIds' = openIds \cup {i}
        <3>1. ASSUME NEW j \in openIds' PROVE j \in openIds \cup {i}
            BY <2>5, <2>6 DEF openIds
        <3>2. ASSUME NEW j \in openIds PROVE j \in openIds'
            BY <2>5, <2>6 DEF openIds
        <3>3. i \in openIds'
            BY <2>2, <2>5 DEF openIds
        <3> QED
            BY <3>1, <3>2, <3>3
    <2> QED
        BY <1>1, <2>1, <2>7, AskContract
<1>4. CASE \/ ReadDisconnect(c) \/ ReadPacket(c) \/ ReadOther(c) \/ ReadRaw(c)
    <2>1. /\ UNCHANGED req
          /\ \/ UNCHANGED frm
             \/ \E m : m.kind # "done" /\ frm' = [frm EXCEPT ![Reader(c)] = m]
        <3>1. /\ \A p, via : PktFrame(p, via).kind # "done"
              /\ OtherMsg.kind # "done"
            BY DEF PktFrame, OtherMsg
        <3>2. CASE ReadDisconnect(c)
            BY <3>2 DEF ReadDisconnect
        <3>3. ASSUME NEW kind, NEW m, NEW allowed, m.kind # "done",
                     ReadTraffic(c, kind, m, allowed)
              PROVE  /\ UNCHANGED req
                     /\ UNCHANGED frm \/ frm' = [frm EXCEPT ![Reader(c)] = m]
            BY <3>3 DEF ReadTraffic
        <3>4. CASE ReadPacket(c)
            BY <3>1, <3>3, <3>4 DEF ReadPacket
        <3>5. CASE ReadOther(c) \/ ReadRaw(c)
            BY <3>1, <3>3, <3>5 DEF ReadOther, ReadRaw
        <3> QED
            BY <1>4, <3>2, <3>4, <3>5
    <2>2. \A t \in Threads : Alike(FrameId(frm'[t]), FrameId(frm[t]))
        <3> SUFFICES ASSUME NEW t \in Threads PROVE Alike(FrameId(frm'[t]), FrameId(frm[t]))
            OBVIOUS
        <3>1. CASE frm'[t] = frm[t]
            BY <3>1, AlikeRefl
        <3>2. CASE frm'[t] # frm[t]
            <4>1. t = Reader(c) /\ frm'[t].kind # "done"
                BY <2>1, <3>2 DEF TypeOK, WorkType
            <4>2. FrameId(frm'[t]) \notin RequestIds
                BY <4>1, NoReqId DEF FrameId
            <4> QED
                BY <1>2, <4>1, <4>2 DEF Alike
        <3> QED
            BY <3>1, <3>2
    <2>3. openIds' = openIds
        BY <1>1, <2>1, <2>2, AlikeOpen, AlikeRefl
    <2> QED
        BY <1>1, <2>3, AskContract
<1> QED
    BY <1>3, <1>4 DEF ClientInput

LEMMA ReplayContract ==
    ASSUME TypeOK, LocalsOK, HandshakeInv, TypeOK', NEW c \in Clients, Replay(c)
    PROVE  ContractStep
<1> USE ThreadTypes
<1>1. /\ UNCHANGED <<clients, asked, pendingConfig, old>> /\ pc[Reader(c)] = "replay"
    BY DEF Replay, At
<1>2. CASE UNCHANGED out /\ Finish(Reader(c))
    BY <1>1, <1>2, FinishFrom, SameFrom, FromOpen, ForgetContract
<1>3. ASSUME NEW s \in Slots, Accept(c, CfgFrame(s, snap[c][s])), UNCHANGED <<frm, req>>
      PROVE  ContractStep
    <2>1. PICK f : f = CfgFrame(s, snap[c][s])
        OBVIOUS
    <2>2. f \in CfgFrames
        BY <2>1 DEF TypeOK, WorkType, CfgFrame, CfgFrames
    <2>3. openIds' = openIds
        BY <1>1, <1>3, AlikeOpen, AlikeRefl
    <2> QED
        BY <1>1, <1>3, <2>1, <2>2, <2>3, QueueContract
<1>4. ASSUME Accept(c, DoneFrame(req[Reader(c)].id, "cache")), Finish(Reader(c))
      PROVE  ContractStep
    <2>1. PICK i : i = req[Reader(c)].id
        OBVIOUS
    <2>2. i \in RequestIds /\ i[1] = c
        BY <1>1, <2>1 DEF LocalsOK, HandshakeInv, OwnerOK, OwnedBy, ReaderOK
    <2>3. /\ frm'[Reader(c)] = Nil /\ req'[Reader(c)] = NoReq
          /\ \A t \in Threads \ {Reader(c)} : frm'[t] = frm[t] /\ req'[t] = req[t]
        BY <1>4 DEF TypeOK, WorkType, Finish
    <2>4. Alike(FrameId(frm'[Reader(c)]), FrameId(frm[Reader(c)]))
        BY <1>1, <2>3, NoReqId DEF HandshakeInv, SendingOK, FrameId, Alike
    <2>5. PICK a : a = <<"req", Reader(c)>>
        OBVIOUS
    <2>6. a \in Places /\ idAt[a] = i /\ idAt'[a] \notin RequestIds
        BY <2>1, <2>3, <2>5, NoReqId, PlaceTypes, IdAt, IdAtNext
    <2>7. ASSUME NEW p \in Places \ {a} PROVE Alike(idAt'[p], idAt[p])
        <3>1. ASSUME NEW t \in Threads, p = <<"req", t>> PROVE Alike(idAt'[p], idAt[p])
            <4>1. req'[t] = req[t]
                BY <2>3, <2>5, <3>1
            <4>2. idAt[<<"req", t>>] = req[t].id /\ idAt'[<<"req", t>>] = req'[t].id
                BY IdAt, IdAtNext
            <4> QED
                BY <3>1, <4>1, <4>2, AlikeRefl
        <3>2. ASSUME NEW t \in Threads, p = <<"frm", t>> PROVE Alike(idAt'[p], idAt[p])
            <4>1. Alike(FrameId(frm'[t]), FrameId(frm[t]))
                <5>1. CASE t = Reader(c)
                    BY <2>4, <5>1
                <5>2. CASE t # Reader(c)
                    BY <2>3, <5>2, AlikeRefl
                <5> QED
                    BY <5>1, <5>2
            <4> QED
                BY <3>2, <4>1, IdAt, IdAtNext
        <3>3. ASSUME NEW n \in Nonces, p = <<"pending", n>> PROVE Alike(idAt'[p], idAt[p])
            BY <1>1, <3>3, AlikeRefl, IdAt, IdAtNext
        <3>4. ASSUME NEW n \in Nonces, p = <<"old", n>> PROVE Alike(idAt'[p], idAt[p])
            BY <1>1, <3>4, AlikeRefl, IdAt, IdAtNext
        <3> QED
            BY <3>1, <3>2, <3>3, <3>4, PlaceTypes
    <2>8. i \in openIds /\ openIds' = openIds \ {i}
        BY <2>2, <2>6, <2>7, GoneOpen DEF HandshakeInv, IdsOK
    <2> QED
        BY <1>1, <1>4, <2>1, <2>2, <2>8, AnswerContract
<1>5. \/ UNCHANGED out /\ Finish(Reader(c))
      \/ \E s \in Slots : Accept(c, CfgFrame(s, snap[c][s])) /\ UNCHANGED <<frm, req>>
      \/ Accept(c, DoneFrame(req[Reader(c)].id, "cache")) /\ Finish(Reader(c))
    BY DEF Replay, First, Held
<1> QED
    BY <1>2, <1>3, <1>4, <1>5

LEMMA ClientContract ==
    ASSUME TypeOK, LocalsOK, HandshakeInv, BusyOK, TypeOK', NEW c \in Clients,
           \/ ClientInput(c) \/ ReaderStep(c) \/ ReadError(c)
           \/ WriterStep(c) \/ WriterWrote(c) \/ WriterFails(c)
    PROVE  ContractStep
<1>1. CASE DropOwn(c)
    <2>1. PendFrom
        BY <1>1, NoReqId DEF DropOwn, DropPending, PendFrom
    <2> QED
        BY <1>1, <2>1, SameFrom, FromOpen, ForgetContract DEF DropOwn
<1>2. CASE \/ Note(c) \/ Snapshot(c) \/ ReadError(c) \/ WriterStep(c) \/ WriterWrote(c)
           \/ WriterFails(c)
    <2>1. UNCHANGED <<clients, asked, out, req, frm, pendingConfig, old>>
        BY <1>2 DEF Note, Snapshot, ReadError, WriterStep, WriterStops, WriterTakes,
           WriterWrote, WriterFails
    <2> QED
        BY <2>1, SameFrom, FromOpen, ForgetContract
<1> QED
    BY <1>1, <1>2, InputContract, ReplayContract DEF ReaderStep

LEMMA OthersContract ==
    ASSUME TypeOK, RegistryInv, TypeOK',
           \/ BootStart \/ BootScan \/ WebSend \/ RunReturns \/ ServerStep \/ ServerWakes
           \/ \E c \in Clients : AcceptConn(c) \/ AddClient(c)
    PROVE  ContractStep
<1> USE ThreadTypes
<1>1. CASE BootScan
    <2>1. ReqFrom
        BY <1>1, NoReqId DEF TypeOK, WorkType, BootScan, ReqFrom
    <2> QED
        BY <1>1, <2>1, SameFrom, FromOpen, ForgetContract DEF BootScan
<1>2. CASE WebSend
    <2>1. UNCHANGED frm \/ \E p, via : frm' = [frm EXCEPT ![Web] = PktFrame(p, via)]
        BY <1>2 DEF WebSend
    <2>2. \A p, via : PktFrame(p, via).kind # "done"
        BY DEF PktFrame
    <2>3. FrmFrom
        BY <2>1, <2>2, HandFrom, SameFrom
    <2> QED
        BY <1>2, <2>3, SameFrom, FromOpen, ForgetContract DEF WebSend
<1>3. CASE \/ BootStart \/ RunReturns \/ ServerStep \/ ServerWakes
           \/ \E c \in Clients : AcceptConn(c)
    <2>1. UNCHANGED <<clients, asked, out, req, frm, pendingConfig, old>>
        BY <1>3 DEF BootStart, RunReturns, ServerStep, ServerStatus, ListClients, CloseSerial,
           RemoveListed, ServerWakes, AcceptConn
    <2> QED
        BY <2>1, SameFrom, FromOpen, ForgetContract
<1>4. ASSUME NEW c \in Clients, AddClient(c) PROVE ContractStep
    <2>1. c \notin clients
        BY <1>4 DEF RegistryInv, JoinedOK, AcceptorOK, MembersOK, AddClient
    <2>2. openIds' = openIds
        BY <1>4, AlikeOpen, AlikeRefl DEF AddClient
    <2> QED
        BY <1>4, <2>1, <2>2, JoinContract DEF AddClient
<1> QED
    BY <1>1, <1>2, <1>3, <1>4

LEMMA NextContract ==
    ASSUME TypeOK, LocalsOK, RegistryInv, SourcesInv, HandshakeInv, AnswerOK, BusyOK, TypeOK',
           [Next]_vars
    PROVE  ContractStep
<1>1. ASSUME NEW t \in Threads, SharedStep(t) PROVE ContractStep
    BY <1>1, CallContract, WriteContract, SendContract DEF SharedStep
<1>2. CASE \/ RadioAnswers \/ RadioHears \/ RadioReboots \/ LinkFails \/ Cancel
           \/ \E s \in Slots : RadioUpdates(s)
           \/ \E p \in outbound : OutboundExpires(p)
           \/ UNCHANGED vars
    <2>1. UNCHANGED asked
        BY <1>2 DEF RadioAnswers, RadioHears, RadioReboots, LinkFails, Cancel, RadioUpdates,
           OutboundExpires, vars
    <2>2. UNCHANGED <<clients, out, req, frm, pendingConfig, old>>
        BY <1>2, RadioAside
    <2> QED
        BY <2>1, <2>2, SameFrom, FromOpen, ForgetContract
<1> QED
    BY <1>1, <1>2, SerialContract, ClientContract, OthersContract DEF Next

LEMMA InitContract == Init => BusyOK /\ Contract!Init
<1> SUFFICES ASSUME Init PROVE BusyOK /\ Contract!Init
    OBVIOUS
<1>1. BusyOK
    BY NoReqId DEF Init, BusyOK
<1>2. SameOpen
    BY InitType, OpenIds
<1>3. openIds = {}
    <2> SUFFICES ASSUME NEW p \in Places PROVE idAt[p] \notin RequestIds
        BY DEF openIds
    <2>1. /\ \A t \in Threads : req[t] = NoReq /\ FrameId(frm[t]) = NoReq.id
          /\ \A n \in Nonces : pendingConfig[n] = NoReq /\ old[n] = NoReq
        BY DEF Init, FrameId
    <2>2. ASSUME NEW t \in Threads, p = <<"req", t>> \/ p = <<"frm", t>>
          PROVE  idAt[p] \notin RequestIds
        BY <2>1, <2>2, NoReqId, IdAt
    <2>3. ASSUME NEW n \in Nonces, p = <<"pending", n>> \/ p = <<"old", n>>
          PROVE  idAt[p] \notin RequestIds
        BY <2>1, <2>3, NoReqId, IdAt
    <2> QED
        BY <2>2, <2>3, PlaceTypes
<1>4. \A c \in Clients : Len(out[c]) = 0 /\ SlotsSent(c) = {} /\ Answers(c) = {}
    <2>1. \A c \in Clients : Len(out[c]) = 0
        BY DEF Init
    <2> QED
        BY <2>1 DEF SlotsSent, Answers, Dones
<1>5. clients \subseteq Clients /\ asked = [c \in Clients |-> 0]
    BY BrokerAssumptions DEF Init
<1> QED
    BY <1>1, <1>2, <1>3, <1>4, <1>5 DEF SameOpen, Contract!Init

\* Under the conditions of CompleteCorrect every step of every goroutine of the broker is
\* a step of Handshake or none: a config request is open until it is answered or dropped,
\* which nothing undoes, it is answered to the client that made it, and by the radio only
\* after the whole dump.
THEOREM BrokerIsHandshake ==
    ASSUME MyInfoFirst
    PROVE  Spec /\ [][~Damaged({"cfg"})]_vars => ImplementsHandshake
<1> DEFINE Inv == BaseInv /\ HandshakeInv /\ AnswersInv
<1>1. Init => Contract!Init
    BY InitContract
<1>2. Spec /\ [][~Damaged({"cfg"})]_vars => []Inv
    BY AnswersInvariant
<1>3. Init => BusyOK
    BY InitContract
<1>4. Inv /\ BusyOK /\ [Next]_vars => BusyOK'
    BY NextBusy DEF BaseInv
<1>5. Inv /\ Inv' /\ BusyOK /\ [Next]_vars => [Contract!Next]_(Contract!vars)
    BY NextContract DEF BaseInv, AnswersInv, ContractStep
<1> HIDE DEF Inv
<1> QED
    BY <1>1, <1>2, <1>3, <1>4, <1>5, PTL DEF Spec, ImplementsHandshake, Contract!Spec
=============================================================================
