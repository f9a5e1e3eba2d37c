--------------------------- MODULE BrokerRegistry ---------------------------
(***************************************************************************)
(* The client registry of Broker, for every value of the constants: there  *)
(* is a primary exactly when there is a client, and a closed client is     *)
(* never registered, although any number of goroutines may be inside       *)
(* removeClient for the same client.  RegistryOK needs two companions: a   *)
(* client being closed has been unlinked (RemovalOK) and is never added    *)
(* again, which holds because nothing refers to a connection before        *)
(* AddClient has started its goroutines (JoinedOK).                        *)
(***************************************************************************)
EXTENDS BrokerTypes

\* A client on its way through dropPendingForClient and close() is unlinked.
RemovalOK == \A t \in Threads : call[t] \in {"drop", "close"} => victim[t] \notin clients

\* Connections whose goroutines AddClient has started.
Joined == {c \in Clients : pc[Reader(c)] # "off"}

\* The accept loop is about to add a connection that is not among them.
AcceptorOK == pc[Acceptor] \in {"idle", "add"} /\ todo[Acceptor] \cap Joined = {}

\* All else refers to connections among them only: the registry and the closed
\* ones, what goroutines still have to visit or remove, the owners of requests,
\* and the senders of remembered packets.
MembersOK == /\ clients \subseteq Joined
             /\ \A c \in Clients : closed[c] \/ pc[Writer(c)] # "off" => c \in Joined
TargetsOK == \A t \in Threads \ {Acceptor} : todo[t] \subseteq Joined
VictimsOK == \A t \in Threads : victim[t] \in Joined \cup {Nil}
ServingOK == \A t \in Threads : req[t].client \in Joined \cup {Nil}
PendingOK == \A n \in Nonces : pendingConfig[n].client \in Joined \cup {Nil}
OldOK     == \A n \in Nonces : old[n].client \in Joined \cup {Nil}
OriginsOK == \A p \in outbound : p.from \in Joined

JoinedOK == /\ AcceptorOK /\ MembersOK /\ TargetsOK /\ VictimsOK /\ ServingOK
            /\ PendingOK /\ OldOK /\ OriginsOK

RegistryInv == RegistryOK /\ RemovalOK /\ JoinedOK

USE DEF registryVars, queueVars, configVars, echoVars, workVars, callVars, wireVars,
        envVars

-----------------------------------------------------------------------------
(* What a step leaves alone *)

\* No connection joins, and the accept loop does not move.
SamePlaces == /\ Joined' = Joined
              /\ pc'[Acceptor] = pc[Acceptor]
              /\ \A c \in Clients : pc'[Writer(c)] # "off" => pc[Writer(c)] # "off"

LEMMA PcStep ==
    ASSUME TypeOK, NEW t \in Threads, t # Acceptor, NEW l, l # "off", pc[t] # "off",
           Goto(t, l)
    PROVE  SamePlaces
<1>1. \A u \in Threads : pc'[u] # "off" <=> pc[u] # "off"
    BY DEF TypeOK, WorkType, Goto
<1>2. pc'[Acceptor] = pc[Acceptor]
    BY ThreadTypes DEF TypeOK, WorkType, Goto
<1> QED
    BY <1>1, <1>2, ThreadTypes DEF SamePlaces, Joined

LEMMA SamePc == ASSUME UNCHANGED pc PROVE SamePlaces
BY DEF SamePlaces, Joined

\* The parts of the invariant that a step does not disturb.
LEMMA Undisturbed ==
    ASSUME RegistryInv, SamePlaces
    PROVE  /\ UNCHANGED todo => AcceptorOK' /\ TargetsOK'
           /\ UNCHANGED <<clients, closed>> => MembersOK'
           /\ UNCHANGED victim => VictimsOK'
           /\ UNCHANGED req => ServingOK'
           /\ UNCHANGED pendingConfig => PendingOK'
           /\ UNCHANGED old => OldOK'
           /\ UNCHANGED outbound => OriginsOK'
           /\ UNCHANGED <<clients, call, victim>> => RemovalOK'
           /\ UNCHANGED <<clients, primary, closed>> => RegistryOK'
<1> USE DEF RegistryInv, JoinedOK, SamePlaces
<1>1. UNCHANGED todo => AcceptorOK' /\ TargetsOK'
    BY DEF AcceptorOK, TargetsOK
<1>2. UNCHANGED <<clients, closed>> => MembersOK'
    BY DEF MembersOK
<1>3. /\ UNCHANGED victim => VictimsOK'
      /\ UNCHANGED req => ServingOK'
    BY DEF VictimsOK, ServingOK
<1>4. /\ UNCHANGED pendingConfig => PendingOK'
      /\ UNCHANGED old => OldOK'
      /\ UNCHANGED outbound => OriginsOK'
    BY DEF PendingOK, OldOK, OriginsOK
<1>5. /\ UNCHANGED <<clients, call, victim>> => RemovalOK'
      /\ UNCHANGED <<clients, primary, closed>> => RegistryOK'
    BY DEF RemovalOK, RegistryOK
<1> QED
    BY <1>1, <1>2, <1>3, <1>4, <1>5

LEMMA NotAcceptor ==
    ASSUME RegistryInv, NEW t, NEW l, l \notin {"idle", "add"}, At(t, l)
    PROVE  t # Acceptor
BY DEF RegistryInv, JoinedOK, AcceptorOK, At

\* A reader or writer at work belongs to a connection that has joined.
LEMMA AtWork ==
    ASSUME RegistryInv, NEW c \in Clients, pc[Reader(c)] # "off" \/ pc[Writer(c)] # "off"
    PROVE  c \in Joined
BY DEF RegistryInv, JoinedOK, MembersOK, Joined

LEMMA FinishRegistry ==
    ASSUME TypeOK, RegistryInv, NEW t \in Threads, t # Acceptor, pc[t] # "off", Finish(t)
    PROVE  SamePlaces /\ AcceptorOK' /\ TargetsOK' /\ ServingOK'
<1>1. SamePlaces
    BY PcStep, HomeLabel DEF Finish, Home
<1>2. AcceptorOK' /\ TargetsOK'
    BY <1>1, ThreadTypes DEF TypeOK, WorkType, RegistryInv, JoinedOK, AcceptorOK, TargetsOK,
       SamePlaces, Finish
<1>3. ServingOK'
    BY <1>1 DEF TypeOK, WorkType, RegistryInv, JoinedOK, ServingOK, SamePlaces, Finish, NoReq
<1> QED
    BY <1>1, <1>2, <1>3

LEMMA StartRemoveRegistry ==
    ASSUME TypeOK, RegistryInv, NEW t \in Threads, NEW c \in Joined, StartRemove(t, c),
           SamePlaces, UNCHANGED clients
    PROVE  VictimsOK' /\ RemovalOK'
BY DEF TypeOK, CallType, RegistryInv, JoinedOK, VictimsOK, RemovalOK, SamePlaces, StartRemove

LEMMA StartPublishRegistry ==
    ASSUME TypeOK, RegistryInv, NEW t \in Threads, StartPublish(t), SamePlaces,
           UNCHANGED clients
    PROVE  VictimsOK' /\ RemovalOK'
BY DEF TypeOK, CallType, RegistryInv, JoinedOK, VictimsOK, RemovalOK, SamePlaces, StartPublish

-----------------------------------------------------------------------------
(* One lemma per action *)

LEMMA UnlinkRegistry ==
    ASSUME TypeOK, LocalsOK, SenderOK, RegistryInv, NEW t \in Threads, Unlink(t)
    PROVE  RegistryInv'
<1>1. SamePlaces
    BY SamePc DEF Unlink
<1>2. victim[t] \in Clients /\ clients' = clients \ {victim[t]} /\ primary' \in Heirs(victim[t])
    BY DEF LocalsOK, Unlink
<1>3. MembersOK'
    BY <1>1, <1>2 DEF RegistryInv, JoinedOK, MembersOK, SamePlaces, Unlink
<1>4. RegistryOK'
    BY <1>2 DEF TypeOK, RegistryType, RegistryInv, RegistryOK, Heirs, Unlink
<1>5. RemovalOK'
    BY <1>2 DEF TypeOK, CallType, RegistryInv, RemovalOK, Unlink
<1> QED
    BY Undisturbed, <1>1, <1>3, <1>4, <1>5 DEF RegistryInv, JoinedOK, Unlink

LEMMA DropRemovedRegistry ==
    ASSUME TypeOK, LocalsOK, SenderOK, RegistryInv, NEW t \in Threads, DropRemoved(t)
    PROVE  RegistryInv'
<1>1. SamePlaces
    BY SamePc DEF DropRemoved
<1>2. PendingOK'
    BY <1>1 DEF RegistryInv, JoinedOK, PendingOK, SamePlaces, DropRemoved, DropPending, NoReq
<1>3. RemovalOK'
    BY DEF TypeOK, CallType, RegistryInv, RemovalOK, DropRemoved
<1> QED
    BY Undisturbed, <1>1, <1>2, <1>3 DEF RegistryInv, JoinedOK, DropRemoved

LEMMA CloseRegistry ==
    ASSUME TypeOK, LocalsOK, SenderOK, RegistryInv, NEW t \in Threads, Close(t)
    PROVE  RegistryInv'
<1>1. SamePlaces
    BY SamePc DEF Close
<1>2. victim[t] \in Joined /\ victim[t] \notin clients
    BY BrokerAssumptions DEF LocalsOK, RegistryInv, JoinedOK, VictimsOK, RemovalOK, Close
<1>3. MembersOK' /\ RegistryOK'
    BY <1>1, <1>2 DEF TypeOK, RegistryType, RegistryInv, JoinedOK, MembersOK, RegistryOK,
       SamePlaces, Close
<1>4. VictimsOK' /\ RemovalOK'
    BY <1>1 DEF TypeOK, CallType, RegistryInv, JoinedOK, VictimsOK, RemovalOK, SamePlaces, Close
<1> QED
    BY Undisturbed, <1>1, <1>3, <1>4 DEF RegistryInv, JoinedOK, Close

LEMMA ReadRegistryRegistry ==
    ASSUME TypeOK, LocalsOK, SenderOK, RegistryInv, NEW t \in Threads, ReadRegistry(t)
    PROVE  RegistryInv'
<1>1. SamePlaces
    BY SamePc DEF ReadRegistry
<1>2. RemovalOK'
    BY DEF TypeOK, CallType, RegistryInv, RemovalOK, ReadRegistry
<1> QED
    BY Undisturbed, <1>1, <1>2 DEF RegistryInv, JoinedOK, ReadRegistry

LEMMA ReadCacheRegistry ==
    ASSUME TypeOK, LocalsOK, SenderOK, RegistryInv, NEW t \in Threads, ReadCache(t)
    PROVE  RegistryInv'
<1>1. SamePlaces
    BY SamePc DEF ReadCache
<1>2. RemovalOK'
    BY DEF TypeOK, CallType, RegistryInv, RemovalOK, ReadCache
<1> QED
    BY Undisturbed, <1>1, <1>2 DEF RegistryInv, JoinedOK, ReadCache

LEMMA SetStatusRegistry ==
    ASSUME TypeOK, LocalsOK, SenderOK, RegistryInv, NEW t \in Threads, SetStatus(t)
    PROVE  RegistryInv'
<1>1. SamePlaces
    BY SamePc DEF SetStatus
<1>2. RemovalOK'
    BY DEF TypeOK, CallType, RegistryInv, RemovalOK, SetStatus
<1> QED
    BY Undisturbed, <1>1, <1>2 DEF RegistryInv, JoinedOK, SetStatus

LEMMA ReserveRegistry ==
    ASSUME TypeOK, LocalsOK, SenderOK, RegistryInv, NEW t \in Threads, Reserve(t)
    PROVE  RegistryInv'
<1>1. SamePlaces
    BY PcStep, NotAcceptor DEF Reserve, At
<1>2. PendingOK' /\ ServingOK'
    <2>1. PICK n \in FreeNonces : pendingConfig' = [pendingConfig EXCEPT ![n] = req[t]]
        BY DEF Reserve
    <2>2. PendingOK'
        BY <1>1, <2>1 DEF TypeOK, ConfigType, RegistryInv, JoinedOK, PendingOK, ServingOK,
           SamePlaces, FreeNonces
    <2>3. ServingOK'
        BY <1>1 DEF TypeOK, WorkType, RegistryInv, JoinedOK, ServingOK, SamePlaces, Reserve,
           NoReq
    <2> QED
        BY <2>2, <2>3
<1> QED
    BY Undisturbed, <1>1, <1>2 DEF RegistryInv, JoinedOK, Reserve

LEMMA ForwardRegistry ==
    ASSUME TypeOK, LocalsOK, SenderOK, RegistryInv, NEW t \in Threads, Forward(t)
    PROVE  RegistryInv'
<1>1. t # Acceptor /\ pc[t] # "off"
    BY NotAcceptor DEF Forward, At
<1>2. CASE SerialFailed(t)
    <2>1. SamePlaces /\ AcceptorOK' /\ TargetsOK' /\ ServingOK'
        BY <1>1, <1>2, FinishRegistry DEF SerialFailed
    <2>2. OldOK'
        BY <1>2, <2>1 DEF RegistryInv, JoinedOK, OldOK, SamePlaces, SerialFailed, NoReq
    <2> QED
        BY <1>2, <2>1, <2>2, Undisturbed DEF RegistryInv, JoinedOK, SerialFailed
<1>3. CASE ~done /\ Goto(t, "write")
    <2>1. SamePlaces
        BY <1>1, <1>3, PcStep
    <2> QED
        BY <1>3, <2>1, Undisturbed DEF RegistryInv, JoinedOK, Forward, SerialFailed
<1> QED
    BY <1>2, <1>3 DEF Forward

LEMMA WriteSerialRegistry ==
    ASSUME TypeOK, LocalsOK, SenderOK, RegistryInv, NEW t \in Threads, WriteSerial(t)
    PROVE  RegistryInv'
<1>1. t # Acceptor /\ pc[t] # "off"
    BY NotAcceptor DEF WriteSerial, At
<1>2. CASE SerialFailed(t)
    <2>1. SamePlaces /\ AcceptorOK' /\ TargetsOK' /\ ServingOK'
        BY <1>1, <1>2, FinishRegistry DEF SerialFailed
    <2>2. OldOK'
        BY <1>2, <2>1 DEF RegistryInv, JoinedOK, OldOK, SamePlaces, SerialFailed, NoReq
    <2> QED
        BY <1>2, <2>1, <2>2, Undisturbed DEF RegistryInv, JoinedOK, SerialFailed
<1>3. CASE link = "up" /\ Goto(t, AfterWrite(t))
    <2>1. AfterWrite(t) # "off"
        BY DEF AfterWrite, Home
    <2>2. SamePlaces
        BY <1>1, <1>3, <2>1, PcStep
    <2> QED
        BY <1>3, <2>2, Undisturbed DEF RegistryInv, JoinedOK, WriteSerial, SerialFailed
<1> QED
    BY <1>2, <1>3 DEF WriteSerial

LEMMA CastRegistry ==
    ASSUME TypeOK, LocalsOK, SenderOK, RegistryInv, NEW t \in Threads, Cast(t)
    PROVE  RegistryInv'
<1>1. t # Acceptor /\ pc[t] # "off"
    BY NotAcceptor DEF Cast, At
<1>2. SamePlaces /\ AcceptorOK' /\ TargetsOK' /\ ServingOK'
    <2>1. CASE Finish(t)
        BY <1>1, <2>1, FinishRegistry
    <2>2. CASE /\ todo' = [todo EXCEPT ![t] = clients \ {t[2]}]
               /\ Goto(t, "send") /\ UNCHANGED <<frm, req>>
        <3>1. SamePlaces
            BY <1>1, <2>2, PcStep
        <3>2. AcceptorOK' /\ TargetsOK'
            BY <1>1, <2>2, <3>1, ThreadTypes DEF TypeOK, WorkType, RegistryInv, JoinedOK,
               AcceptorOK, MembersOK, TargetsOK, SamePlaces
        <3> QED
            BY <2>2, <3>1, <3>2, Undisturbed
    <2> QED
        BY <2>1, <2>2 DEF Cast
<1> QED
    BY <1>2, Undisturbed DEF RegistryInv, JoinedOK, Cast

LEMMA SendRegistry ==
    ASSUME TypeOK, LocalsOK, SenderOK, RegistryInv, NEW t \in Threads, NEW c \in Clients,
           Send(t, c)
    PROVE  RegistryInv'
<1>1. t # Acceptor /\ pc[t] # "off"
    BY NotAcceptor DEF Send, At
<1>2. c \in Joined
    BY <1>1 DEF RegistryInv, JoinedOK, TargetsOK, Send
<1>3. SamePlaces /\ AcceptorOK' /\ TargetsOK' /\ ServingOK'
    <2>1. CASE Finish(t)
        BY <1>1, <2>1, FinishRegistry
    <2>2. CASE todo' = [todo EXCEPT ![t] = @ \ {c}] /\ UNCHANGED <<pc, frm, req>>
        <3>1. SamePlaces
            BY <2>2, SamePc
        <3>2. AcceptorOK' /\ TargetsOK'
            BY <1>1, <2>2, <3>1, ThreadTypes DEF TypeOK, WorkType, RegistryInv, JoinedOK,
               AcceptorOK, TargetsOK, SamePlaces
        <3> QED
            BY <2>2, <3>1, <3>2, Undisturbed
    <2> QED
        BY <2>1, <2>2 DEF Send
<1>4. VictimsOK' /\ RemovalOK'
    BY <1>2, <1>3, Undisturbed, StartRemoveRegistry DEF Send, DisconnectSlow
<1> QED
    BY <1>3, <1>4, Undisturbed DEF RegistryInv, JoinedOK, Send

LEMMA SerialLoopRegistry ==
    ASSUME TypeOK, LocalsOK, SenderOK, RegistryInv, SerialLoop
    PROVE  RegistryInv'
<1>1. SamePlaces
    BY PcStep, ThreadTypes, DistinctThreads DEF SerialLoop, Goto, At
<1> QED
    BY Undisturbed, <1>1 DEF RegistryInv, JoinedOK, SerialLoop

LEMMA SerialErrorRegistry ==
    ASSUME TypeOK, LocalsOK, SenderOK, RegistryInv, SerialError
    PROVE  RegistryInv'
<1>1. SamePlaces
    BY PcStep, ThreadTypes, DistinctThreads DEF SerialError, Goto, At
<1> QED
    BY Undisturbed, <1>1 DEF RegistryInv, JoinedOK, SerialError

LEMMA SerialGlitchRegistry ==
    ASSUME TypeOK, LocalsOK, SenderOK, RegistryInv, SerialGlitch
    PROVE  RegistryInv'
<1>1. SamePlaces
    BY PcStep, ThreadTypes, DistinctThreads DEF SerialGlitch, Goto, At, Spend
<1> QED
    BY Undisturbed, <1>1 DEF RegistryInv, JoinedOK, SerialGlitch, Spend

LEMMA SerialConfigRegistry ==
    ASSUME TypeOK, LocalsOK, SenderOK, RegistryInv, SerialConfig
    PROVE  RegistryInv'
<1>1. SamePlaces
    BY PcStep, ThreadTypes, DistinctThreads DEF SerialConfig, Goto, At, ReadFrame
<1> QED
    BY Undisturbed, <1>1 DEF RegistryInv, JoinedOK, SerialConfig, ReadFrame

LEMMA SerialRebootedRegistry ==
    ASSUME TypeOK, LocalsOK, SenderOK, RegistryInv, SerialRebooted
    PROVE  RegistryInv'
<1>1. SamePlaces
    BY PcStep, ThreadTypes, DistinctThreads DEF SerialRebooted, Goto, At, ReadFrame
<1> QED
    BY Undisturbed, <1>1 DEF RegistryInv, JoinedOK, SerialRebooted, ReadFrame

LEMMA ReissueDoneRegistry ==
    ASSUME TypeOK, LocalsOK, SenderOK, RegistryInv, ReissueDone
    PROVE  RegistryInv'
<1>1. SamePlaces
    BY PcStep, ThreadTypes, DistinctThreads DEF ReissueDone, Goto, At
<1> QED
    BY Undisturbed, <1>1 DEF RegistryInv, JoinedOK, ReissueDone

LEMMA SerialCompleteRegistry ==
    ASSUME TypeOK, LocalsOK, SenderOK, RegistryInv, SerialComplete
    PROVE  RegistryInv'
<1> DEFINE r == pendingConfig[Head(fromRadio).nonce]
<1>1. SamePlaces
    BY PcStep, ThreadTypes, DistinctThreads DEF SerialComplete, ReadFrame, At
<1>2. Head(fromRadio).nonce \in Nonces
    BY HeadTyped, FrameKinds DEF TypeOK, SerialComplete, ReadFrame
<1>3. r.client \in Joined \cup {Nil}
    BY <1>2 DEF RegistryInv, JoinedOK, PendingOK
<1>4. PendingOK'
    BY <1>1, <1>2 DEF TypeOK, ConfigType, RegistryInv, JoinedOK, PendingOK, SamePlaces,
       SerialComplete, TakeRequest, NoReq
<1>5. AcceptorOK' /\ TargetsOK'
    <2>1. CASE UNCHANGED todo
        BY <1>1, <2>1, Undisturbed
    <2>2. CASE r.client # Nil /\ todo' = [todo EXCEPT ![Serial] = {r.client}]
        BY <1>1, <1>3, <2>2, ThreadTypes, DistinctThreads DEF TypeOK, WorkType, RegistryInv,
           JoinedOK, AcceptorOK, TargetsOK, SamePlaces
    <2> QED
        BY <2>1, <2>2 DEF SerialComplete, Addressee
<1>6. VictimsOK' /\ RemovalOK'
    BY <1>1, ThreadTypes, Undisturbed, StartPublishRegistry DEF SerialComplete
<1> QED
    BY <1>1, <1>4, <1>5, <1>6, Undisturbed DEF RegistryInv, JoinedOK, SerialComplete

LEMMA SwapPendingRegistry ==
    ASSUME TypeOK, LocalsOK, SenderOK, RegistryInv, SwapPending
    PROVE  RegistryInv'
<1>1. SamePlaces
    BY PcStep, ThreadTypes, DistinctThreads DEF SwapPending, At
<1>2. PendingOK' /\ OldOK'
    BY <1>1 DEF RegistryInv, JoinedOK, PendingOK, OldOK, SamePlaces, SwapPending, NoReq
<1> QED
    BY Undisturbed, <1>1, <1>2 DEF RegistryInv, JoinedOK, SwapPending

LEMMA ReissueRegistry ==
    ASSUME TypeOK, LocalsOK, SenderOK, RegistryInv, NEW n \in Nonces, Reissue(n)
    PROVE  RegistryInv'
<1>1. SamePlaces
    BY PcStep, SamePc, ThreadTypes, DistinctThreads DEF Reissue, At
<1>2. OldOK' /\ ServingOK'
    BY <1>1, ThreadTypes, Undisturbed DEF TypeOK, WorkType, RegistryInv, JoinedOK, OldOK,
       ServingOK, SamePlaces, Reissue, NoReq
<1> QED
    BY Undisturbed, <1>1, <1>2 DEF RegistryInv, JoinedOK, Reissue

LEMMA SerialPacketRegistry ==
    ASSUME TypeOK, LocalsOK, SenderOK, RegistryInv, SerialPacket
    PROVE  RegistryInv'
<1> DEFINE p == Head(fromRadio).pkt
<1>1. SamePlaces
    BY PcStep, ThreadTypes, DistinctThreads DEF SerialPacket, ReadFrame, At
<1>2. Origin(p) \in Joined \cup {Nil}
    BY DEF RegistryInv, JoinedOK, OriginsOK, Origin
<1>3. OriginsOK'
    BY <1>1 DEF RegistryInv, JoinedOK, OriginsOK, SamePlaces, SerialPacket
<1>4. AcceptorOK' /\ TargetsOK'
    <2>1. CASE UNCHANGED todo
        BY <1>1, <2>1, Undisturbed
    <2>2. CASE Origin(p) # Nil /\ todo' = [todo EXCEPT ![Serial] = {Origin(p)}]
        BY <1>1, <1>2, <2>2, ThreadTypes, DistinctThreads DEF TypeOK, WorkType, RegistryInv,
           JoinedOK, AcceptorOK, TargetsOK, SamePlaces
    <2> QED
        BY <2>1, <2>2 DEF SerialPacket
<1> QED
    BY <1>1, <1>3, <1>4, Undisturbed DEF RegistryInv, JoinedOK, SerialPacket

LEMMA ReadErrorRegistry ==
    ASSUME TypeOK, LocalsOK, SenderOK, RegistryInv, NEW c \in Clients, ReadError(c)
    PROVE  RegistryInv'
<1>1. SamePlaces
    BY PcStep, ThreadTypes, DistinctThreads DEF ReadError, At
<1>2. c \in Joined
    BY AtWork DEF ReadError, At
<1>3. VictimsOK' /\ RemovalOK'
    BY <1>1, <1>2, ThreadTypes, Undisturbed, StartRemoveRegistry DEF ReadError
<1> QED
    BY Undisturbed, <1>1, <1>3 DEF RegistryInv, JoinedOK, ReadError

LEMMA WriterStopsRegistry ==
    ASSUME TypeOK, LocalsOK, SenderOK, RegistryInv, NEW c \in Clients, WriterStops(c)
    PROVE  RegistryInv'
<1>1. SamePlaces
    BY PcStep, ThreadTypes, DistinctThreads DEF WriterStops, At
<1>2. c \in Joined
    BY AtWork DEF WriterStops, At
<1>3. VictimsOK' /\ RemovalOK'
    BY <1>1, <1>2, ThreadTypes, Undisturbed, StartRemoveRegistry DEF WriterStops
<1> QED
    BY Undisturbed, <1>1, <1>3 DEF RegistryInv, JoinedOK, WriterStops

LEMMA WriterFailsRegistry ==
    ASSUME TypeOK, LocalsOK, SenderOK, RegistryInv, NEW c \in Clients, WriterFails(c)
    PROVE  RegistryInv'
<1>1. SamePlaces
    BY PcStep, ThreadTypes, DistinctThreads DEF WriterFails, At
<1>2. c \in Joined
    BY AtWork DEF WriterFails, At
<1>3. VictimsOK' /\ RemovalOK'
    BY <1>1, <1>2, ThreadTypes, Undisturbed, StartRemoveRegistry DEF WriterFails
<1> QED
    BY Undisturbed, <1>1, <1>3 DEF RegistryInv, JoinedOK, WriterFails

LEMMA ReadDisconnectRegistry ==
    ASSUME TypeOK, LocalsOK, SenderOK, RegistryInv, NEW c \in Clients, ReadDisconnect(c)
    PROVE  RegistryInv'
<1>1. SamePlaces
    BY SamePc DEF ReadDisconnect
<1>2. c \in Joined
    BY AtWork DEF ReadDisconnect, Message, At
<1>3. VictimsOK' /\ RemovalOK'
    BY <1>1, <1>2, ThreadTypes, StartRemoveRegistry DEF ReadDisconnect
<1> QED
    BY Undisturbed, <1>1, <1>3 DEF RegistryInv, JoinedOK, ReadDisconnect

LEMMA ReadWantRegistry ==
    ASSUME TypeOK, LocalsOK, SenderOK, RegistryInv, NEW c \in Clients, ReadWant(c)
    PROVE  RegistryInv'
<1>1. SamePlaces
    BY PcStep, ThreadTypes, DistinctThreads DEF ReadWant, Message, At
<1>2. c \in Joined
    BY AtWork DEF ReadWant, Message, At
<1>3. ServingOK'
    BY <1>1, <1>2, ThreadTypes DEF TypeOK, WorkType, RegistryInv, JoinedOK, ServingOK,
       SamePlaces, ReadWant
<1> QED
    BY Undisturbed, <1>1, <1>3 DEF RegistryInv, JoinedOK, ReadWant

LEMMA DropOwnRegistry ==
    ASSUME TypeOK, LocalsOK, SenderOK, RegistryInv, NEW c \in Clients, DropOwn(c)
    PROVE  RegistryInv'
<1>1. SamePlaces
    BY PcStep, ThreadTypes, DistinctThreads DEF DropOwn, At
<1>2. PendingOK'
    BY <1>1 DEF RegistryInv, JoinedOK, PendingOK, SamePlaces, DropOwn, DropPending, NoReq
<1> QED
    BY Undisturbed, <1>1, <1>2 DEF RegistryInv, JoinedOK, DropOwn

LEMMA ReadTrafficRegistry ==
    ASSUME TypeOK, LocalsOK, SenderOK, RegistryInv, NEW c \in Clients, NEW kind, NEW msg,
           NEW allowed, ReadTraffic(c, kind, msg, allowed)
    PROVE  RegistryInv'
<1>1. SamePlaces
    BY PcStep, SamePc, ThreadTypes, DistinctThreads DEF ReadTraffic, Message, At
<1> QED
    BY Undisturbed, <1>1 DEF RegistryInv, JoinedOK, ReadTraffic

LEMMA NoteRegistry ==
    ASSUME TypeOK, LocalsOK, SenderOK, RegistryInv, NEW c \in Clients, Note(c)
    PROVE  RegistryInv'
<1>1. SamePlaces
    BY PcStep, ThreadTypes, DistinctThreads DEF Note, At
<1>2. c \in Joined
    BY AtWork DEF Note, At
<1>3. frm[Reader(c)].pkt.from = c
    BY ThreadTypes, FrameKinds DEF LocalsOK, SenderOK, Note, At
<1>4. OriginsOK'
    BY <1>1, <1>2, <1>3 DEF RegistryInv, JoinedOK, OriginsOK, SamePlaces, Note
<1> QED
    BY Undisturbed, <1>1, <1>4 DEF RegistryInv, JoinedOK, Note

LEMMA SnapshotRegistry ==
    ASSUME TypeOK, LocalsOK, SenderOK, RegistryInv, NEW c \in Clients, Snapshot(c)
    PROVE  RegistryInv'
<1>1. SamePlaces
    BY PcStep, ThreadTypes, DistinctThreads DEF Snapshot, Goto, At
<1> QED
    BY Undisturbed, <1>1 DEF RegistryInv, JoinedOK, Snapshot

LEMMA ReplayRegistry ==
    ASSUME TypeOK, LocalsOK, SenderOK, RegistryInv, NEW c \in Clients, Replay(c)
    PROVE  RegistryInv'
<1>1. Reader(c) \in Threads /\ Reader(c) # Acceptor /\ pc[Reader(c)] # "off"
    BY ThreadTypes, DistinctThreads DEF Replay, At
<1>2. c \in Joined
    BY <1>1, AtWork
<1>3. SamePlaces /\ AcceptorOK' /\ TargetsOK' /\ ServingOK'
    BY <1>1, FinishRegistry, SamePc, Undisturbed DEF Replay
<1>4. VictimsOK' /\ RemovalOK'
    BY <1>1, <1>2, <1>3, Undisturbed, StartRemoveRegistry DEF Replay, DisconnectSlow
<1> QED
    BY <1>3, <1>4, Undisturbed DEF RegistryInv, JoinedOK, Replay

LEMMA WriterTakesRegistry ==
    ASSUME TypeOK, LocalsOK, SenderOK, RegistryInv, NEW c \in Clients, WriterTakes(c)
    PROVE  RegistryInv'
<1>1. SamePlaces
    BY PcStep, ThreadTypes, DistinctThreads DEF WriterTakes, Goto, At
<1> QED
    BY Undisturbed, <1>1 DEF RegistryInv, JoinedOK, WriterTakes

LEMMA WriterWroteRegistry ==
    ASSUME TypeOK, LocalsOK, SenderOK, RegistryInv, NEW c \in Clients, WriterWrote(c)
    PROVE  RegistryInv'
<1>1. SamePlaces
    BY PcStep, ThreadTypes, DistinctThreads DEF WriterWrote, Goto, At
<1> QED
    BY Undisturbed, <1>1 DEF RegistryInv, JoinedOK, WriterWrote

LEMMA BootStartRegistry ==
    ASSUME TypeOK, LocalsOK, SenderOK, RegistryInv, BootStart
    PROVE  RegistryInv'
<1>1. SamePlaces
    BY PcStep, ThreadTypes, DistinctThreads DEF BootStart, Goto, At
<1> QED
    BY Undisturbed, <1>1 DEF RegistryInv, JoinedOK, BootStart

LEMMA RunReturnsRegistry ==
    ASSUME TypeOK, LocalsOK, SenderOK, RegistryInv, RunReturns
    PROVE  RegistryInv'
<1>1. SamePlaces
    BY PcStep, ThreadTypes, DistinctThreads DEF RunReturns, Goto, At
<1> QED
    BY Undisturbed, <1>1 DEF RegistryInv, JoinedOK, RunReturns

LEMMA ServerWakesRegistry ==
    ASSUME TypeOK, LocalsOK, SenderOK, RegistryInv, ServerWakes
    PROVE  RegistryInv'
<1>1. SamePlaces
    BY PcStep, ThreadTypes, DistinctThreads DEF ServerWakes, Goto, At
<1> QED
    BY Undisturbed, <1>1 DEF RegistryInv, JoinedOK, ServerWakes

LEMMA ServerStatusRegistry ==
    ASSUME TypeOK, LocalsOK, SenderOK, RegistryInv, ServerStatus
    PROVE  RegistryInv'
<1>1. SamePlaces
    BY PcStep, ThreadTypes, DistinctThreads DEF ServerStatus, Goto, At
<1> QED
    BY Undisturbed, <1>1 DEF RegistryInv, JoinedOK, ServerStatus

LEMMA CloseSerialRegistry ==
    ASSUME TypeOK, LocalsOK, SenderOK, RegistryInv, CloseSerial
    PROVE  RegistryInv'
<1>1. SamePlaces
    BY PcStep, ThreadTypes, DistinctThreads DEF CloseSerial, Goto, At
<1> QED
    BY Undisturbed, <1>1 DEF RegistryInv, JoinedOK, CloseSerial

LEMMA WebSendRegistry ==
    ASSUME TypeOK, LocalsOK, SenderOK, RegistryInv, WebSend
    PROVE  RegistryInv'
<1>1. SamePlaces
    BY PcStep, ThreadTypes, DistinctThreads, SamePc DEF WebSend, Goto, At
<1> QED
    BY Undisturbed, <1>1 DEF RegistryInv, JoinedOK, WebSend

LEMMA BootScanRegistry ==
    ASSUME TypeOK, LocalsOK, SenderOK, RegistryInv, BootScan
    PROVE  RegistryInv'
<1>1. SamePlaces
    BY PcStep, ThreadTypes, DistinctThreads DEF BootScan, At
<1>2. ServingOK'
    BY <1>1, ThreadTypes, Undisturbed DEF TypeOK, WorkType, RegistryInv, JoinedOK, ServingOK,
       SamePlaces, BootScan
<1> QED
    BY Undisturbed, <1>1, <1>2 DEF RegistryInv, JoinedOK, BootScan

LEMMA ListClientsRegistry ==
    ASSUME TypeOK, LocalsOK, SenderOK, RegistryInv, ListClients
    PROVE  RegistryInv'
<1>1. SamePlaces
    BY PcStep, ThreadTypes, DistinctThreads DEF ListClients, At
<1>2. AcceptorOK' /\ TargetsOK'
    BY <1>1, ThreadTypes, DistinctThreads DEF TypeOK, WorkType, RegistryInv, JoinedOK, AcceptorOK,
       MembersOK, TargetsOK, SamePlaces, ListClients
<1> QED
    BY Undisturbed, <1>1, <1>2 DEF RegistryInv, JoinedOK, ListClients

LEMMA RemoveListedRegistry ==
    ASSUME TypeOK, LocalsOK, SenderOK, RegistryInv, NEW c \in Clients, RemoveListed(c)
    PROVE  RegistryInv'
<1>1. SamePlaces
    BY SamePc DEF RemoveListed
<1>2. c \in Joined
    BY ThreadTypes, DistinctThreads DEF RegistryInv, JoinedOK, TargetsOK, RemoveListed
<1>3. AcceptorOK' /\ TargetsOK'
    BY <1>1, ThreadTypes, DistinctThreads DEF TypeOK, WorkType, RegistryInv, JoinedOK, AcceptorOK,
       TargetsOK, SamePlaces, RemoveListed
<1>4. VictimsOK' /\ RemovalOK'
    BY <1>1, <1>2, ThreadTypes, StartRemoveRegistry DEF RemoveListed
<1> QED
    BY Undisturbed, <1>1, <1>3, <1>4 DEF RegistryInv, JoinedOK, RemoveListed

LEMMA AcceptConnRegistry ==
    ASSUME TypeOK, LocalsOK, SenderOK, RegistryInv, NEW c \in Clients, AcceptConn(c)
    PROVE  RegistryInv'
<1>1. \A u \in Threads \ {Acceptor} : pc'[u] = pc[u]
    BY DEF TypeOK, WorkType, AcceptConn, Goto
<1>2. Joined' = Joined /\ \A d \in Clients : pc'[Writer(d)] = pc[Writer(d)]
    BY <1>1, ThreadTypes, DistinctThreads DEF Joined
<1>3. AcceptorOK'
    BY <1>2, ThreadTypes DEF TypeOK, WorkType, AcceptorOK, AcceptConn, Goto, Joined
<1>4. TargetsOK'
    BY <1>2, ThreadTypes DEF TypeOK, WorkType, RegistryInv, JoinedOK, TargetsOK, AcceptConn
<1>5. MembersOK' /\ VictimsOK' /\ ServingOK' /\ PendingOK' /\ OldOK' /\ OriginsOK'
    BY <1>2 DEF RegistryInv, JoinedOK, MembersOK, VictimsOK, ServingOK, PendingOK, OldOK,
       OriginsOK, AcceptConn
<1>6. RegistryOK' /\ RemovalOK'
    BY DEF RegistryInv, RegistryOK, RemovalOK, AcceptConn
<1> QED
    BY <1>3, <1>4, <1>5, <1>6 DEF RegistryInv, JoinedOK

LEMMA AddClientRegistry ==
    ASSUME TypeOK, LocalsOK, SenderOK, RegistryInv, NEW c \in Clients, AddClient(c)
    PROVE  RegistryInv'
<1>1. c \notin Joined /\ c \in Clients /\ c # Nil
    BY BrokerAssumptions DEF RegistryInv, JoinedOK, AcceptorOK, AddClient
<1>2. ~closed[c] /\ \A t \in Threads : victim[t] # c
    BY <1>1 DEF RegistryInv, JoinedOK, MembersOK, VictimsOK
<1>3. Joined' = Joined \cup {c}
    BY ThreadTypes, DistinctThreads DEF TypeOK, WorkType, Joined, AddClient
<1>4. \A d \in Clients \ {c} : pc'[Writer(d)] = pc[Writer(d)]
    BY ThreadTypes, DistinctThreads DEF TypeOK, WorkType, AddClient
<1>5. AcceptorOK'
    BY ThreadTypes, DistinctThreads DEF TypeOK, WorkType, AcceptorOK, AddClient
<1>6. MembersOK'
    BY <1>3, <1>4 DEF RegistryInv, JoinedOK, MembersOK, AddClient
<1>7. TargetsOK'
    BY <1>3 DEF TypeOK, WorkType, RegistryInv, JoinedOK, TargetsOK, AddClient
<1>8. VictimsOK' /\ ServingOK' /\ PendingOK' /\ OldOK' /\ OriginsOK'
    BY <1>3 DEF RegistryInv, JoinedOK, VictimsOK, ServingOK, PendingOK, OldOK, OriginsOK,
       AddClient, StartPublish
<1>9. RegistryOK'
    BY <1>1, <1>2 DEF TypeOK, RegistryType, RegistryInv, RegistryOK, AddClient, NewPrimary
<1>10. RemovalOK'
    BY <1>2 DEF TypeOK, CallType, RegistryInv, RemovalOK, AddClient, StartPublish
<1> QED
    BY <1>5, <1>6, <1>7, <1>8, <1>9, <1>10 DEF RegistryInv, JoinedOK

\* Steps of the radio, the line and the clock leave the broker alone.
LEMMA EnvironmentRegistry ==
    ASSUME RegistryInv,
           UNCHANGED <<registryVars, configVars, outbound, pc, workVars, callVars>>
    PROVE  RegistryInv'
<1>1. SamePlaces
    BY SamePc
<1> QED
    BY <1>1, Undisturbed DEF RegistryInv, JoinedOK

LEMMA InitRegistry == Init => RegistryInv
<1> SUFFICES ASSUME Init PROVE RegistryInv
    OBVIOUS
<1>1. /\ pc[Acceptor] = "idle"
      /\ \A c \in Clients : /\ pc[Reader(c)] # "off" <=> c \in Early
                            /\ pc[Writer(c)] # "off" => c \in Early
    <2>1. pc[Acceptor] = "idle"
        BY ThreadTypes, DistinctThreads, BrokerAssumptions DEF Init
    <2>2. ASSUME NEW c \in Clients
          PROVE  pc[Reader(c)] = IF c \in Early THEN "read" ELSE "off"
        <3>1. /\ Reader(c) \in {Reader(d) : d \in Early} <=> c \in Early
              /\ Reader(c) \notin {Writer(d) : d \in Early}
            BY <2>2, DistinctThreads, BrokerAssumptions
        <3> QED
            BY <3>1, ThreadTypes, DistinctThreads DEF Init
    <2>3. ASSUME NEW c \in Clients
          PROVE  pc[Writer(c)] = IF c \in Early THEN "select" ELSE "off"
        <3>1. /\ Writer(c) \in {Writer(d) : d \in Early} <=> c \in Early
              /\ Writer(c) \notin {Reader(d) : d \in Early}
            BY <2>3, DistinctThreads, BrokerAssumptions
        <3> QED
            BY <3>1, ThreadTypes, DistinctThreads DEF Init
    <2> QED
        BY <2>1, <2>2, <2>3
<1>2. Joined = Early
    BY <1>1, BrokerAssumptions DEF Joined
<1>3. AcceptorOK /\ MembersOK /\ TargetsOK /\ VictimsOK
    BY <1>1, <1>2, ThreadTypes DEF Init, AcceptorOK, MembersOK, TargetsOK, VictimsOK
<1>4. ServingOK /\ PendingOK /\ OldOK /\ OriginsOK
    BY DEF Init, ServingOK, PendingOK, OldOK, OriginsOK, NoReq
<1>5. RegistryOK /\ RemovalOK
    BY BrokerAssumptions DEF Init, RegistryOK, RemovalOK
<1> QED
    BY <1>3, <1>4, <1>5 DEF RegistryInv, JoinedOK

LEMMA NextRegistry ==
    ASSUME TypeOK, LocalsOK, SenderOK, RegistryInv, [Next]_vars
    PROVE  RegistryInv'
<1>1. ASSUME NEW t \in Threads, SharedStep(t) PROVE RegistryInv'
    BY <1>1, UnlinkRegistry, DropRemovedRegistry, CloseRegistry, ReadRegistryRegistry,
       ReadCacheRegistry, SetStatusRegistry, ReserveRegistry, ForwardRegistry,
       WriteSerialRegistry, CastRegistry, SendRegistry
    DEF SharedStep, CallStep
<1>2. CASE SerialStep \/ SerialGlitch
    BY <1>2, SerialLoopRegistry, SerialErrorRegistry, SerialGlitchRegistry,
       SerialConfigRegistry, SerialCompleteRegistry, SerialRebootedRegistry,
       SwapPendingRegistry, ReissueRegistry, ReissueDoneRegistry, SerialPacketRegistry
    DEF SerialStep
<1>3. ASSUME NEW c \in Clients, ClientInput(c) \/ ReaderStep(c) \/ ReadError(c)
      PROVE  RegistryInv'
    <2>1. CASE ReadPacket(c) \/ ReadOther(c) \/ ReadRaw(c)
        BY <2>1, ReadTrafficRegistry DEF ReadPacket, ReadOther, ReadRaw
    <2> QED
        BY <1>3, <2>1, ReadWantRegistry, ReadDisconnectRegistry, DropOwnRegistry,
           NoteRegistry, SnapshotRegistry, ReplayRegistry, ReadErrorRegistry
        DEF ClientInput, ReaderStep
<1>4. ASSUME NEW c \in Clients, WriterStep(c) \/ WriterWrote(c) \/ WriterFails(c)
      PROVE  RegistryInv'
    BY <1>4, WriterStopsRegistry, WriterTakesRegistry, WriterWroteRegistry,
       WriterFailsRegistry
    DEF WriterStep
<1>5. CASE \/ BootStart \/ BootScan \/ WebSend \/ RunReturns \/ ServerStep \/ ServerWakes
           \/ \E c \in Clients : AcceptConn(c) \/ AddClient(c)
    BY <1>5, BootStartRegistry, BootScanRegistry, WebSendRegistry, RunReturnsRegistry,
       ServerWakesRegistry, ServerStatusRegistry, ListClientsRegistry,
       RemoveListedRegistry, CloseSerialRegistry, AcceptConnRegistry, AddClientRegistry
    DEF ServerStep
<1>6. CASE \/ RadioAnswers \/ RadioHears \/ RadioReboots \/ LinkFails \/ Cancel
           \/ \E s \in Slots : RadioUpdates(s)
           \/ \E p \in outbound : OutboundExpires(p)
    BY <1>6, EnvironmentRegistry DEF RadioAnswers, RadioHears, RadioReboots, LinkFails,
       Cancel, RadioUpdates, OutboundExpires
<1>7. CASE UNCHANGED vars
    BY <1>7, EnvironmentRegistry DEF vars
<1> QED
    BY <1>1, <1>2, <1>3, <1>4, <1>5, <1>6, <1>7 DEF Next

\* Whatever goroutines run AddClient, removeClient and CloseAll at once, and for any
\* number of clients: there is a primary exactly when a client is registered, it is
\* registered itself, and no client whose connection is closed is registered.
THEOREM RegistryCorrect == Spec => []RegistryOK
<1> DEFINE Inv == TypeOK /\ LocalsOK /\ SenderOK /\ RegistryInv
<1>1. Init => Inv
    BY InitType, InitRegistry
<1>2. Inv /\ [Next]_vars => Inv'
    BY NextType, NextRegistry
<1>3. Inv => RegistryOK
    BY DEF RegistryInv
<1> QED
    BY <1>1, <1>2, <1>3, PTL DEF Spec
=============================================================================
