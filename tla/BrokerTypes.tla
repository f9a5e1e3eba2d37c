---------------------------- MODULE BrokerTypes ----------------------------
(***************************************************************************)
(* Type correctness of Broker, for every value of its constants.  TypeOK   *)
(* is not inductive: what a goroutine holds must fit the step it is at     *)
(* (LocalsOK), and a packet in a reader's hands must be its own client's   *)
(* (SenderOK), or the queues and outboundByPacket could be handed a frame  *)
(* of the wrong kind.  One lemma per action, one step per part of TypeOK   *)
(* that the action disturbs.                                               *)
(***************************************************************************)
EXTENDS Broker, TLAPS

\* What a goroutine holds fits the step it is at.
LocalsOK == \A t \in Threads :
    /\ pc[t] \in {"forward", "write"} => frm[t] \in ToRadio
    /\ pc[t] = "note" => frm[t] \in PktFrames
    /\ pc[t] \in {"cast", "send"} => frm[t] \in ToClient
    /\ pc[t] \in {"snapshot", "replay"} => req[t].id \in RequestIds
    /\ call[t] \in {"unlink", "drop", "close"} => victim[t] \in Clients

\* A packet a reader is forwarding or noting was sent by its own client.
SenderOK == \A c \in Clients :
    pc[Reader(c)] \in {"forward", "write", "note"} /\ frm[Reader(c)].kind = "pkt"
        => frm[Reader(c)].pkt.from = c

USE DEF registryVars, queueVars, configVars, echoVars, workVars, callVars, wireVars,
        envVars

LEMMA ThreadTypes ==
    /\ Serial \in Threads /\ Runner \in Threads /\ Boot \in Threads /\ Web \in Threads
    /\ Acceptor \in Threads /\ Server \in Threads
    /\ \A c \in Clients : Reader(c) \in Threads /\ Writer(c) \in Threads
BY DEF Threads

LEMMA DistinctThreads ==
    /\ \A c \in Clients : /\ Reader(c) \notin {Serial, Runner, Boot, Web, Acceptor, Server}
                          /\ Writer(c) \notin {Serial, Runner, Boot, Web, Acceptor, Server}
    /\ \A c, d \in Clients : Reader(c) # Writer(d) /\ (Reader(c) = Reader(d) => c = d)
                             /\ (Writer(c) = Writer(d) => c = d)
    /\ Acceptor \notin {Serial, Runner, Boot, Web, Server}
    /\ Serial \notin {Runner, Boot, Web, Server}
BY DEF Reader, Writer, Serial, Runner, Boot, Web, Acceptor, Server

LEMMA FrameTypes ==
    /\ \A s \in Slots, v \in Nat : CfgFrame(s, v) \in CfgFrames
    /\ \A p \in Packets, via \in {"radio", "echo"} : PktFrame(p, via) \in PktFrames
    /\ \A i \in RequestIds, via \in {"radio", "cache"} : DoneFrame(i, via) \in DoneFrames
    /\ \A n \in Nonces : WantMsg(n) \in WantMsgs /\ Complete(n) \in Completes
BY DEF CfgFrame, PktFrame, DoneFrame, WantMsg, Complete, CfgFrames, PktFrames, DoneFrames,
       WantMsgs, Completes

LEMMA FrameKinds ==
    /\ \A f \in CfgFrames : f.kind = "cfg" /\ f.slot \in Slots /\ f.ver \in Nat
    /\ \A f \in PktFrames : f.kind = "pkt" /\ f.pkt \in Packets
    /\ \A f \in DoneFrames : f.kind = "done" /\ f.id \in RequestIds
    /\ \A f \in WantMsgs : f.kind = "want" /\ f.nonce \in Nonces
    /\ \A f \in Completes : f.kind = "complete" /\ f.nonce \in Nonces
    /\ OtherMsg.kind = "other" /\ Rebooted.kind = "rebooted"
BY DEF CfgFrames, PktFrames, DoneFrames, WantMsgs, Completes, OtherMsg, Rebooted

LEMMA HomeLabel == ASSUME NEW t PROVE Home(t) \in {"loop", "stopped", "idle", "read"}
BY DEF Home

LEMMA NoStatTyped == NoStat \in Statuses
BY DEF NoStat, Statuses

LEMMA AcceptTyped ==
    ASSUME QueueType, NEW c \in Clients, NEW f \in ToClient, HasRoom(c), Accept(c, f),
           UNCHANGED taken
    PROVE  QueueType'
<1>1. out' \in [Clients -> Seq(ToClient)]
    BY DEF QueueType, Accept
<1>2. Len(out'[c]) = Len(out[c]) + 1
    BY DEF QueueType, Accept
<1>3. \A d \in Clients \ {c} : out'[d] = out[d]
    BY DEF QueueType, Accept
<1>4. \A d \in Clients : Len(out[d]) \in Nat /\ taken[d] \in Nat
    BY DEF QueueType
<1>5. Len(out[c]) + 1 <= taken[c] + SendBuffer
    BY <1>4, BrokerAssumptions DEF HasRoom
<1>6. ASSUME NEW d \in Clients
      PROVE  taken'[d] <= Len(out'[d]) /\ Len(out'[d]) <= taken'[d] + SendBuffer
    <2>1. CASE d = c
        BY <2>1, <1>2, <1>4, <1>5, BrokerAssumptions DEF QueueType
    <2>2. CASE d # c
        BY <2>2, <1>3 DEF QueueType
    <2> QED
        BY <2>1, <2>2
<1> QED
    BY <1>1, <1>6 DEF QueueType

LEMMA HeadTyped ==
    ASSUME WireType, fromRadio # <<>>
    PROVE  /\ Head(fromRadio) \in FromRadio /\ Tail(fromRadio) \in Seq(FromRadio)
           /\ Head(fromRadio).kind = "cfg" => Head(fromRadio) \in CfgFrames
           /\ Head(fromRadio).kind = "pkt" => Head(fromRadio) \in PktFrames
           /\ Head(fromRadio).kind = "complete" => Head(fromRadio) \in Completes
<1>1. Head(fromRadio) \in FromRadio /\ Tail(fromRadio) \in Seq(FromRadio)
    BY DEF WireType
<1> QED
    BY <1>1, FrameKinds DEF FromRadio

LEMMA DumpTyped == WireType => Dump \in Seq(FromRadio)
BY BrokerAssumptions, FrameTypes DEF WireType, Dump, FromRadio

LEMMA SpendTyped ==
    ASSUME EnvType, NEW e \in Events, Spend(e)
    PROVE  used' \in [Events -> Nat]
BY DEF EnvType, Spend

LEMMA EventTypes == {"msg", "hangup", "update", "mesh", "reboot", "glitch", "web", "linkfail",
                     "cancel", "expire", "acceptfail", "drain"} \subseteq Events
BY DEF Events

LEMMA MessageTyped ==
    ASSUME EnvType, NEW c \in Clients, NEW kind, Message(c, kind)
    PROVE  EnvType'
<1>1. used' \in [Events -> Nat]
    BY SpendTyped, EventTypes DEF Message
<1>2. asked' \in [Clients -> Nat]
    BY DEF EnvType, Message
<1>3. cancelled' = cancelled
    BY DEF Message
<1> QED
    BY <1>1, <1>2, <1>3 DEF EnvType

LEMMA FinishTyped ==
    ASSUME WorkType, NEW t \in Threads, Finish(t)
    PROVE  /\ pc' \in [Threads -> Labels]
           /\ frm' \in [Threads -> ToClient \cup ToRadio \cup {Nil}]
           /\ todo' \in [Threads -> SUBSET Clients]
           /\ req' \in [Threads -> Requests \cup {NoReq}]
<1>1. pc' \in [Threads -> Labels]
    BY HomeLabel DEF WorkType, Finish, Goto, Labels
<1>2. frm' \in [Threads -> ToClient \cup ToRadio \cup {Nil}]
    BY DEF WorkType, Finish
<1>3. todo' \in [Threads -> SUBSET Clients] /\ req' \in [Threads -> Requests \cup {NoReq}]
    BY DEF WorkType, Finish
<1> QED
    BY <1>1, <1>2, <1>3

LEMMA FinishLocals ==
    ASSUME WorkType, LocalsOK, NEW t \in Threads, Finish(t), UNCHANGED <<call, victim>>
    PROVE  LocalsOK'
BY HomeLabel DEF WorkType, LocalsOK, Finish, Goto

LEMMA FinishSender ==
    ASSUME WorkType, SenderOK, NEW t \in Threads, Finish(t)
    PROVE  SenderOK'
BY HomeLabel, ThreadTypes DEF WorkType, SenderOK, Finish, Goto

LEMMA InitType == Init => TypeOK /\ LocalsOK /\ SenderOK
<1> SUFFICES ASSUME Init PROVE TypeOK /\ LocalsOK /\ SenderOK
    OBVIOUS
<1>1. RegistryType
    BY BrokerAssumptions DEF Init, RegistryType
<1>2. QueueType
    BY BrokerAssumptions DEF Init, QueueType
<1>3. NoCache \in [Slots -> Nat] /\ ConfigType
    BY DEF Init, ConfigType, NoCache
<1>4. StatusType
    BY <1>1, NoStatTyped, BrokerAssumptions
    DEF Init, StatusType, RegistryType, NoStat, Statuses
<1>5. pc \in [Threads -> {"loop", "select", "start", "stopped", "idle", "wait", "read", "off"}]
    BY DEF Init
<1>6. WorkType
    BY <1>3, <1>5 DEF Init, WorkType, Labels
<1>7. CallType
    BY NoStatTyped DEF Init, CallType, CallSteps
<1>8. EchoType /\ WireType
    BY DEF Init, EchoType, WireType
<1>9. EnvType
    <2>1. cancelled \in BOOLEAN
        BY Zenon DEF Init
    <2> QED
        BY <2>1, BrokerAssumptions DEF Init, EnvType
<1>10. LocalsOK
    BY <1>5 DEF LocalsOK, Init
<1>11. SenderOK
    BY <1>5, ThreadTypes DEF SenderOK, Init
<1> QED
    BY <1>1, <1>2, <1>3, <1>4, <1>6, <1>7, <1>8, <1>9, <1>10, <1>11 DEF TypeOK

LEMMA UnlinkType ==
    ASSUME TypeOK, LocalsOK, SenderOK, NEW t \in Threads, Unlink(t)
    PROVE  TypeOK' /\ LocalsOK' /\ SenderOK'
<1>1. RegistryType'
    BY ThreadTypes DEF TypeOK, RegistryType, Unlink, Heirs
<1>2. CallType'
    BY ThreadTypes DEF TypeOK, CallType, CallSteps, Unlink, Heirs
<1>3. LocalsOK'
    BY ThreadTypes DEF TypeOK, LocalsOK, WorkType, CallType, Unlink, Heirs
<1>4. SenderOK'
    BY ThreadTypes, DistinctThreads DEF TypeOK, SenderOK, WorkType, Labels, Unlink, Heirs
<1> QED
    BY <1>1, <1>2, <1>3, <1>4 DEF TypeOK, Unlink, QueueType, ConfigType, EchoType, StatusType, WorkType, WireType, EnvType

LEMMA DropRemovedType ==
    ASSUME TypeOK, LocalsOK, SenderOK, NEW t \in Threads, DropRemoved(t)
    PROVE  TypeOK' /\ LocalsOK' /\ SenderOK'
<1>1. ConfigType'
    BY ThreadTypes DEF TypeOK, ConfigType, DropRemoved, DropPending
<1>2. CallType'
    BY ThreadTypes DEF TypeOK, CallType, CallSteps, DropRemoved, DropPending
<1>3. LocalsOK'
    BY ThreadTypes DEF TypeOK, LocalsOK, WorkType, CallType, DropRemoved, DropPending
<1>4. SenderOK'
    BY ThreadTypes, DistinctThreads DEF TypeOK, SenderOK, WorkType, Labels, DropRemoved, DropPending
<1> QED
    BY <1>1, <1>2, <1>3, <1>4 DEF TypeOK, DropRemoved, RegistryType, QueueType, EchoType, StatusType, WorkType, WireType, EnvType

LEMMA CloseType ==
    ASSUME TypeOK, LocalsOK, SenderOK, NEW t \in Threads, Close(t)
    PROVE  TypeOK' /\ LocalsOK' /\ SenderOK'
<1>1. RegistryType'
    BY ThreadTypes DEF TypeOK, RegistryType, Close
<1>2. CallType'
    BY ThreadTypes DEF TypeOK, CallType, CallSteps, Close
<1>3. LocalsOK'
    BY ThreadTypes DEF TypeOK, LocalsOK, WorkType, CallType, Close
<1>4. SenderOK'
    BY ThreadTypes, DistinctThreads DEF TypeOK, SenderOK, WorkType, Labels, Close
<1> QED
    BY <1>1, <1>2, <1>3, <1>4 DEF TypeOK, Close, QueueType, ConfigType, EchoType, StatusType, WorkType, WireType, EnvType

LEMMA ReadRegistryType ==
    ASSUME TypeOK, LocalsOK, SenderOK, NEW t \in Threads, ReadRegistry(t)
    PROVE  TypeOK' /\ LocalsOK' /\ SenderOK'
<1>1. CallType'
    BY ThreadTypes DEF TypeOK, CallType, CallSteps, ReadRegistry, NoStat, Statuses, RegistryType
<1>2. LocalsOK'
    BY ThreadTypes DEF TypeOK, LocalsOK, WorkType, CallType, ReadRegistry, NoStat, Statuses, RegistryType
<1>3. SenderOK'
    BY ThreadTypes, DistinctThreads DEF TypeOK, SenderOK, WorkType, Labels, ReadRegistry, NoStat, Statuses, RegistryType
<1> QED
    BY <1>1, <1>2, <1>3 DEF TypeOK, ReadRegistry, RegistryType, QueueType, ConfigType, EchoType, StatusType, WorkType, WireType, EnvType

LEMMA ReadCacheType ==
    ASSUME TypeOK, LocalsOK, SenderOK, NEW t \in Threads, ReadCache(t)
    PROVE  TypeOK' /\ LocalsOK' /\ SenderOK'
<1>1. CallType'
    BY ThreadTypes DEF TypeOK, CallType, CallSteps, ReadCache, Ready, Statuses
<1>2. LocalsOK'
    BY ThreadTypes DEF TypeOK, LocalsOK, WorkType, CallType, ReadCache, Ready, Statuses
<1>3. SenderOK'
    BY ThreadTypes, DistinctThreads DEF TypeOK, SenderOK, WorkType, Labels, ReadCache, Ready, Statuses
<1> QED
    BY <1>1, <1>2, <1>3 DEF TypeOK, ReadCache, RegistryType, QueueType, ConfigType, EchoType, StatusType, WorkType, WireType, EnvType

LEMMA SetStatusType ==
    ASSUME TypeOK, LocalsOK, SenderOK, NEW t \in Threads, SetStatus(t)
    PROVE  TypeOK' /\ LocalsOK' /\ SenderOK'
<1>1. CallType'
    BY ThreadTypes, NoStatTyped DEF TypeOK, CallType, CallSteps, SetStatus
<1>2. StatusType'
    BY DEF TypeOK, StatusType, CallType, SetStatus
<1>3. LocalsOK'
    BY ThreadTypes, NoStatTyped DEF TypeOK, LocalsOK, WorkType, CallType, SetStatus
<1>4. SenderOK'
    BY ThreadTypes, NoStatTyped, DistinctThreads DEF TypeOK, SenderOK, WorkType, Labels, SetStatus
<1> QED
    BY <1>1, <1>2, <1>3, <1>4 DEF TypeOK, SetStatus, RegistryType, QueueType, ConfigType, EchoType, WorkType, WireType, EnvType

LEMMA ReserveType ==
    ASSUME TypeOK, LocalsOK, SenderOK, NEW t \in Threads, Reserve(t)
    PROVE  TypeOK' /\ LocalsOK' /\ SenderOK'
<1>a. PICK n \in Nonces : /\ pendingConfig' = [pendingConfig EXCEPT ![n] = req[t]]
                           /\ issued' = issued \cup {n}
                           /\ frm' = [frm EXCEPT ![t] = WantMsg(n)]
    BY DEF Reserve, FreeNonces
<1>b. WantMsg(n) \in ToRadio
    BY FrameTypes DEF ToRadio
<1>1. ConfigType'
    BY <1>a DEF TypeOK, ConfigType, WorkType, Reserve
<1>2. WorkType'
    BY <1>a, <1>b DEF TypeOK, WorkType, Labels, Reserve, Goto
<1>3. LocalsOK'
    BY <1>a, <1>b DEF TypeOK, LocalsOK, WorkType, CallType, Reserve, Goto
<1>4. SenderOK'
    BY <1>a, ThreadTypes, FrameTypes, FrameKinds DEF TypeOK, SenderOK, WorkType, Reserve, Goto
<1> QED
    BY <1>1, <1>2, <1>3, <1>4 DEF TypeOK, Reserve, RegistryType, QueueType, EchoType, StatusType, CallType, WireType, EnvType

LEMMA ForwardType ==
    ASSUME TypeOK, LocalsOK, SenderOK, NEW t \in Threads, Forward(t)
    PROVE  TypeOK' /\ LocalsOK' /\ SenderOK'
<1>1. WorkType'
    BY ThreadTypes, HomeLabel DEF TypeOK, WorkType, Labels, Forward, SerialFailed, Goto, Finish, At
<1>2. StatusType'
    BY ThreadTypes, HomeLabel DEF TypeOK, StatusType, Forward, SerialFailed, Goto, Finish, At
<1>3. LocalsOK'
    <2>1. CASE SerialFailed(t)
        BY <2>1, FinishLocals DEF TypeOK, SerialFailed
    <2>2. CASE ~SerialFailed(t)
        BY <2>2 DEF TypeOK, LocalsOK, WorkType, Forward, Goto, At
    <2> QED
        BY <2>1, <2>2
<1>4. SenderOK'
    <2>1. CASE SerialFailed(t)
        BY <2>1, FinishSender DEF TypeOK, SerialFailed
    <2>2. CASE ~SerialFailed(t)
        BY <2>2, ThreadTypes DEF TypeOK, SenderOK, WorkType, Forward, Goto, At
    <2> QED
        BY <2>1, <2>2
<1> QED
    BY <1>1, <1>2, <1>3, <1>4 DEF TypeOK, Forward, SerialFailed, Finish, RegistryType, QueueType, ConfigType, EchoType, CallType, WireType, EnvType

LEMMA WriteSerialType ==
    ASSUME TypeOK, LocalsOK, SenderOK, NEW t \in Threads, WriteSerial(t)
    PROVE  TypeOK' /\ LocalsOK' /\ SenderOK'
<1>a. frm[t] \in ToRadio
    BY DEF LocalsOK, WriteSerial, At
<1>b. frm[t].kind = "pkt" => frm[t] \in PktFrames
    BY <1>a, FrameKinds DEF ToRadio
<1>c. /\ AfterWrite(t) \in {"note", "cast", "reissue", "loop", "stopped", "idle", "read"}
      /\ AfterWrite(t) \in {"note", "cast"} => frm[t].kind = "pkt"
    BY HomeLabel DEF AfterWrite
<1>1. WorkType'
    BY <1>c, FinishTyped DEF TypeOK, WorkType, Labels, WriteSerial, SerialFailed, Goto
<1>2. StatusType'
    BY ThreadTypes, HomeLabel DEF TypeOK, StatusType, WriteSerial, SerialFailed, Goto, Finish, AfterWrite, At
<1>3. WireType'
    <2>1. CASE SerialFailed(t)
        BY <2>1 DEF TypeOK, WireType, SerialFailed
    <2>2. CASE toRadio' = Append(toRadio, frm[t]) /\ UNCHANGED <<link, fromRadio, radioCfg>>
        BY <2>2, <1>a DEF TypeOK, WireType
    <2> QED
        BY <2>1, <2>2 DEF WriteSerial
<1>4. LocalsOK'
    <2>1. CASE link = "up"
        BY <2>1, <1>b, <1>c DEF TypeOK, LocalsOK, WorkType, WriteSerial, Goto, ToClient
    <2>2. CASE link = "down"
        BY <2>2, FinishLocals DEF TypeOK, WriteSerial, SerialFailed
    <2> QED
        BY <2>1, <2>2 DEF WriteSerial
<1>5. SenderOK'
    <2>1. CASE SerialFailed(t)
        BY <2>1, FinishSender DEF TypeOK, SerialFailed
    <2>2. CASE ~SerialFailed(t)
        BY <2>2, <1>c, ThreadTypes DEF TypeOK, SenderOK, WorkType, WriteSerial, Goto, At
    <2> QED
        BY <2>1, <2>2
<1> QED
    BY <1>1, <1>2, <1>3, <1>4, <1>5 DEF TypeOK, WriteSerial, SerialFailed, Finish, RegistryType, QueueType, ConfigType, EchoType, CallType, EnvType

LEMMA CastType ==
    ASSUME TypeOK, LocalsOK, SenderOK, NEW t \in Threads, Cast(t)
    PROVE  TypeOK' /\ LocalsOK' /\ SenderOK'
<1>1. WorkType'
    <2>1. CASE Finish(t)
        BY <2>1, FinishTyped DEF TypeOK, WorkType, Cast
    <2>2. CASE todo' = [todo EXCEPT ![t] = clients \ {t[2]}] /\ Goto(t, "send") /\ UNCHANGED <<frm, req>>
        BY <2>2 DEF TypeOK, WorkType, RegistryType, Labels, Cast, Goto
    <2> QED
        BY <2>1, <2>2 DEF Cast
<1>2. LocalsOK'
    <2>1. CASE Finish(t)
        BY <2>1, FinishLocals DEF TypeOK, Cast
    <2>2. CASE todo' = [todo EXCEPT ![t] = clients \ {t[2]}] /\ Goto(t, "send") /\ UNCHANGED <<frm, req>>
        BY <2>2 DEF TypeOK, WorkType, LocalsOK, Cast, Goto, At
    <2> QED
        BY <2>1, <2>2 DEF Cast
<1>3. SenderOK'
    <2>1. CASE Finish(t)
        BY <2>1, FinishSender DEF TypeOK
    <2>2. CASE Goto(t, "send") /\ UNCHANGED frm
        BY <2>2, ThreadTypes DEF TypeOK, SenderOK, WorkType, Goto
    <2> QED
        BY <2>1, <2>2 DEF Cast
<1> QED
    BY <1>1, <1>2, <1>3 DEF TypeOK, Cast, Finish, RegistryType, QueueType, ConfigType, EchoType, StatusType, CallType, WireType, EnvType

LEMMA SendType ==
    ASSUME TypeOK, LocalsOK, SenderOK, NEW t \in Threads, NEW c \in Clients, Send(t, c)
    PROVE  TypeOK' /\ LocalsOK' /\ SenderOK'
<1>a. frm[t] \in ToClient
    BY DEF LocalsOK, Send, At
<1>1. QueueType'
    <2>1. CASE UNCHANGED out
        BY <2>1 DEF TypeOK, QueueType, Send
    <2>2. CASE HasRoom(c) /\ Accept(c, frm[t])
        BY <1>a, <2>2, AcceptTyped DEF TypeOK, Send
    <2> QED
        BY <2>1, <2>2 DEF Send
<1>2. WorkType'
    BY FinishTyped DEF TypeOK, WorkType, Send
<1>3. CallType'
    BY ThreadTypes, HomeLabel, AcceptTyped DEF TypeOK, CallType, CallSteps, Send, DisconnectSlow, StartRemove, Goto, Finish
<1>4. LocalsOK'
    BY ThreadTypes, HomeLabel, AcceptTyped DEF TypeOK, LocalsOK, WorkType, CallType, Send, DisconnectSlow, StartRemove, Goto, Finish
<1>5. SenderOK'
    BY ThreadTypes, HomeLabel, AcceptTyped, DistinctThreads DEF TypeOK, SenderOK, WorkType, Labels, Send, DisconnectSlow, StartRemove, Goto, Finish
<1> QED
    BY <1>1, <1>2, <1>3, <1>4, <1>5 DEF TypeOK, Send, Finish, RegistryType, ConfigType, EchoType, StatusType, WireType, EnvType

LEMMA SerialLoopType ==
    ASSUME TypeOK, LocalsOK, SenderOK, SerialLoop
    PROVE  TypeOK' /\ LocalsOK' /\ SenderOK'
<1>1. WorkType'
    BY ThreadTypes DEF TypeOK, WorkType, Labels, SerialLoop, Goto
<1>2. LocalsOK'
    BY ThreadTypes DEF TypeOK, LocalsOK, WorkType, CallType, SerialLoop, Goto
<1>3. SenderOK'
    BY ThreadTypes, DistinctThreads DEF TypeOK, SenderOK, WorkType, Labels, SerialLoop, Goto
<1> QED
    BY <1>1, <1>2, <1>3 DEF TypeOK, SerialLoop, RegistryType, QueueType, ConfigType, EchoType, StatusType, CallType, WireType, EnvType

LEMMA SerialErrorType ==
    ASSUME TypeOK, LocalsOK, SenderOK, SerialError
    PROVE  TypeOK' /\ LocalsOK' /\ SenderOK'
<1>1. WorkType'
    BY ThreadTypes DEF TypeOK, WorkType, Labels, SerialError, Goto
<1>2. LocalsOK'
    BY ThreadTypes DEF TypeOK, LocalsOK, WorkType, CallType, SerialError, Goto
<1>3. SenderOK'
    BY ThreadTypes, DistinctThreads DEF TypeOK, SenderOK, WorkType, Labels, SerialError, Goto
<1> QED
    BY <1>1, <1>2, <1>3 DEF TypeOK, SerialError, RegistryType, QueueType, ConfigType, EchoType, StatusType, CallType, WireType, EnvType

LEMMA SerialGlitchType ==
    ASSUME TypeOK, LocalsOK, SenderOK, SerialGlitch
    PROVE  TypeOK' /\ LocalsOK' /\ SenderOK'
<1>1. WorkType'
    BY ThreadTypes DEF TypeOK, WorkType, Labels, SerialGlitch, Goto, Spend
<1>2. WireType'
    BY ThreadTypes DEF TypeOK, WireType, SerialGlitch, Goto, Spend
<1>3. EnvType'
    BY SpendTyped, EventTypes DEF TypeOK, EnvType, SerialGlitch
<1>4. LocalsOK'
    BY ThreadTypes DEF TypeOK, LocalsOK, WorkType, CallType, SerialGlitch, Goto, Spend
<1>5. SenderOK'
    BY ThreadTypes, DistinctThreads DEF TypeOK, SenderOK, WorkType, Labels, SerialGlitch, Goto, Spend
<1> QED
    BY <1>1, <1>2, <1>3, <1>4, <1>5 DEF TypeOK, SerialGlitch, Spend, RegistryType, QueueType, ConfigType, EchoType, StatusType, CallType

LEMMA SerialConfigType ==
    ASSUME TypeOK, LocalsOK, SenderOK, SerialConfig
    PROVE  TypeOK' /\ LocalsOK' /\ SenderOK'
<1>a. /\ Head(fromRadio) \in CfgFrames /\ Head(fromRadio).slot \in Slots
      /\ Head(fromRadio).ver \in Nat
    BY HeadTyped, FrameKinds DEF TypeOK, SerialConfig, ReadFrame
<1>1. ConfigType'
    BY <1>a DEF TypeOK, ConfigType, SerialConfig
<1>2. WorkType'
    BY <1>a, ThreadTypes DEF TypeOK, WorkType, Labels, SerialConfig, Goto, ToClient
<1>3. WireType'
    BY ThreadTypes, HeadTyped DEF TypeOK, WireType, SerialConfig, ReadFrame, Goto
<1>4. LocalsOK'
    BY <1>a, ThreadTypes DEF TypeOK, WorkType, LocalsOK, SerialConfig, Goto, ToClient
<1>5. SenderOK'
    BY ThreadTypes, HeadTyped, DistinctThreads DEF TypeOK, SenderOK, WorkType, Labels, SerialConfig, ReadFrame, Goto
<1> QED
    BY <1>1, <1>2, <1>3, <1>4, <1>5 DEF TypeOK, SerialConfig, ReadFrame, RegistryType, QueueType, EchoType, StatusType, CallType, EnvType

LEMMA SerialCompleteType ==
    ASSUME TypeOK, LocalsOK, SenderOK, SerialComplete
    PROVE  TypeOK' /\ LocalsOK' /\ SenderOK'
<1>n. PICK n \in Nonces : n = Head(fromRadio).nonce
    BY HeadTyped, FrameKinds DEF TypeOK, SerialComplete, ReadFrame
<1>r. PICK r \in Requests \cup {NoReq} : r = pendingConfig[n]
    BY DEF TypeOK, ConfigType
<1>a. r.client # Nil => r.client \in Clients /\ r.id \in RequestIds
    BY DEF Requests, NoReq
<1>b. r.client # Nil => DoneFrame(r.id, "radio") \in ToClient
    BY <1>a, FrameTypes DEF ToClient
<1>c. \/ Goto(Serial, "loop") /\ UNCHANGED <<frm, todo>> /\ (UNCHANGED callVars \/ StartPublish(Serial))
      \/ /\ r.client # Nil
         /\ frm' = [frm EXCEPT ![Serial] = DoneFrame(r.id, "radio")]
         /\ todo' = [todo EXCEPT ![Serial] = {r.client}]
         /\ Goto(Serial, "send") /\ UNCHANGED callVars
    BY <1>n, <1>r DEF SerialComplete, Addressee
<1>1. ConfigType'
    BY ThreadTypes, HeadTyped, FrameTypes DEF TypeOK, ConfigType, SerialComplete, ReadFrame, TakeRequest, StartPublish, Goto
<1>2. WorkType'
    BY <1>a, <1>b, <1>c, ThreadTypes DEF TypeOK, WorkType, Labels, SerialComplete, Goto
<1>3. CallType'
    BY <1>c, ThreadTypes DEF TypeOK, CallType, CallSteps, StartPublish
<1>4. WireType'
    BY ThreadTypes, HeadTyped, FrameTypes DEF TypeOK, WireType, SerialComplete, ReadFrame, TakeRequest, StartPublish, Goto
<1>5. LocalsOK'
    BY <1>b, <1>c, ThreadTypes DEF TypeOK, WorkType, CallType, LocalsOK, SerialComplete, StartPublish, Goto
<1>6. SenderOK'
    BY ThreadTypes, HeadTyped, FrameTypes, DistinctThreads DEF TypeOK, SenderOK, WorkType, Labels, SerialComplete, ReadFrame, TakeRequest, StartPublish, Goto
<1> QED
    BY <1>1, <1>2, <1>3, <1>4, <1>5, <1>6 DEF TypeOK, SerialComplete, ReadFrame, RegistryType, QueueType, EchoType, StatusType, EnvType

LEMMA SerialRebootedType ==
    ASSUME TypeOK, LocalsOK, SenderOK, SerialRebooted
    PROVE  TypeOK' /\ LocalsOK' /\ SenderOK'
<1>1. ConfigType'
    BY ThreadTypes, HeadTyped DEF TypeOK, ConfigType, SerialRebooted, ReadFrame, ResetCache, NoCache, Goto
<1>2. WorkType'
    BY ThreadTypes, HeadTyped DEF TypeOK, WorkType, Labels, SerialRebooted, ReadFrame, ResetCache, NoCache, Goto
<1>3. WireType'
    BY ThreadTypes, HeadTyped DEF TypeOK, WireType, SerialRebooted, ReadFrame, ResetCache, NoCache, Goto
<1>4. LocalsOK'
    BY ThreadTypes, HeadTyped DEF TypeOK, LocalsOK, WorkType, CallType, SerialRebooted, ReadFrame, ResetCache, NoCache, Goto
<1>5. SenderOK'
    BY ThreadTypes, HeadTyped, DistinctThreads DEF TypeOK, SenderOK, WorkType, Labels, SerialRebooted, ReadFrame, ResetCache, NoCache, Goto
<1> QED
    BY <1>1, <1>2, <1>3, <1>4, <1>5 DEF TypeOK, SerialRebooted, ReadFrame, RegistryType, QueueType, EchoType, StatusType, CallType, EnvType

LEMMA SwapPendingType ==
    ASSUME TypeOK, LocalsOK, SenderOK, SwapPending
    PROVE  TypeOK' /\ LocalsOK' /\ SenderOK'
<1>1. ConfigType'
    BY ThreadTypes DEF TypeOK, ConfigType, SwapPending, Goto
<1>2. WorkType'
    BY ThreadTypes DEF TypeOK, WorkType, Labels, SwapPending, ConfigType, Goto
<1>3. LocalsOK'
    BY ThreadTypes DEF TypeOK, LocalsOK, WorkType, CallType, SwapPending, ConfigType, Goto
<1>4. SenderOK'
    BY ThreadTypes, DistinctThreads DEF TypeOK, SenderOK, WorkType, Labels, SwapPending, ConfigType, Goto
<1> QED
    BY <1>1, <1>2, <1>3, <1>4 DEF TypeOK, SwapPending, RegistryType, QueueType, EchoType, StatusType, CallType, WireType, EnvType

LEMMA ReissueType ==
    ASSUME TypeOK, LocalsOK, SenderOK, NEW n \in Nonces, Reissue(n)
    PROVE  TypeOK' /\ LocalsOK' /\ SenderOK'
<1>1. WorkType'
    BY ThreadTypes DEF TypeOK, WorkType, Labels, Reissue, Goto
<1>2. LocalsOK'
    BY ThreadTypes DEF TypeOK, LocalsOK, WorkType, CallType, Reissue, Goto
<1>3. SenderOK'
    BY ThreadTypes, DistinctThreads DEF TypeOK, SenderOK, WorkType, Labels, Reissue, Goto
<1> QED
    BY <1>1, <1>2, <1>3 DEF TypeOK, Reissue, RegistryType, QueueType, ConfigType, EchoType, StatusType, CallType, WireType, EnvType

LEMMA ReissueDoneType ==
    ASSUME TypeOK, LocalsOK, SenderOK, ReissueDone
    PROVE  TypeOK' /\ LocalsOK' /\ SenderOK'
<1>1. WorkType'
    BY ThreadTypes DEF TypeOK, WorkType, Labels, ReissueDone, Goto
<1>2. LocalsOK'
    BY ThreadTypes DEF TypeOK, LocalsOK, WorkType, CallType, ReissueDone, Goto
<1>3. SenderOK'
    BY ThreadTypes, DistinctThreads DEF TypeOK, SenderOK, WorkType, Labels, ReissueDone, Goto
<1> QED
    BY <1>1, <1>2, <1>3 DEF TypeOK, ReissueDone, RegistryType, QueueType, ConfigType, EchoType, StatusType, CallType, WireType, EnvType

LEMMA SerialPacketType ==
    ASSUME TypeOK, LocalsOK, SenderOK, SerialPacket
    PROVE  TypeOK' /\ LocalsOK' /\ SenderOK'
<1>a. Head(fromRadio) \in PktFrames /\ Head(fromRadio) \in ToClient
      /\ Head(fromRadio).pkt \in Packets
    BY HeadTyped, FrameKinds DEF TypeOK, SerialPacket, ReadFrame, ToClient
<1>p. PICK p \in Packets : p = Head(fromRadio).pkt
    BY <1>a
<1>b. Origin(p) # Nil => Origin(p) \in Clients
    BY DEF TypeOK, EchoType, Origin
<1>c. \/ /\ frm' = [frm EXCEPT ![Serial] = Head(fromRadio)]
         /\ Goto(Serial, "cast") /\ UNCHANGED todo
      \/ Goto(Serial, "loop") /\ UNCHANGED <<frm, todo>>
      \/ /\ Origin(p) # Nil
         /\ frm' = [frm EXCEPT ![Serial] = Head(fromRadio)]
         /\ todo' = [todo EXCEPT ![Serial] = {Origin(p)}]
         /\ Goto(Serial, "send")
    BY <1>p DEF SerialPacket
<1>1. EchoType'
    BY <1>p DEF TypeOK, EchoType, SerialPacket
<1>2. WorkType'
    BY <1>a, <1>b, <1>c, ThreadTypes DEF TypeOK, WorkType, Labels, SerialPacket, Goto
<1>3. WireType'
    BY ThreadTypes, HeadTyped DEF TypeOK, WireType, SerialPacket, ReadFrame, Goto, Origin
<1>4. LocalsOK'
    BY <1>a, <1>c, ThreadTypes DEF TypeOK, WorkType, LocalsOK, SerialPacket, Goto
<1>5. SenderOK'
    BY ThreadTypes, HeadTyped, DistinctThreads DEF TypeOK, SenderOK, WorkType, Labels, SerialPacket, ReadFrame, Goto, Origin
<1> QED
    BY <1>1, <1>2, <1>3, <1>4, <1>5 DEF TypeOK, SerialPacket, ReadFrame, RegistryType, QueueType, ConfigType, StatusType, CallType, EnvType

LEMMA ReadErrorType ==
    ASSUME TypeOK, LocalsOK, SenderOK, NEW c \in Clients, ReadError(c)
    PROVE  TypeOK' /\ LocalsOK' /\ SenderOK'
<1>1. WorkType'
    BY ThreadTypes DEF TypeOK, WorkType, Labels, ReadError, Goto, StartRemove, Spend
<1>2. CallType'
    BY ThreadTypes DEF TypeOK, CallType, CallSteps, ReadError, Goto, StartRemove, Spend
<1>3. EnvType'
    BY ThreadTypes DEF TypeOK, EnvType, ReadError, Goto, StartRemove, Spend
<1>4. LocalsOK'
    BY ThreadTypes DEF TypeOK, LocalsOK, WorkType, CallType, ReadError, Goto, StartRemove, Spend
<1>5. SenderOK'
    BY ThreadTypes, DistinctThreads DEF TypeOK, SenderOK, WorkType, Labels, ReadError, Goto, StartRemove, Spend
<1> QED
    BY <1>1, <1>2, <1>3, <1>4, <1>5 DEF TypeOK, ReadError, Spend, RegistryType, QueueType, ConfigType, EchoType, StatusType, WireType

LEMMA ReadWantType ==
    ASSUME TypeOK, LocalsOK, SenderOK, NEW c \in Clients, ReadWant(c)
    PROVE  TypeOK' /\ LocalsOK' /\ SenderOK'
<1>a. [client |-> c, id |-> NextId(c)] \in Requests /\ NextId(c) \in RequestIds
    BY DEF TypeOK, EnvType, NextId, Requests, RequestIds
<1>1. WorkType'
    BY <1>a, ThreadTypes DEF TypeOK, WorkType, Labels, ReadWant, Goto
<1>2. EnvType'
    BY MessageTyped DEF TypeOK, ReadWant
<1>3. LocalsOK'
    BY <1>a, ThreadTypes DEF TypeOK, WorkType, LocalsOK, ReadWant, Goto
<1>4. SenderOK'
    BY ThreadTypes, DistinctThreads DEF TypeOK, SenderOK, WorkType, Labels, ReadWant, Message, NextId, Goto, Spend, Requests, RequestIds
<1> QED
    BY <1>1, <1>2, <1>3, <1>4 DEF TypeOK, ReadWant, Message, Spend, RegistryType, QueueType, ConfigType, EchoType, StatusType, CallType, WireType

LEMMA DropOwnType ==
    ASSUME TypeOK, LocalsOK, SenderOK, NEW c \in Clients, DropOwn(c)
    PROVE  TypeOK' /\ LocalsOK' /\ SenderOK'
<1>1. ConfigType'
    BY ThreadTypes DEF TypeOK, ConfigType, DropOwn, DropPending, Goto
<1>2. WorkType'
    BY ThreadTypes DEF TypeOK, WorkType, Labels, DropOwn, DropPending, Goto
<1>3. LocalsOK'
    BY ThreadTypes DEF TypeOK, LocalsOK, WorkType, CallType, DropOwn, DropPending, Goto
<1>4. SenderOK'
    BY ThreadTypes, DistinctThreads DEF TypeOK, SenderOK, WorkType, Labels, DropOwn, DropPending, Goto
<1> QED
    BY <1>1, <1>2, <1>3, <1>4 DEF TypeOK, DropOwn, RegistryType, QueueType, EchoType, StatusType, CallType, WireType, EnvType

LEMMA ReadDisconnectType ==
    ASSUME TypeOK, LocalsOK, SenderOK, NEW c \in Clients, ReadDisconnect(c)
    PROVE  TypeOK' /\ LocalsOK' /\ SenderOK'
<1>1. CallType'
    BY ThreadTypes DEF TypeOK, CallType, CallSteps, ReadDisconnect, Message, StartRemove, Spend
<1>2. EnvType'
    BY MessageTyped DEF TypeOK, ReadDisconnect
<1>3. LocalsOK'
    BY ThreadTypes DEF TypeOK, LocalsOK, WorkType, CallType, ReadDisconnect, Message, StartRemove, Spend
<1>4. SenderOK'
    BY ThreadTypes, DistinctThreads DEF TypeOK, SenderOK, WorkType, Labels, ReadDisconnect, Message, StartRemove, Spend
<1> QED
    BY <1>1, <1>2, <1>3, <1>4 DEF TypeOK, ReadDisconnect, Message, Spend, RegistryType, QueueType, ConfigType, EchoType, StatusType, WorkType, WireType

LEMMA TrafficType ==
    ASSUME TypeOK, LocalsOK, SenderOK, NEW c \in Clients, NEW kind, NEW msg \in ToRadio, NEW allowed, msg.kind = "pkt" => msg.pkt.from = c, ReadTraffic(c, kind, msg, allowed)
    PROVE  TypeOK' /\ LocalsOK' /\ SenderOK'
<1>1. WorkType'
    BY ThreadTypes DEF TypeOK, WorkType, Labels, ReadTraffic, Message, Goto, Spend
<1>2. EnvType'
    BY MessageTyped DEF TypeOK, ReadTraffic
<1>3. LocalsOK'
    BY ThreadTypes DEF TypeOK, LocalsOK, WorkType, CallType, ReadTraffic, Message, Goto, Spend
<1>4. SenderOK'
    BY ThreadTypes, DistinctThreads DEF TypeOK, SenderOK, WorkType, Labels, ReadTraffic, Message, Goto, Spend
<1> QED
    BY <1>1, <1>2, <1>3, <1>4 DEF TypeOK, ReadTraffic, Message, Spend, RegistryType, QueueType, ConfigType, EchoType, StatusType, CallType, WireType

LEMMA NoteType ==
    ASSUME TypeOK, LocalsOK, SenderOK, NEW c \in Clients, Note(c)
    PROVE  TypeOK' /\ LocalsOK' /\ SenderOK'
<1>a. frm[Reader(c)] \in PktFrames /\ frm[Reader(c)].pkt \in Packets
    BY ThreadTypes, FrameKinds DEF LocalsOK, Note, At
<1>b. frm[Reader(c)].pkt.from = c
    BY <1>a, FrameKinds DEF SenderOK, Note, At
<1>1. EchoType'
    BY <1>a, <1>b DEF TypeOK, EchoType, Note
<1>2. WorkType'
    BY ThreadTypes DEF TypeOK, WorkType, Labels, Note, Goto, At
<1>3. LocalsOK'
    BY <1>a, ThreadTypes DEF TypeOK, WorkType, LocalsOK, Note, Goto, ToClient
<1>4. SenderOK'
    BY ThreadTypes, DistinctThreads DEF TypeOK, SenderOK, WorkType, Labels, Note, Goto, At
<1> QED
    BY <1>1, <1>2, <1>3, <1>4 DEF TypeOK, Note, RegistryType, QueueType, ConfigType, StatusType, CallType, WireType, EnvType

LEMMA SnapshotType ==
    ASSUME TypeOK, LocalsOK, SenderOK, NEW c \in Clients, Snapshot(c)
    PROVE  TypeOK' /\ LocalsOK' /\ SenderOK'
<1>1. WorkType'
    BY ThreadTypes DEF TypeOK, WorkType, Labels, Snapshot, Goto, ConfigType
<1>2. LocalsOK'
    BY ThreadTypes DEF TypeOK, WorkType, LocalsOK, Snapshot, Goto, At
<1>3. SenderOK'
    BY ThreadTypes, DistinctThreads DEF TypeOK, SenderOK, WorkType, Labels, Snapshot, Goto, ConfigType
<1> QED
    BY <1>1, <1>2, <1>3 DEF TypeOK, Snapshot, RegistryType, QueueType, ConfigType, EchoType, StatusType, CallType, WireType, EnvType

LEMMA ReplayType ==
    ASSUME TypeOK, LocalsOK, SenderOK, NEW c \in Clients, Replay(c)
    PROVE  TypeOK' /\ LocalsOK' /\ SenderOK'
<1>a. req[Reader(c)].id \in RequestIds
    BY ThreadTypes DEF LocalsOK, Replay, At
<1>b. snap[c] \in [Slots -> Nat]
    BY DEF TypeOK, WorkType
<1>c. \A s \in First(snap[c]) : s \in Slots /\ CfgFrame(s, snap[c][s]) \in ToClient
    BY <1>b, FrameTypes DEF First, Held, ToClient
<1>d. DoneFrame(req[Reader(c)].id, "cache") \in ToClient
    BY <1>a, FrameTypes DEF ToClient
<1>1. QueueType'
    <2>1. CASE UNCHANGED out
        BY <2>1 DEF TypeOK, QueueType, Replay
    <2>2. CASE HasRoom(c) /\ \E f \in ToClient : Accept(c, f)
        BY <2>2, AcceptTyped DEF TypeOK, Replay
    <2> QED
        BY <1>c, <1>d, <2>1, <2>2 DEF Replay
<1>2. WorkType'
    <2>1. snap' \in [Clients -> [Slots -> Nat]]
        BY <1>b, <1>c DEF TypeOK, WorkType, Replay, NoCache
    <2> QED
        BY <2>1, ThreadTypes, FinishTyped DEF TypeOK, WorkType, Replay
<1>3. CallType'
    BY ThreadTypes, HomeLabel, AcceptTyped, FrameTypes DEF TypeOK, CallType, CallSteps, Replay, Goto, Finish, DisconnectSlow, StartRemove, NoCache
<1>4. LocalsOK'
    BY ThreadTypes, HomeLabel, AcceptTyped, FrameTypes DEF TypeOK, LocalsOK, WorkType, CallType, Replay, Goto, Finish, DisconnectSlow, StartRemove, NoCache
<1>5. SenderOK'
    <2>1. CASE Finish(Reader(c))
        BY <2>1, ThreadTypes, FinishSender DEF TypeOK
    <2>2. CASE UNCHANGED <<pc, frm>>
        BY <2>2 DEF SenderOK
    <2> QED
        BY <2>1, <2>2 DEF Replay
<1> QED
    BY <1>1, <1>2, <1>3, <1>4, <1>5 DEF TypeOK, Replay, Finish, RegistryType, ConfigType, EchoType, StatusType, WireType, EnvType

LEMMA WriterStopsType ==
    ASSUME TypeOK, LocalsOK, SenderOK, NEW c \in Clients, WriterStops(c)
    PROVE  TypeOK' /\ LocalsOK' /\ SenderOK'
<1>1. WorkType'
    BY ThreadTypes DEF TypeOK, WorkType, Labels, WriterStops, Goto, StartRemove
<1>2. CallType'
    BY ThreadTypes DEF TypeOK, CallType, CallSteps, WriterStops, Goto, StartRemove
<1>3. LocalsOK'
    BY ThreadTypes DEF TypeOK, LocalsOK, WorkType, CallType, WriterStops, Goto, StartRemove
<1>4. SenderOK'
    BY ThreadTypes, DistinctThreads DEF TypeOK, SenderOK, WorkType, Labels, WriterStops, Goto, StartRemove
<1> QED
    BY <1>1, <1>2, <1>3, <1>4 DEF TypeOK, WriterStops, RegistryType, QueueType, ConfigType, EchoType, StatusType, WireType, EnvType

LEMMA WriterTakesType ==
    ASSUME TypeOK, LocalsOK, SenderOK, NEW c \in Clients, WriterTakes(c)
    PROVE  TypeOK' /\ LocalsOK' /\ SenderOK'
<1>1. QueueType'
    <2>1. \A d \in Clients : Len(out[d]) \in Nat /\ taken[d] \in Nat
        BY DEF TypeOK, QueueType
    <2>2. taken' \in [Clients -> Nat]
        BY <2>1 DEF TypeOK, QueueType, WriterTakes
    <2>3. ASSUME NEW d \in Clients
          PROVE  taken'[d] <= Len(out[d]) /\ Len(out[d]) <= taken'[d] + SendBuffer
        BY <2>1, BrokerAssumptions DEF TypeOK, QueueType, WriterTakes
    <2> QED
        BY <2>2, <2>3 DEF TypeOK, QueueType, WriterTakes
<1>2. WorkType'
    BY ThreadTypes DEF TypeOK, WorkType, Labels, WriterTakes, Goto
<1>3. LocalsOK'
    BY ThreadTypes DEF TypeOK, LocalsOK, WorkType, CallType, WriterTakes, Goto
<1>4. SenderOK'
    BY ThreadTypes, DistinctThreads DEF TypeOK, SenderOK, WorkType, Labels, WriterTakes, Goto
<1> QED
    BY <1>1, <1>2, <1>3, <1>4 DEF TypeOK, WriterTakes, RegistryType, ConfigType, EchoType, StatusType, CallType, WireType, EnvType

LEMMA WriterWroteType ==
    ASSUME TypeOK, LocalsOK, SenderOK, NEW c \in Clients, WriterWrote(c)
    PROVE  TypeOK' /\ LocalsOK' /\ SenderOK'
<1>1. WorkType'
    BY ThreadTypes DEF TypeOK, WorkType, Labels, WriterWrote, Goto, Spend
<1>2. EnvType'
    BY SpendTyped, EventTypes DEF TypeOK, EnvType, WriterWrote
<1>3. LocalsOK'
    BY ThreadTypes DEF TypeOK, LocalsOK, WorkType, CallType, WriterWrote, Goto, Spend
<1>4. SenderOK'
    BY ThreadTypes, DistinctThreads DEF TypeOK, SenderOK, WorkType, Labels, WriterWrote, Goto, Spend
<1> QED
    BY <1>1, <1>2, <1>3, <1>4 DEF TypeOK, WriterWrote, Spend, RegistryType, QueueType, ConfigType, EchoType, StatusType, CallType, WireType

LEMMA WriterFailsType ==
    ASSUME TypeOK, LocalsOK, SenderOK, NEW c \in Clients, WriterFails(c)
    PROVE  TypeOK' /\ LocalsOK' /\ SenderOK'
<1>1. WorkType'
    BY ThreadTypes DEF TypeOK, WorkType, Labels, WriterFails, Goto, StartRemove, Spend
<1>2. CallType'
    BY ThreadTypes DEF TypeOK, CallType, CallSteps, WriterFails, Goto, StartRemove, Spend
<1>3. EnvType'
    BY ThreadTypes DEF TypeOK, EnvType, WriterFails, Goto, StartRemove, Spend
<1>4. LocalsOK'
    BY ThreadTypes DEF TypeOK, LocalsOK, WorkType, CallType, WriterFails, Goto, StartRemove, Spend
<1>5. SenderOK'
    BY ThreadTypes, DistinctThreads DEF TypeOK, SenderOK, WorkType, Labels, WriterFails, Goto, StartRemove, Spend
<1> QED
    BY <1>1, <1>2, <1>3, <1>4, <1>5 DEF TypeOK, WriterFails, Spend, RegistryType, QueueType, ConfigType, EchoType, StatusType, WireType

LEMMA BootStartType ==
    ASSUME TypeOK, LocalsOK, SenderOK, BootStart
    PROVE  TypeOK' /\ LocalsOK' /\ SenderOK'
<1>1. WorkType'
    BY ThreadTypes DEF TypeOK, WorkType, Labels, BootStart, Goto
<1>2. LocalsOK'
    BY ThreadTypes DEF TypeOK, LocalsOK, WorkType, CallType, BootStart, Goto
<1>3. SenderOK'
    BY ThreadTypes, DistinctThreads DEF TypeOK, SenderOK, WorkType, Labels, BootStart, Goto
<1> QED
    BY <1>1, <1>2, <1>3 DEF TypeOK, BootStart, RegistryType, QueueType, ConfigType, EchoType, StatusType, CallType, WireType, EnvType

LEMMA BootScanType ==
    ASSUME TypeOK, LocalsOK, SenderOK, BootScan
    PROVE  TypeOK' /\ LocalsOK' /\ SenderOK'
<1>1. WorkType'
    BY ThreadTypes DEF TypeOK, WorkType, Labels, BootScan, Goto, Requests
<1>2. LocalsOK'
    BY ThreadTypes DEF TypeOK, LocalsOK, WorkType, CallType, BootScan, Goto, Requests
<1>3. SenderOK'
    BY ThreadTypes, DistinctThreads DEF TypeOK, SenderOK, WorkType, Labels, BootScan, Goto, Requests
<1> QED
    BY <1>1, <1>2, <1>3 DEF TypeOK, BootScan, RegistryType, QueueType, ConfigType, EchoType, StatusType, CallType, WireType, EnvType

LEMMA WebSendType ==
    ASSUME TypeOK, LocalsOK, SenderOK, WebSend
    PROVE  TypeOK' /\ LocalsOK' /\ SenderOK'
<1>a. PktFrame([from |-> "web", seq |-> used["web"] + 1, port |-> "chat"], "echo") \in ToRadio
    <2>1. used["web"] \in Nat
        BY EventTypes DEF TypeOK, EnvType
    <2> QED
        BY <2>1, FrameTypes DEF Packets, PortKinds, ToRadio
<1>1. WorkType'
    BY <1>a, ThreadTypes DEF TypeOK, WorkType, Labels, WebSend, Goto
<1>2. EnvType'
    BY SpendTyped, EventTypes DEF TypeOK, EnvType, WebSend
<1>3. LocalsOK'
    BY <1>a, ThreadTypes DEF TypeOK, WorkType, LocalsOK, WebSend, Goto
<1>4. SenderOK'
    BY ThreadTypes, FrameTypes, DistinctThreads DEF TypeOK, SenderOK, WorkType, Labels, WebSend, Goto, Spend
<1> QED
    BY <1>1, <1>2, <1>3, <1>4 DEF TypeOK, WebSend, Spend, RegistryType, QueueType, ConfigType, EchoType, StatusType, CallType, WireType

LEMMA RunReturnsType ==
    ASSUME TypeOK, LocalsOK, SenderOK, RunReturns
    PROVE  TypeOK' /\ LocalsOK' /\ SenderOK'
<1>1. WorkType'
    BY ThreadTypes DEF TypeOK, WorkType, Labels, RunReturns, Goto
<1>2. StatusType'
    BY ThreadTypes DEF TypeOK, StatusType, RunReturns, Goto
<1>3. LocalsOK'
    BY ThreadTypes DEF TypeOK, LocalsOK, WorkType, CallType, RunReturns, Goto
<1>4. SenderOK'
    BY ThreadTypes, DistinctThreads DEF TypeOK, SenderOK, WorkType, Labels, RunReturns, Goto
<1> QED
    BY <1>1, <1>2, <1>3, <1>4 DEF TypeOK, RunReturns, RegistryType, QueueType, ConfigType, EchoType, CallType, WireType, EnvType

LEMMA AcceptConnType ==
    ASSUME TypeOK, LocalsOK, SenderOK, NEW c \in Clients, AcceptConn(c)
    PROVE  TypeOK' /\ LocalsOK' /\ SenderOK'
<1>1. WorkType'
    BY ThreadTypes DEF TypeOK, WorkType, Labels, AcceptConn, Goto
<1>2. LocalsOK'
    BY ThreadTypes DEF TypeOK, LocalsOK, WorkType, CallType, AcceptConn, Goto
<1>3. SenderOK'
    BY ThreadTypes, DistinctThreads DEF TypeOK, SenderOK, WorkType, Labels, AcceptConn, Goto
<1> QED
    BY <1>1, <1>2, <1>3 DEF TypeOK, AcceptConn, RegistryType, QueueType, ConfigType, EchoType, StatusType, CallType, WireType, EnvType

LEMMA AddClientType ==
    ASSUME TypeOK, LocalsOK, SenderOK, NEW c \in Clients, AddClient(c)
    PROVE  TypeOK' /\ LocalsOK' /\ SenderOK'
<1>1. RegistryType'
    BY ThreadTypes DEF TypeOK, RegistryType, AddClient, NewPrimary, StartPublish
<1>2. WorkType'
    BY ThreadTypes DEF TypeOK, WorkType, Labels, AddClient, NewPrimary, StartPublish
<1>3. CallType'
    BY ThreadTypes DEF TypeOK, CallType, CallSteps, AddClient, NewPrimary, StartPublish
<1>4. LocalsOK'
    BY ThreadTypes DEF TypeOK, LocalsOK, WorkType, CallType, AddClient, NewPrimary, StartPublish
<1>5. SenderOK'
    BY ThreadTypes, DistinctThreads DEF TypeOK, SenderOK, WorkType, Labels, AddClient, NewPrimary, StartPublish
<1> QED
    BY <1>1, <1>2, <1>3, <1>4, <1>5 DEF TypeOK, AddClient, QueueType, ConfigType, EchoType, StatusType, WireType, EnvType

LEMMA ServerWakesType ==
    ASSUME TypeOK, LocalsOK, SenderOK, ServerWakes
    PROVE  TypeOK' /\ LocalsOK' /\ SenderOK'
<1>1. WorkType'
    BY ThreadTypes DEF TypeOK, WorkType, Labels, ServerWakes, Goto, Spend
<1>2. EnvType'
    BY ThreadTypes DEF TypeOK, EnvType, ServerWakes, Goto, Spend
<1>3. LocalsOK'
    BY ThreadTypes DEF TypeOK, LocalsOK, WorkType, CallType, ServerWakes, Goto, Spend
<1>4. SenderOK'
    BY ThreadTypes, DistinctThreads DEF TypeOK, SenderOK, WorkType, Labels, ServerWakes, Goto, Spend
<1> QED
    BY <1>1, <1>2, <1>3, <1>4 DEF TypeOK, ServerWakes, Spend, RegistryType, QueueType, ConfigType, EchoType, StatusType, CallType, WireType

LEMMA ServerStatusType ==
    ASSUME TypeOK, LocalsOK, SenderOK, ServerStatus
    PROVE  TypeOK' /\ LocalsOK' /\ SenderOK'
<1>1. WorkType'
    BY ThreadTypes DEF TypeOK, WorkType, Labels, ServerStatus, Goto, NoStat, Statuses
<1>2. StatusType'
    BY ThreadTypes DEF TypeOK, StatusType, ServerStatus, Goto, NoStat, Statuses
<1>3. LocalsOK'
    BY ThreadTypes DEF TypeOK, LocalsOK, WorkType, CallType, ServerStatus, Goto, NoStat, Statuses
<1>4. SenderOK'
    BY ThreadTypes, DistinctThreads DEF TypeOK, SenderOK, WorkType, Labels, ServerStatus, Goto, NoStat, Statuses
<1> QED
    BY <1>1, <1>2, <1>3, <1>4 DEF TypeOK, ServerStatus, RegistryType, QueueType, ConfigType, EchoType, CallType, WireType, EnvType

LEMMA ListClientsType ==
    ASSUME TypeOK, LocalsOK, SenderOK, ListClients
    PROVE  TypeOK' /\ LocalsOK' /\ SenderOK'
<1>1. WorkType'
    BY ThreadTypes DEF TypeOK, WorkType, Labels, ListClients, Goto, RegistryType
<1>2. LocalsOK'
    BY ThreadTypes DEF TypeOK, LocalsOK, WorkType, CallType, ListClients, Goto, RegistryType
<1>3. SenderOK'
    BY ThreadTypes, DistinctThreads DEF TypeOK, SenderOK, WorkType, Labels, ListClients, Goto, RegistryType
<1> QED
    BY <1>1, <1>2, <1>3 DEF TypeOK, ListClients, RegistryType, QueueType, ConfigType, EchoType, StatusType, CallType, WireType, EnvType

LEMMA RemoveListedType ==
    ASSUME TypeOK, LocalsOK, SenderOK, NEW c \in Clients, RemoveListed(c)
    PROVE  TypeOK' /\ LocalsOK' /\ SenderOK'
<1>1. WorkType'
    BY ThreadTypes DEF TypeOK, WorkType, Labels, RemoveListed, StartRemove
<1>2. CallType'
    BY ThreadTypes DEF TypeOK, CallType, CallSteps, RemoveListed, StartRemove
<1>3. LocalsOK'
    BY ThreadTypes DEF TypeOK, LocalsOK, WorkType, CallType, RemoveListed, StartRemove
<1>4. SenderOK'
    BY ThreadTypes, DistinctThreads DEF TypeOK, SenderOK, WorkType, Labels, RemoveListed, StartRemove
<1> QED
    BY <1>1, <1>2, <1>3, <1>4 DEF TypeOK, RemoveListed, RegistryType, QueueType, ConfigType, EchoType, StatusType, WireType, EnvType

LEMMA CloseSerialType ==
    ASSUME TypeOK, LocalsOK, SenderOK, CloseSerial
    PROVE  TypeOK' /\ LocalsOK' /\ SenderOK'
<1>1. WorkType'
    BY ThreadTypes DEF TypeOK, WorkType, Labels, CloseSerial, Goto
<1>2. WireType'
    BY ThreadTypes DEF TypeOK, WireType, CloseSerial, Goto
<1>3. LocalsOK'
    BY ThreadTypes DEF TypeOK, LocalsOK, WorkType, CallType, CloseSerial, Goto
<1>4. SenderOK'
    BY ThreadTypes, DistinctThreads DEF TypeOK, SenderOK, WorkType, Labels, CloseSerial, Goto
<1> QED
    BY <1>1, <1>2, <1>3, <1>4 DEF TypeOK, CloseSerial, RegistryType, QueueType, ConfigType, EchoType, StatusType, CallType, EnvType

LEMMA RadioAnswersType ==
    ASSUME TypeOK, LocalsOK, SenderOK, RadioAnswers
    PROVE  TypeOK' /\ LocalsOK' /\ SenderOK'
<1>a. Head(toRadio) \in ToRadio /\ Tail(toRadio) \in Seq(ToRadio)
    BY DEF TypeOK, WireType, RadioAnswers
<1>b. Head(toRadio).kind = "want" => Complete(Head(toRadio).nonce) \in FromRadio
    BY <1>a, FrameKinds, FrameTypes DEF ToRadio, FromRadio
<1>c. Head(toRadio).kind = "pkt" => PktFrame(Head(toRadio).pkt, "radio") \in FromRadio
    BY <1>a, FrameKinds, FrameTypes DEF ToRadio, FromRadio
<1>d. Dump \in Seq(FromRadio)
    BY DumpTyped DEF TypeOK
<1>1. WireType'
    <2>1. CASE Head(toRadio).kind = "want" /\ fromRadio' = fromRadio \o Append(Dump, Complete(Head(toRadio).nonce))
        <3>1. Append(Dump, Complete(Head(toRadio).nonce)) \in Seq(FromRadio)
            BY <2>1, <1>b, <1>d
        <3> QED
            BY <2>1, <3>1, <1>a DEF TypeOK, WireType, RadioAnswers
    <2>2. CASE Head(toRadio).kind = "pkt" /\ fromRadio' = Append(fromRadio, PktFrame(Head(toRadio).pkt, "radio"))
        BY <2>2, <1>a, <1>c DEF TypeOK, WireType, RadioAnswers
    <2>3. CASE UNCHANGED fromRadio
        BY <2>3, <1>a DEF TypeOK, WireType, RadioAnswers
    <2> QED
        BY <2>1, <2>2, <2>3 DEF RadioAnswers
<1>2. LocalsOK'
    BY ThreadTypes, DumpTyped, FrameTypes DEF TypeOK, LocalsOK, WorkType, CallType, RadioAnswers
<1>3. SenderOK'
    BY ThreadTypes, DumpTyped, FrameTypes, DistinctThreads DEF TypeOK, SenderOK, WorkType, Labels, RadioAnswers
<1> QED
    BY <1>1, <1>2, <1>3 DEF TypeOK, RadioAnswers, RegistryType, QueueType, ConfigType, EchoType, StatusType, WorkType, CallType, EnvType

LEMMA RadioUpdatesType ==
    ASSUME TypeOK, LocalsOK, SenderOK, NEW s \in Slots, RadioUpdates(s)
    PROVE  TypeOK' /\ LocalsOK' /\ SenderOK'
<1>1. WireType'
    <2>1. radioCfg[s] + 1 \in Nat /\ CfgFrame(s, radioCfg[s] + 1) \in FromRadio
        BY FrameTypes DEF TypeOK, WireType, FromRadio
    <2> QED
        BY <2>1 DEF TypeOK, WireType, RadioUpdates
<1>2. EnvType'
    BY SpendTyped, EventTypes DEF TypeOK, EnvType, RadioUpdates
<1>3. LocalsOK'
    BY ThreadTypes, FrameTypes DEF TypeOK, LocalsOK, WorkType, CallType, RadioUpdates, Spend
<1>4. SenderOK'
    BY ThreadTypes, FrameTypes, DistinctThreads DEF TypeOK, SenderOK, WorkType, Labels, RadioUpdates, Spend
<1> QED
    BY <1>1, <1>2, <1>3, <1>4 DEF TypeOK, RadioUpdates, Spend, RegistryType, QueueType, ConfigType, EchoType, StatusType, WorkType, CallType

LEMMA RadioHearsType ==
    ASSUME TypeOK, LocalsOK, SenderOK, RadioHears
    PROVE  TypeOK' /\ LocalsOK' /\ SenderOK'
<1>1. WireType'
    <2>1. used["mesh"] \in Nat
        BY EventTypes DEF TypeOK, EnvType
    <2>2. PktFrame([from |-> "mesh", seq |-> used["mesh"] + 1, port |-> "rpc"], "radio") \in FromRadio
        BY <2>1, FrameTypes DEF Packets, PortKinds, FromRadio
    <2> QED
        BY <2>2 DEF TypeOK, WireType, RadioHears
<1>2. EnvType'
    BY SpendTyped, EventTypes DEF TypeOK, EnvType, RadioHears
<1>3. LocalsOK'
    BY ThreadTypes, FrameTypes DEF TypeOK, LocalsOK, WorkType, CallType, RadioHears, Spend
<1>4. SenderOK'
    BY ThreadTypes, FrameTypes, DistinctThreads DEF TypeOK, SenderOK, WorkType, Labels, RadioHears, Spend
<1> QED
    BY <1>1, <1>2, <1>3, <1>4 DEF TypeOK, RadioHears, Spend, RegistryType, QueueType, ConfigType, EchoType, StatusType, WorkType, CallType

LEMMA RadioRebootsType ==
    ASSUME TypeOK, LocalsOK, SenderOK, RadioReboots
    PROVE  TypeOK' /\ LocalsOK' /\ SenderOK'
<1>1. WireType'
    <2>1. PICK k \in 0..Len(fromRadio), m \in 0..Len(toRadio) :
              /\ fromRadio' = Append(SubSeq(fromRadio, 1, k), Rebooted)
              /\ toRadio' = SubSeq(toRadio, m + 1, Len(toRadio))
        BY DEF RadioReboots
    <2>2. SubSeq(fromRadio, 1, k) \in Seq(FromRadio) /\ SubSeq(toRadio, m + 1, Len(toRadio)) \in Seq(ToRadio)
        BY <2>1 DEF TypeOK, WireType
    <2>3. Rebooted \in FromRadio
        BY DEF FromRadio
    <2> QED
        BY <2>1, <2>2, <2>3 DEF TypeOK, WireType, RadioReboots
<1>2. EnvType'
    BY SpendTyped, EventTypes DEF TypeOK, EnvType, RadioReboots
<1>3. LocalsOK'
    BY ThreadTypes DEF TypeOK, LocalsOK, WorkType, CallType, RadioReboots, Spend
<1>4. SenderOK'
    BY ThreadTypes, DistinctThreads DEF TypeOK, SenderOK, WorkType, Labels, RadioReboots, Spend
<1> QED
    BY <1>1, <1>2, <1>3, <1>4 DEF TypeOK, RadioReboots, Spend, RegistryType, QueueType, ConfigType, EchoType, StatusType, WorkType, CallType

LEMMA LinkFailsType ==
    ASSUME TypeOK, LocalsOK, SenderOK, LinkFails
    PROVE  TypeOK' /\ LocalsOK' /\ SenderOK'
<1>1. WireType'
    BY ThreadTypes DEF TypeOK, WireType, LinkFails, Spend
<1>2. EnvType'
    BY SpendTyped, EventTypes DEF TypeOK, EnvType, LinkFails
<1>3. LocalsOK'
    BY ThreadTypes DEF TypeOK, LocalsOK, WorkType, CallType, LinkFails, Spend
<1>4. SenderOK'
    BY ThreadTypes, DistinctThreads DEF TypeOK, SenderOK, WorkType, Labels, LinkFails, Spend
<1> QED
    BY <1>1, <1>2, <1>3, <1>4 DEF TypeOK, LinkFails, Spend, RegistryType, QueueType, ConfigType, EchoType, StatusType, WorkType, CallType

LEMMA CancelType ==
    ASSUME TypeOK, LocalsOK, SenderOK, Cancel
    PROVE  TypeOK' /\ LocalsOK' /\ SenderOK'
<1>1. EnvType'
    <2>1. cancelled' \in BOOLEAN
        BY Zenon DEF Cancel
    <2> QED
        BY <2>1, SpendTyped, EventTypes DEF TypeOK, EnvType, Cancel
<1>2. LocalsOK'
    BY ThreadTypes DEF TypeOK, LocalsOK, WorkType, CallType, Cancel, Spend
<1>3. SenderOK'
    BY ThreadTypes, DistinctThreads DEF TypeOK, SenderOK, WorkType, Labels, Cancel, Spend
<1> QED
    BY <1>1, <1>2, <1>3 DEF TypeOK, Cancel, Spend, RegistryType, QueueType, ConfigType, EchoType, StatusType, WorkType, CallType, WireType

LEMMA OutboundExpiresType ==
    ASSUME TypeOK, LocalsOK, SenderOK, NEW p \in outbound, OutboundExpires(p)
    PROVE  TypeOK' /\ LocalsOK' /\ SenderOK'
<1>1. EchoType'
    BY ThreadTypes DEF TypeOK, EchoType, OutboundExpires, Spend
<1>2. EnvType'
    BY SpendTyped, EventTypes DEF TypeOK, EnvType, OutboundExpires
<1>3. LocalsOK'
    BY ThreadTypes DEF TypeOK, LocalsOK, WorkType, CallType, OutboundExpires, Spend
<1>4. SenderOK'
    BY ThreadTypes, DistinctThreads DEF TypeOK, SenderOK, WorkType, Labels, OutboundExpires, Spend
<1> QED
    BY <1>1, <1>2, <1>3, <1>4 DEF TypeOK, OutboundExpires, Spend, RegistryType, QueueType, ConfigType, StatusType, WorkType, CallType, WireType

\* The three kinds of messages a reader may forward.
LEMMA ReadPacketType ==
    ASSUME TypeOK, LocalsOK, SenderOK, NEW c \in Clients,
           ReadPacket(c) \/ ReadOther(c) \/ ReadRaw(c)
    PROVE  TypeOK' /\ LocalsOK' /\ SenderOK'
<1>1. CASE ReadPacket(c)
    <2> DEFINE pkt(port) == [from |-> c, seq |-> asked[c] + 1, port |-> port]
    <2>1. PICK port \in Ports :
              ReadTraffic(c, "packet", PktFrame(pkt(port), "echo"), MayTransmit(c))
        BY <1>1 DEF ReadPacket
    <2>2. pkt(port) \in Packets
        BY BrokerAssumptions DEF TypeOK, EnvType, Packets
    <2>3. PktFrame(pkt(port), "echo") \in ToRadio
        BY <2>2, FrameTypes DEF ToRadio
    <2>4. PktFrame(pkt(port), "echo").pkt.from = c
        BY DEF PktFrame
    <2> HIDE DEF pkt
    <2> QED
        BY <2>1, <2>3, <2>4, TrafficType
<1>2. CASE ReadOther(c) \/ ReadRaw(c)
    <2>1. OtherMsg \in ToRadio /\ OtherMsg.kind # "pkt"
        BY DEF ToRadio, OtherMsg
    <2> QED
        BY <1>2, <2>1, TrafficType DEF ReadOther, ReadRaw
<1> QED
    BY <1>1, <1>2

LEMMA NextType ==
    ASSUME TypeOK, LocalsOK, SenderOK, [Next]_vars
    PROVE  TypeOK' /\ LocalsOK' /\ SenderOK'
<1>1. ASSUME NEW t \in Threads, SharedStep(t)
      PROVE  TypeOK' /\ LocalsOK' /\ SenderOK'
    BY <1>1, UnlinkType, DropRemovedType, CloseType, ReadRegistryType, ReadCacheType,
       SetStatusType, ReserveType, ForwardType, WriteSerialType, CastType, SendType
    DEF SharedStep, CallStep
<1>2. CASE SerialStep \/ SerialGlitch
    BY <1>2, SerialLoopType, SerialErrorType, SerialGlitchType, SerialConfigType,
       SerialCompleteType, SerialRebootedType, SwapPendingType, ReissueType,
       ReissueDoneType, SerialPacketType
    DEF SerialStep
<1>3. ASSUME NEW c \in Clients, ClientInput(c) \/ ReaderStep(c) \/ ReadError(c)
      PROVE  TypeOK' /\ LocalsOK' /\ SenderOK'
    BY <1>3, ReadWantType, ReadDisconnectType, ReadPacketType, DropOwnType, NoteType,
       SnapshotType, ReplayType, ReadErrorType
    DEF ClientInput, ReaderStep
<1>4. ASSUME NEW c \in Clients, WriterStep(c) \/ WriterWrote(c) \/ WriterFails(c)
      PROVE  TypeOK' /\ LocalsOK' /\ SenderOK'
    BY <1>4, WriterStopsType, WriterTakesType, WriterWroteType, WriterFailsType
    DEF WriterStep
<1>5. CASE \/ BootStart \/ BootScan \/ WebSend \/ RunReturns \/ ServerStep \/ ServerWakes
           \/ \E c \in Clients : AcceptConn(c) \/ AddClient(c)
    BY <1>5, BootStartType, BootScanType, WebSendType, RunReturnsType, ServerWakesType,
       ServerStatusType, ListClientsType, RemoveListedType, CloseSerialType,
       AcceptConnType, AddClientType
    DEF ServerStep
<1>6. CASE \/ RadioAnswers \/ RadioHears \/ RadioReboots \/ LinkFails \/ Cancel
           \/ \E s \in Slots : RadioUpdates(s)
           \/ \E p \in outbound : OutboundExpires(p)
    BY <1>6, RadioAnswersType, RadioHearsType, RadioRebootsType, LinkFailsType, CancelType,
       RadioUpdatesType, OutboundExpiresType
<1>7. CASE UNCHANGED vars
    BY <1>7 DEF vars, TypeOK, LocalsOK, SenderOK, RegistryType, QueueType, ConfigType,
       EchoType, StatusType, WorkType, CallType, WireType, EnvType
<1> QED
    BY <1>1, <1>2, <1>3, <1>4, <1>5, <1>6, <1>7 DEF Next

\* The broker is type correct for any clients, nonces, slots, buffer size and
\* budgets: in particular a client's queue never exceeds clientSendBuffer.
THEOREM TypeCorrect == Spec => []TypeOK
<1> DEFINE Inv == TypeOK /\ LocalsOK /\ SenderOK
<1>1. Init => Inv
    BY InitType
<1>2. Inv /\ [Next]_vars => Inv'
    BY NextType
<1> QED
    BY <1>1, <1>2, PTL DEF Spec
=============================================================================
