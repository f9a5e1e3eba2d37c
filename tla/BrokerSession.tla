--------------------------- MODULE BrokerSession ---------------------------
(***************************************************************************)
(* What the supervisor, the status page and the radio's owner may rely on, *)
(* for every value of the constants: Broker implements Session, the status *)
(* shown is consistent, and with READ_ONLY_CLIENTS nobody but the primary  *)
(* has a packet on its way to the radio.  The status needs every copy that *)
(* PublishStatus is putting together to be consistent as well (StatOK).    *)
(* For the read-only rule, being allowed to transmit must be stable: the   *)
(* primary may be removed, but whoever inherits, it does not come back as  *)
(* an ordinary client, because a connection is added only once.            *)
(***************************************************************************)
EXTENDS BrokerRegistry

\* A status that names a primary exactly when it counts a client.
Consistent(s) == IF s.clients = {} THEN s.primary = Nil ELSE s.primary \in s.clients
StatOK == Consistent(hub) /\ \A t \in Threads : Consistent(stat[t])

\* Where a packet for the radio may come from: the web UI, or a connection that has
\* joined and is not an ordinary client now.
Allowed(x) == ReadOnlyClients =>
    x \in Joined \cup {"web"} /\ x \notin clients \ {primary}

\* Packets that writeSerial is about to write, and those on the line.
FrmOK == \A t \in Threads :
    pc[t] \in {"forward", "write"} /\ frm[t].kind = "pkt" => Allowed(frm[t].pkt.from)
WireOK == \A i \in 1..Len(toRadio) :
    toRadio[i].kind = "pkt" => Allowed(toRadio[i].pkt.from)

SessionInv == StatOK /\ FrmOK /\ WireOK

\* A step of the broker is a step of the abstract session, or none.
SessionStep == [Outside!Next]_(Outside!vars)

USE DEF registryVars, queueVars, configVars, echoVars, workVars, callVars, wireVars,
        envVars

-----------------------------------------------------------------------------
(* What a step leaves alone *)

\* Who was allowed to transmit still is.
Stable == \A x : Allowed(x) => Allowed(x)'

LEMMA GotoStable ==
    ASSUME TypeOK, NEW t \in Threads, NEW l, l # "off", Goto(t, l),
           UNCHANGED <<clients, primary>>
    PROVE  Stable
<1>1. Joined \subseteq Joined'
    BY ThreadTypes DEF TypeOK, WorkType, Goto, Joined
<1> QED
    BY <1>1 DEF Stable, Allowed

LEMMA StayStable == ASSUME UNCHANGED <<clients, primary, pc>> PROVE Stable
BY DEF Stable, Allowed, Joined

\* A goroutine that is not about to write does not matter.
LEMMA GotoStep ==
    ASSUME TypeOK, SessionInv, NEW t \in Threads, NEW l, Goto(t, l),
           l \notin {"off", "forward", "write"}, UNCHANGED <<clients, primary>>,
           \A u \in Threads \ {t} : frm'[u] = frm[u]
    PROVE  Stable /\ FrmOK'
<1>1. Stable
    BY GotoStable
<1>2. ASSUME NEW u \in Threads, pc'[u] \in {"forward", "write"}, frm'[u].kind = "pkt"
      PROVE  Allowed(frm[u].pkt.from) /\ frm'[u] = frm[u]
    BY <1>2 DEF TypeOK, WorkType, SessionInv, FrmOK, Goto
<1>3. ASSUME NEW u \in Threads, pc'[u] \in {"forward", "write"}, frm'[u].kind = "pkt"
      PROVE  Allowed(frm[u].pkt.from)'
    BY <1>1, <1>2, <1>3 DEF Stable
<1> QED
    BY <1>1, <1>2, <1>3 DEF FrmOK

LEMMA StayStep ==
    ASSUME TypeOK, SessionInv, UNCHANGED <<clients, primary, pc, frm>>
    PROVE  Stable /\ FrmOK'
BY StayStable DEF SessionInv, FrmOK, Stable

LEMMA FinishStep ==
    ASSUME TypeOK, SessionInv, NEW t \in Threads, Finish(t), UNCHANGED <<clients, primary>>
    PROVE  Stable /\ FrmOK'
<1>1. Home(t) \notin {"off", "forward", "write"}
    BY HomeLabel
<1>2. \A u \in Threads \ {t} : frm'[u] = frm[u]
    BY DEF TypeOK, WorkType, Finish
<1> QED
    BY <1>1, <1>2, GotoStep DEF Finish

\* The parts of the invariant that a step does not disturb.
LEMMA Kept ==
    ASSUME SessionInv, Stable
    PROVE  /\ UNCHANGED toRadio => WireOK'
           /\ UNCHANGED <<hub, stat>> => StatOK'
<1>1. UNCHANGED toRadio => WireOK'
    BY DEF SessionInv, WireOK, Stable
<1>2. UNCHANGED <<hub, stat>> => StatOK'
    BY DEF SessionInv, StatOK, Consistent
<1> QED
    BY <1>1, <1>2

\* A step the supervisor does not see.
LEMMA StayQuiet ==
    ASSUME UNCHANGED <<clients, closed, done, pc, link, cancelled>>
    PROVE  SessionStep
BY DEF SessionStep, Outside!vars

LEMMA GotoQuiet ==
    ASSUME TypeOK, NEW t \in Threads, NEW l, Goto(t, l),
           t = Serial => {pc[t], l} \cap {"posted", "stopped"} = {},
           t = Runner => "returned" \notin {pc[t], l},
           UNCHANGED <<clients, closed, done, link, cancelled>>
    PROVE  SessionStep
<1>1. \/ pc'[Serial] = pc[Serial]
      \/ {pc[Serial], pc'[Serial]} \cap {"posted", "stopped"} = {}
    BY ThreadTypes DEF TypeOK, WorkType, Goto
<1>2. pc'[Runner] = "returned" <=> pc[Runner] = "returned"
    BY ThreadTypes DEF TypeOK, WorkType, Goto
<1> QED
    BY <1>1, <1>2 DEF SessionStep, Outside!vars

\* The same for all but done: what a failed write looks like from outside.
LEMMA FinishEnds ==
    ASSUME TypeOK, NEW t \in Threads, Finish(t),
           pc[t] \notin {"posted", "stopped", "returned"}
    PROVE  /\ pc'[Runner] = "returned" <=> pc[Runner] = "returned"
           /\ \/ pc'[Serial] = pc[Serial]
              \/ {pc[Serial], pc'[Serial]} \cap {"posted", "stopped"} = {}
<1>1. t = Serial => Home(t) = "loop"
    BY DistinctThreads DEF Home
<1>2. Home(t) # "returned"
    BY HomeLabel
<1> QED
    BY <1>1, <1>2, ThreadTypes DEF TypeOK, WorkType, Finish, Goto

LEMMA FinishQuiet ==
    ASSUME TypeOK, NEW t \in Threads, Finish(t),
           pc[t] \notin {"posted", "stopped", "returned"},
           UNCHANGED <<clients, closed, done, link, cancelled>>
    PROVE  SessionStep
BY FinishEnds DEF SessionStep, Outside!vars

-----------------------------------------------------------------------------
(* One lemma per action *)

LEMMA UnlinkSession ==
    ASSUME TypeOK, LocalsOK, SenderOK, RegistryInv, SessionInv, NEW t \in Threads, Unlink(t)
    PROVE  SessionInv' /\ SessionStep
<1>1. Stable
    <2> SUFFICES ASSUME NEW x, Allowed(x) PROVE Allowed(x)'
        BY DEF Stable
    <2>1. clients' = clients \ {victim[t]} /\ primary' \in Heirs(victim[t])
        BY DEF Unlink
    <2>2. x \in clients' => x = primary'  \/ x \in clients \ {primary}
        BY <2>1 DEF Heirs
    <2> QED
        BY <2>1, <2>2 DEF Allowed, Joined, Unlink
<1>2. FrmOK'
    BY <1>1 DEF SessionInv, FrmOK, Stable, Unlink
<1>3. Outside!Remove
    <2>1. clients' \subseteq clients /\ closed' = closed
        BY DEF Unlink
    <2>2. \A c \in Clients : closed[c] => c \notin clients
        BY DEF RegistryInv, RegistryOK
    <2> QED
        BY <2>1, <2>2 DEF Outside!Remove, Unlink
<1> QED
    BY <1>1, <1>2, <1>3, Kept DEF SessionInv, SessionStep, Outside!Next, Unlink

LEMMA DropRemovedSession ==
    ASSUME TypeOK, LocalsOK, SenderOK, RegistryInv, SessionInv, NEW t \in Threads,
       DropRemoved(t)
    PROVE  SessionInv' /\ SessionStep
<1>1. Stable /\ FrmOK'
    BY StayStep DEF DropRemoved
<1>2. SessionStep
    BY StayQuiet DEF DropRemoved
<1> QED
    BY <1>1, <1>2, Kept DEF SessionInv, DropRemoved

LEMMA CloseSession ==
    ASSUME TypeOK, LocalsOK, SenderOK, RegistryInv, SessionInv, NEW t \in Threads, Close(t)
    PROVE  SessionInv' /\ SessionStep
<1>1. Stable /\ FrmOK'
    BY StayStep DEF Close
<1>2. Outside!Remove
    <2> DEFINE c == victim[t]
    <2>1. c \in Clients \ clients
        BY DEF LocalsOK, RegistryInv, RemovalOK, Close
    <2>2. closed' = [closed EXCEPT ![c] = TRUE] /\ clients' = clients
        BY DEF Close
    <2>3. {d \in Clients : closed'[d]} = {d \in Clients : closed[d]} \cup {c}
        <3>1. ASSUME NEW d \in Clients PROVE closed'[d] <=> closed[d] \/ d = c
            BY <2>2, <3>1, Zenon DEF TypeOK, RegistryType
        <3> QED
            BY <2>1, <3>1
    <2>4. \A d \in Clients : closed[d] => d \notin clients
        BY DEF RegistryInv, RegistryOK
    <2>5. {d \in Clients : closed'[d]} \cap clients = {}
        BY <2>1, <2>3, <2>4
    <2> QED
        BY <2>1, <2>2, <2>3, <2>5 DEF Outside!Remove, Close
<1> QED
    BY <1>1, <1>2, Kept DEF SessionInv, SessionStep, Outside!Next, Close

LEMMA ReadRegistrySession ==
    ASSUME TypeOK, LocalsOK, SenderOK, RegistryInv, SessionInv, NEW t \in Threads,
       ReadRegistry(t)
    PROVE  SessionInv' /\ SessionStep
<1>1. Stable /\ FrmOK'
    BY StayStep DEF ReadRegistry
<1>2. SessionStep
    BY StayQuiet DEF ReadRegistry
<1>3. StatOK'
    <2>1. Consistent([NoStat EXCEPT !.clients = clients, !.primary = primary])
        BY DEF Consistent, NoStat, RegistryInv, RegistryOK
    <2>2. ASSUME NEW u \in Threads PROVE Consistent(stat'[u])
        BY <2>1 DEF TypeOK, CallType, SessionInv, StatOK, ReadRegistry
    <2>3. Consistent(hub')
        BY DEF SessionInv, StatOK, ReadRegistry
    <2> QED
        BY <2>2, <2>3 DEF StatOK, Consistent
<1> QED
    BY <1>1, <1>2, <1>3, Kept DEF SessionInv, ReadRegistry

LEMMA ReadCacheSession ==
    ASSUME TypeOK, LocalsOK, SenderOK, RegistryInv, SessionInv, NEW t \in Threads, ReadCache(t)
    PROVE  SessionInv' /\ SessionStep
<1>1. Stable /\ FrmOK'
    BY StayStep DEF ReadCache
<1>2. SessionStep
    BY StayQuiet DEF ReadCache
<1>3. StatOK'
    <2>1. ASSUME NEW u \in Threads
          PROVE  stat'[u].clients = stat[u].clients /\ stat'[u].primary = stat[u].primary
        BY DEF TypeOK, CallType, Statuses, ReadCache
    <2> QED
        BY <2>1 DEF SessionInv, StatOK, Consistent, ReadCache
<1> QED
    BY <1>1, <1>2, <1>3, Kept DEF SessionInv, ReadCache

LEMMA SetStatusSession ==
    ASSUME TypeOK, LocalsOK, SenderOK, RegistryInv, SessionInv, NEW t \in Threads, SetStatus(t)
    PROVE  SessionInv' /\ SessionStep
<1>1. Stable /\ FrmOK'
    BY StayStep DEF SetStatus
<1>2. SessionStep
    BY StayQuiet DEF SetStatus
<1>3. StatOK'
    <2>1. Consistent(NoStat)
        BY DEF Consistent, NoStat
    <2>2. ASSUME NEW u \in Threads PROVE Consistent(stat'[u])
        BY <2>1 DEF TypeOK, CallType, SessionInv, StatOK, SetStatus
    <2>3. Consistent(hub')
        BY DEF SessionInv, StatOK, SetStatus
    <2> QED
        BY <2>2, <2>3 DEF StatOK, Consistent
<1> QED
    BY <1>1, <1>2, <1>3, Kept DEF SessionInv, SetStatus

LEMMA ReserveSession ==
    ASSUME TypeOK, LocalsOK, SenderOK, RegistryInv, SessionInv, NEW t \in Threads, Reserve(t)
    PROVE  SessionInv' /\ SessionStep
<1>1. Stable
    BY GotoStable DEF Reserve
<1>2. FrmOK'
    <2>1. frm'[t].kind = "want"
        BY DEF TypeOK, WorkType, Reserve, WantMsg
    <2>2. \A u \in Threads \ {t} : pc'[u] = pc[u] /\ frm'[u] = frm[u]
        BY DEF TypeOK, WorkType, Reserve, Goto
    <2> QED
        BY <1>1, <2>1, <2>2 DEF SessionInv, FrmOK, Stable
<1>3. SessionStep
    BY GotoQuiet DEF Reserve, At
<1> QED
    BY <1>1, <1>2, <1>3, Kept DEF SessionInv, Reserve

LEMMA ForwardSession ==
    ASSUME TypeOK, LocalsOK, SenderOK, RegistryInv, SessionInv, NEW t \in Threads, Forward(t)
    PROVE  SessionInv' /\ SessionStep
<1>1. CASE SerialFailed(t)
    <2>1. Stable /\ FrmOK'
        BY <1>1, FinishStep DEF SerialFailed
    <2>2. Outside!WriteFails \/ UNCHANGED Outside!vars
        BY <1>1, FinishEnds DEF TypeOK, StatusType, WireType, SerialFailed, Forward, At,
           Outside!WriteFails, Outside!vars
    <2> QED
        BY <1>1, <2>1, <2>2, Kept DEF SessionInv, SessionStep, Outside!Next, SerialFailed
<1>2. CASE ~done /\ Goto(t, "write") /\ UNCHANGED <<frm, clients, primary, closed, done,
                                                   link, cancelled, toRadio, hub, stat>>
    <2>1. Stable
        BY <1>2, GotoStable
    <2>2. FrmOK'
        BY <1>2, <2>1 DEF TypeOK, WorkType, SessionInv, FrmOK, Stable, Goto, Forward, At
    <2>3. SessionStep
        BY <1>2, GotoQuiet DEF Forward, At
    <2> QED
        BY <1>2, <2>1, <2>2, <2>3, Kept DEF SessionInv
<1> QED
    BY <1>1, <1>2 DEF Forward

LEMMA WriteSerialSession ==
    ASSUME TypeOK, LocalsOK, SenderOK, RegistryInv, SessionInv, NEW t \in Threads,
       WriteSerial(t)
    PROVE  SessionInv' /\ SessionStep
<1>1. CASE SerialFailed(t)
    <2>1. Stable /\ FrmOK'
        BY <1>1, FinishStep DEF SerialFailed
    <2>2. Outside!WriteFails \/ UNCHANGED Outside!vars
        BY <1>1, FinishEnds DEF TypeOK, StatusType, WireType, SerialFailed, WriteSerial, At,
           Outside!WriteFails, Outside!vars
    <2> QED
        BY <1>1, <2>1, <2>2, Kept DEF SessionInv, SessionStep, Outside!Next, SerialFailed
<1>2. CASE /\ link = "up" /\ toRadio' = Append(toRadio, frm[t]) /\ Goto(t, AfterWrite(t))
           /\ frm' = IF frm[t].kind = "pkt" THEN frm ELSE [frm EXCEPT ![t] = Nil]
           /\ UNCHANGED <<clients, primary, closed, done, link, cancelled, hub, stat>>
    <2>1. AfterWrite(t) \in {"note", "cast", "reissue", "loop", "stopped", "idle", "read"}
        BY HomeLabel DEF AfterWrite
    <2>2. Stable /\ FrmOK'
        BY <1>2, <2>1, GotoStep DEF TypeOK, WorkType
    <2>3. WireOK'
        <3>1. frm[t].kind = "pkt" => Allowed(frm[t].pkt.from)
            BY DEF SessionInv, FrmOK, WriteSerial, At
        <3>2. frm[t] \in ToRadio /\ toRadio \in Seq(ToRadio)
            BY DEF TypeOK, WireType, LocalsOK, WriteSerial, At
        <3>3. ASSUME NEW i \in 1..Len(toRadio')
              PROVE  toRadio'[i].kind = "pkt" => Allowed(toRadio'[i].pkt.from)
            <4>1. CASE i \in 1..Len(toRadio)
                BY <1>2, <3>2, <4>1 DEF SessionInv, WireOK
            <4>2. CASE i = Len(toRadio) + 1
                BY <1>2, <3>1, <3>2, <4>2
            <4> QED
                BY <1>2, <3>2, <4>1, <4>2
        <3>4. \A i \in 1..Len(toRadio') :
                  toRadio'[i].kind = "pkt" => Allowed(toRadio[i].pkt.from)'
            BY <2>2, <3>3 DEF Stable
        <3> QED
            BY <3>4 DEF WireOK
    <2>4. t = Serial => AfterWrite(t) # "stopped"
        BY DistinctThreads DEF AfterWrite, Home
    <2>5. SessionStep
        BY <1>2, <2>1, <2>4, GotoQuiet DEF WriteSerial, At
    <2> QED
        BY <1>2, <2>2, <2>3, <2>5, Kept DEF SessionInv
<1> QED
    BY <1>1, <1>2 DEF WriteSerial

LEMMA CastSession ==
    ASSUME TypeOK, LocalsOK, SenderOK, RegistryInv, SessionInv, NEW t \in Threads, Cast(t)
    PROVE  SessionInv' /\ SessionStep
<1>1. CASE Finish(t)
    <2>1. Stable /\ FrmOK'
        BY <1>1, FinishStep DEF Cast
    <2>2. SessionStep
        BY <1>1, FinishQuiet DEF Cast, At
    <2> QED
        BY <2>1, <2>2, Kept DEF SessionInv, Cast
<1>2. CASE Goto(t, "send") /\ UNCHANGED frm
    <2>1. Stable /\ FrmOK'
        BY <1>2, GotoStep DEF Cast
    <2>2. SessionStep
        BY <1>2, GotoQuiet DEF Cast, At
    <2> QED
        BY <2>1, <2>2, Kept DEF SessionInv, Cast
<1> QED
    BY <1>1, <1>2 DEF Cast

LEMMA SendSession ==
    ASSUME TypeOK, LocalsOK, SenderOK, RegistryInv, SessionInv, NEW t \in Threads, NEW c \in
       Clients, Send(t, c)
    PROVE  SessionInv' /\ SessionStep
<1>0. UNCHANGED stat
    BY DEF Send, DisconnectSlow, StartRemove
<1>1. CASE Finish(t)
    <2>1. Stable /\ FrmOK'
        BY <1>1, FinishStep DEF Send
    <2>2. SessionStep
        BY <1>1, FinishQuiet DEF Send, At
    <2> QED
        BY <1>0, <2>1, <2>2, Kept DEF SessionInv, Send
<1>2. CASE UNCHANGED <<pc, frm>>
    <2>1. Stable /\ FrmOK'
        BY <1>2, StayStep DEF Send
    <2>2. SessionStep
        BY <1>2, StayQuiet DEF Send
    <2> QED
        BY <1>0, <2>1, <2>2, Kept DEF SessionInv, Send
<1> QED
    BY <1>1, <1>2 DEF Send

LEMMA SerialLoopSession ==
    ASSUME TypeOK, LocalsOK, SenderOK, RegistryInv, SessionInv, SerialLoop
    PROVE  SessionInv' /\ SessionStep
<1>1. Stable /\ FrmOK'
    BY GotoStep, ThreadTypes DEF SerialLoop
<1>2. SessionStep
    <2>1. pc'[Runner] = pc[Runner]
        BY ThreadTypes, DistinctThreads DEF TypeOK, WorkType, SerialLoop, Goto
    <2>2. Outside!ReaderEnds \/ UNCHANGED Outside!vars
        BY <2>1, ThreadTypes DEF TypeOK, WorkType, StatusType, SerialLoop, Goto, At,
           Outside!ReaderEnds, Outside!vars
    <2> QED
        BY <2>2 DEF SessionStep, Outside!Next
<1> QED
    BY <1>1, <1>2, Kept DEF SessionInv, SerialLoop

LEMMA SerialErrorSession ==
    ASSUME TypeOK, LocalsOK, SenderOK, RegistryInv, SessionInv, SerialError
    PROVE  SessionInv' /\ SessionStep
<1>1. Stable /\ FrmOK'
    BY GotoStep, ThreadTypes DEF SerialError
<1>2. SessionStep
    <2>1. pc'[Runner] = pc[Runner]
        BY ThreadTypes, DistinctThreads DEF TypeOK, WorkType, SerialError, Goto
    <2>2. Outside!ReaderEnds \/ UNCHANGED Outside!vars
        BY <2>1, ThreadTypes DEF TypeOK, WorkType, StatusType, SerialError, Goto, At,
           Outside!ReaderEnds, Outside!vars
    <2> QED
        BY <2>2 DEF SessionStep, Outside!Next
<1> QED
    BY <1>1, <1>2, Kept DEF SessionInv, SerialError

LEMMA SerialGlitchSession ==
    ASSUME TypeOK, LocalsOK, SenderOK, RegistryInv, SessionInv, SerialGlitch
    PROVE  SessionInv' /\ SessionStep
<1>1. Stable /\ FrmOK'
    BY GotoStep, ThreadTypes, DistinctThreads DEF SerialGlitch
<1>2. SessionStep
    BY GotoQuiet, ThreadTypes, DistinctThreads DEF SerialGlitch, At
<1> QED
    BY <1>1, <1>2, Kept DEF SessionInv, SerialGlitch

LEMMA SerialConfigSession ==
    ASSUME TypeOK, LocalsOK, SenderOK, RegistryInv, SessionInv, SerialConfig
    PROVE  SessionInv' /\ SessionStep
<1>1. Stable /\ FrmOK'
    BY GotoStep, ThreadTypes, DistinctThreads DEF TypeOK, WorkType, SerialConfig, ReadFrame
<1>2. SessionStep
    BY GotoQuiet, ThreadTypes, DistinctThreads DEF SerialConfig, At, ReadFrame
<1> QED
    BY <1>1, <1>2, Kept DEF SessionInv, SerialConfig, ReadFrame

LEMMA SerialCompleteSession ==
    ASSUME TypeOK, LocalsOK, SenderOK, RegistryInv, SessionInv, SerialComplete
    PROVE  SessionInv' /\ SessionStep
<1>1. UNCHANGED stat
    BY DEF SerialComplete, StartPublish
<1>2. /\ Goto(Serial, "loop") \/ Goto(Serial, "send")
      /\ \A u \in Threads \ {Serial} : frm'[u] = frm[u]
    BY DEF TypeOK, WorkType, SerialComplete
<1>3. Stable /\ FrmOK'
    BY <1>2, GotoStep, ThreadTypes DEF SerialComplete
<1>4. SessionStep
    BY <1>2, GotoQuiet, ThreadTypes, DistinctThreads DEF SerialComplete, ReadFrame, At
<1> QED
    BY <1>1, <1>3, <1>4, Kept DEF SessionInv, SerialComplete, ReadFrame

LEMMA SerialRebootedSession ==
    ASSUME TypeOK, LocalsOK, SenderOK, RegistryInv, SessionInv, SerialRebooted
    PROVE  SessionInv' /\ SessionStep
<1>1. Stable /\ FrmOK'
    BY GotoStep, ThreadTypes, DistinctThreads DEF SerialRebooted, ReadFrame
<1>2. SessionStep
    BY GotoQuiet, ThreadTypes, DistinctThreads DEF SerialRebooted, At, ReadFrame
<1> QED
    BY <1>1, <1>2, Kept DEF SessionInv, SerialRebooted, ReadFrame

LEMMA SwapPendingSession ==
    ASSUME TypeOK, LocalsOK, SenderOK, RegistryInv, SessionInv, SwapPending
    PROVE  SessionInv' /\ SessionStep
<1>1. Stable /\ FrmOK'
    BY GotoStep, ThreadTypes, DistinctThreads DEF SwapPending
<1>2. SessionStep
    BY GotoQuiet, ThreadTypes, DistinctThreads DEF SwapPending, At
<1> QED
    BY <1>1, <1>2, Kept DEF SessionInv, SwapPending

LEMMA ReissueSession ==
    ASSUME TypeOK, LocalsOK, SenderOK, RegistryInv, SessionInv, NEW n \in Nonces, Reissue(n)
    PROVE  SessionInv' /\ SessionStep
<1>1. CASE UNCHANGED pc
    <2>1. Stable /\ FrmOK'
        BY <1>1, StayStep DEF Reissue
    <2>2. SessionStep
        BY <1>1, StayQuiet DEF Reissue
    <2> QED
        BY <2>1, <2>2, Kept DEF SessionInv, Reissue
<1>2. CASE Goto(Serial, "reserve")
    <2>1. Stable /\ FrmOK'
        BY <1>2, GotoStep, ThreadTypes DEF Reissue
    <2>2. SessionStep
        BY <1>2, GotoQuiet, ThreadTypes, DistinctThreads DEF Reissue, At
    <2> QED
        BY <2>1, <2>2, Kept DEF SessionInv, Reissue
<1> QED
    BY <1>1, <1>2 DEF Reissue

LEMMA ReissueDoneSession ==
    ASSUME TypeOK, LocalsOK, SenderOK, RegistryInv, SessionInv, ReissueDone
    PROVE  SessionInv' /\ SessionStep
<1>1. Stable /\ FrmOK'
    BY GotoStep, ThreadTypes, DistinctThreads DEF ReissueDone
<1>2. SessionStep
    BY GotoQuiet, ThreadTypes, DistinctThreads DEF ReissueDone, At
<1> QED
    BY <1>1, <1>2, Kept DEF SessionInv, ReissueDone

LEMMA SerialPacketSession ==
    ASSUME TypeOK, LocalsOK, SenderOK, RegistryInv, SessionInv, SerialPacket
    PROVE  SessionInv' /\ SessionStep
<1>1. /\ \E l \in {"cast", "loop", "send"} : Goto(Serial, l)
      /\ \A u \in Threads \ {Serial} : frm'[u] = frm[u]
    BY DEF TypeOK, WorkType, SerialPacket
<1>2. Stable /\ FrmOK'
    BY <1>1, GotoStep, ThreadTypes DEF SerialPacket
<1>3. SessionStep
    BY <1>1, GotoQuiet, ThreadTypes, DistinctThreads DEF SerialPacket, ReadFrame, At
<1> QED
    BY <1>2, <1>3, Kept DEF SessionInv, SerialPacket, ReadFrame

LEMMA ReadErrorSession ==
    ASSUME TypeOK, LocalsOK, SenderOK, RegistryInv, SessionInv, NEW c \in Clients, ReadError(c)
    PROVE  SessionInv' /\ SessionStep
<1>1. Stable /\ FrmOK'
    BY GotoStep, ThreadTypes, DistinctThreads DEF ReadError, StartRemove
<1>2. SessionStep
    BY GotoQuiet, ThreadTypes, DistinctThreads DEF ReadError, At, StartRemove
<1> QED
    BY <1>1, <1>2, Kept DEF SessionInv, ReadError, StartRemove

LEMMA ReadWantSession ==
    ASSUME TypeOK, LocalsOK, SenderOK, RegistryInv, SessionInv, NEW c \in Clients, ReadWant(c)
    PROVE  SessionInv' /\ SessionStep
<1>1. Stable /\ FrmOK'
    BY GotoStep, ThreadTypes, DistinctThreads DEF ReadWant, Message
<1>2. SessionStep
    BY GotoQuiet, ThreadTypes, DistinctThreads DEF ReadWant, At, Message
<1> QED
    BY <1>1, <1>2, Kept DEF SessionInv, ReadWant, Message

LEMMA DropOwnSession ==
    ASSUME TypeOK, LocalsOK, SenderOK, RegistryInv, SessionInv, NEW c \in Clients, DropOwn(c)
    PROVE  SessionInv' /\ SessionStep
<1>1. Stable /\ FrmOK'
    BY GotoStep, ThreadTypes, DistinctThreads DEF DropOwn
<1>2. SessionStep
    BY GotoQuiet, ThreadTypes, DistinctThreads DEF DropOwn, At
<1> QED
    BY <1>1, <1>2, Kept DEF SessionInv, DropOwn

LEMMA ReadDisconnectSession ==
    ASSUME TypeOK, LocalsOK, SenderOK, RegistryInv, SessionInv, NEW c \in Clients,
       ReadDisconnect(c)
    PROVE  SessionInv' /\ SessionStep
<1>1. Stable /\ FrmOK'
    BY StayStep DEF ReadDisconnect, StartRemove, Message
<1>2. SessionStep
    BY StayQuiet DEF ReadDisconnect, StartRemove, Message
<1> QED
    BY <1>1, <1>2, Kept DEF SessionInv, ReadDisconnect, StartRemove, Message

LEMMA ReadTrafficSession ==
    ASSUME TypeOK, LocalsOK, SenderOK, RegistryInv, SessionInv, NEW c \in Clients, NEW kind, NEW
       msg, NEW allowed, ReadTraffic(c, kind, msg, allowed), allowed => (msg.kind = "pkt" =>
       Allowed(msg.pkt.from))
    PROVE  SessionInv' /\ SessionStep
<1>1. CASE UNCHANGED <<pc, frm>>
    <2>1. Stable /\ FrmOK'
        BY <1>1, StayStep DEF ReadTraffic
    <2>2. SessionStep
        BY <1>1, StayQuiet DEF ReadTraffic, Message
    <2> QED
        BY <2>1, <2>2, Kept DEF SessionInv, ReadTraffic
<1>2. CASE allowed /\ frm' = [frm EXCEPT ![Reader(c)] = msg] /\ Goto(Reader(c), "forward")
    <2>1. Stable
        BY <1>2, GotoStable, ThreadTypes DEF ReadTraffic
    <2>2. FrmOK'
        <3>1. ASSUME NEW u \in Threads, pc'[u] \in {"forward", "write"}, frm'[u].kind = "pkt"
              PROVE  Allowed(frm'[u].pkt.from)
            BY <1>2, <3>1, ThreadTypes DEF TypeOK, WorkType, SessionInv, FrmOK, Goto
        <3>2. ASSUME NEW u \in Threads, pc'[u] \in {"forward", "write"}, frm'[u].kind = "pkt"
              PROVE  Allowed(frm[u].pkt.from)'
            BY <2>1, <3>1, <3>2 DEF Stable
        <3> QED
            BY <3>2 DEF FrmOK
    <2>3. SessionStep
        BY <1>2, GotoQuiet, ThreadTypes, DistinctThreads DEF ReadTraffic, Message, At
    <2> QED
        BY <2>1, <2>2, <2>3, Kept DEF SessionInv, ReadTraffic
<1> QED
    BY <1>1, <1>2 DEF ReadTraffic

\* The three kinds of messages a reader may forward.
LEMMA ReadPacketSession ==
    ASSUME TypeOK, LocalsOK, SenderOK, RegistryInv, SessionInv, NEW c \in Clients,
           ReadPacket(c) \/ ReadOther(c) \/ ReadRaw(c)
    PROVE  SessionInv' /\ SessionStep
<1>1. CASE ReadPacket(c)
    <2> DEFINE pkt(port) == [from |-> c, seq |-> asked[c] + 1, port |-> port]
    <2>1. PICK port \in Ports :
              ReadTraffic(c, "packet", PktFrame(pkt(port), "echo"), MayTransmit(c))
        BY <1>1 DEF ReadPacket
    <2>2. PktFrame(pkt(port), "echo").pkt.from = c
        BY DEF PktFrame
    <2>3. c \in Joined
        BY <2>1, AtWork DEF ReadTraffic, Message, At
    <2>4. MayTransmit(c) => Allowed(c)
        BY <2>3 DEF MayTransmit, Allowed
    <2> HIDE DEF pkt
    <2> QED
        BY <2>1, <2>2, <2>4, ReadTrafficSession
<1>2. CASE ReadOther(c) \/ ReadRaw(c)
    BY <1>2, FrameKinds, ReadTrafficSession DEF ReadOther, ReadRaw
<1> QED
    BY <1>1, <1>2

LEMMA NoteSession ==
    ASSUME TypeOK, LocalsOK, SenderOK, RegistryInv, SessionInv, NEW c \in Clients, Note(c)
    PROVE  SessionInv' /\ SessionStep
<1>1. Stable /\ FrmOK'
    BY GotoStep, ThreadTypes, DistinctThreads DEF Note
<1>2. SessionStep
    BY GotoQuiet, ThreadTypes, DistinctThreads DEF Note, At
<1> QED
    BY <1>1, <1>2, Kept DEF SessionInv, Note

LEMMA SnapshotSession ==
    ASSUME TypeOK, LocalsOK, SenderOK, RegistryInv, SessionInv, NEW c \in Clients, Snapshot(c)
    PROVE  SessionInv' /\ SessionStep
<1>1. Stable /\ FrmOK'
    BY GotoStep, ThreadTypes, DistinctThreads DEF Snapshot
<1>2. SessionStep
    BY GotoQuiet, ThreadTypes, DistinctThreads DEF Snapshot, At
<1> QED
    BY <1>1, <1>2, Kept DEF SessionInv, Snapshot

LEMMA ReplaySession ==
    ASSUME TypeOK, LocalsOK, SenderOK, RegistryInv, SessionInv, NEW c \in Clients, Replay(c)
    PROVE  SessionInv' /\ SessionStep
<1>0. UNCHANGED stat
    BY DEF Replay, DisconnectSlow, StartRemove
<1>1. CASE Finish(Reader(c))
    <2>1. Stable /\ FrmOK'
        BY <1>1, FinishStep, ThreadTypes DEF Replay
    <2>2. SessionStep
        BY <1>1, FinishQuiet, ThreadTypes DEF Replay, At
    <2> QED
        BY <1>0, <2>1, <2>2, Kept DEF SessionInv, Replay
<1>2. CASE UNCHANGED <<pc, frm>>
    <2>1. Stable /\ FrmOK'
        BY <1>2, StayStep DEF Replay
    <2>2. SessionStep
        BY <1>2, StayQuiet DEF Replay
    <2> QED
        BY <1>0, <2>1, <2>2, Kept DEF SessionInv, Replay
<1> QED
    BY <1>1, <1>2 DEF Replay

LEMMA WriterStopsSession ==
    ASSUME TypeOK, LocalsOK, SenderOK, RegistryInv, SessionInv, NEW c \in Clients,
       WriterStops(c)
    PROVE  SessionInv' /\ SessionStep
<1>1. Stable /\ FrmOK'
    BY GotoStep, ThreadTypes, DistinctThreads DEF WriterStops, StartRemove
<1>2. SessionStep
    BY GotoQuiet, ThreadTypes, DistinctThreads DEF WriterStops, At, StartRemove
<1> QED
    BY <1>1, <1>2, Kept DEF SessionInv, WriterStops, StartRemove

LEMMA WriterTakesSession ==
    ASSUME TypeOK, LocalsOK, SenderOK, RegistryInv, SessionInv, NEW c \in Clients,
       WriterTakes(c)
    PROVE  SessionInv' /\ SessionStep
<1>1. Stable /\ FrmOK'
    BY GotoStep, ThreadTypes, DistinctThreads DEF WriterTakes
<1>2. SessionStep
    BY GotoQuiet, ThreadTypes, DistinctThreads DEF WriterTakes, At
<1> QED
    BY <1>1, <1>2, Kept DEF SessionInv, WriterTakes

LEMMA WriterWroteSession ==
    ASSUME TypeOK, LocalsOK, SenderOK, RegistryInv, SessionInv, NEW c \in Clients,
       WriterWrote(c)
    PROVE  SessionInv' /\ SessionStep
<1>1. Stable /\ FrmOK'
    BY GotoStep, ThreadTypes, DistinctThreads DEF WriterWrote
<1>2. SessionStep
    BY GotoQuiet, ThreadTypes, DistinctThreads DEF WriterWrote, At
<1> QED
    BY <1>1, <1>2, Kept DEF SessionInv, WriterWrote

LEMMA WriterFailsSession ==
    ASSUME TypeOK, LocalsOK, SenderOK, RegistryInv, SessionInv, NEW c \in Clients,
       WriterFails(c)
    PROVE  SessionInv' /\ SessionStep
<1>1. Stable /\ FrmOK'
    BY GotoStep, ThreadTypes, DistinctThreads DEF WriterFails, StartRemove
<1>2. SessionStep
    BY GotoQuiet, ThreadTypes, DistinctThreads DEF WriterFails, At, StartRemove
<1> QED
    BY <1>1, <1>2, Kept DEF SessionInv, WriterFails, StartRemove

LEMMA BootStartSession ==
    ASSUME TypeOK, LocalsOK, SenderOK, RegistryInv, SessionInv, BootStart
    PROVE  SessionInv' /\ SessionStep
<1>1. Stable /\ FrmOK'
    BY GotoStep, ThreadTypes, DistinctThreads DEF BootStart
<1>2. SessionStep
    BY GotoQuiet, ThreadTypes, DistinctThreads DEF BootStart, At
<1> QED
    BY <1>1, <1>2, Kept DEF SessionInv, BootStart

LEMMA BootScanSession ==
    ASSUME TypeOK, LocalsOK, SenderOK, RegistryInv, SessionInv, BootScan
    PROVE  SessionInv' /\ SessionStep
<1>1. Stable /\ FrmOK'
    BY GotoStep, ThreadTypes, DistinctThreads DEF BootScan
<1>2. SessionStep
    BY GotoQuiet, ThreadTypes, DistinctThreads DEF BootScan, At
<1> QED
    BY <1>1, <1>2, Kept DEF SessionInv, BootScan

LEMMA WebSendSession ==
    ASSUME TypeOK, LocalsOK, SenderOK, RegistryInv, SessionInv, WebSend
    PROVE  SessionInv' /\ SessionStep
<1>1. CASE UNCHANGED <<pc, frm>>
    <2>1. Stable /\ FrmOK'
        BY <1>1, StayStep DEF WebSend
    <2>2. SessionStep
        BY <1>1, StayQuiet DEF WebSend
    <2> QED
        BY <2>1, <2>2, Kept DEF SessionInv, WebSend
<1>2. CASE ~UNCHANGED <<pc, frm>>
    <2> DEFINE msg == PktFrame([from |-> "web", seq |-> used["web"] + 1, port |-> "chat"], "echo")
    <2>1. frm' = [frm EXCEPT ![Web] = msg] /\ Goto(Web, "forward")
        BY <1>2 DEF WebSend
    <2>2. Stable
        BY <2>1, GotoStable, ThreadTypes DEF WebSend
    <2>3. msg.pkt.from = "web" /\ Allowed("web")
        BY BrokerAssumptions DEF PktFrame, Allowed, TypeOK, RegistryType
    <2> HIDE DEF msg
    <2>4. FrmOK'
        <3>1. ASSUME NEW u \in Threads, pc'[u] \in {"forward", "write"}, frm'[u].kind = "pkt"
              PROVE  Allowed(frm'[u].pkt.from)
            BY <2>1, <2>3, <3>1, ThreadTypes DEF TypeOK, WorkType, SessionInv, FrmOK, Goto
        <3>2. ASSUME NEW u \in Threads, pc'[u] \in {"forward", "write"}, frm'[u].kind = "pkt"
              PROVE  Allowed(frm[u].pkt.from)'
            BY <2>2, <3>1, <3>2 DEF Stable
        <3> QED
            BY <3>2 DEF FrmOK
    <2>5. SessionStep
        BY <2>1, GotoQuiet, ThreadTypes, DistinctThreads DEF WebSend, At, Serial, Runner, Web
    <2> QED
        BY <2>2, <2>4, <2>5, Kept DEF SessionInv, WebSend
<1> QED
    BY <1>1, <1>2

LEMMA RunReturnsSession ==
    ASSUME TypeOK, LocalsOK, SenderOK, RegistryInv, SessionInv, RunReturns
    PROVE  SessionInv' /\ SessionStep
<1>1. Stable /\ FrmOK'
    BY GotoStep, ThreadTypes DEF RunReturns
<1>2. SessionStep
    <2>1. pc[Runner] # "returned" /\ pc'[Runner] = "returned" /\ pc'[Serial] = pc[Serial]
        BY ThreadTypes, DistinctThreads DEF TypeOK, WorkType, RunReturns, Goto, At
    <2>2. Outside!Return
        BY <2>1 DEF RunReturns, Outside!Return
    <2> QED
        BY <2>2 DEF SessionStep, Outside!Next
<1> QED
    BY <1>1, <1>2, Kept DEF SessionInv, RunReturns

LEMMA AcceptConnSession ==
    ASSUME TypeOK, LocalsOK, SenderOK, RegistryInv, SessionInv, NEW c \in Clients, AcceptConn(c)
    PROVE  SessionInv' /\ SessionStep
<1>1. Stable /\ FrmOK'
    BY GotoStep, ThreadTypes, DistinctThreads DEF AcceptConn, Acceptor, Serial, Runner
<1>2. SessionStep
    BY GotoQuiet, ThreadTypes, DistinctThreads DEF AcceptConn, At, Acceptor, Serial, Runner
<1> QED
    BY <1>1, <1>2, Kept DEF SessionInv, AcceptConn, Acceptor, Serial, Runner

LEMMA AddClientSession ==
    ASSUME TypeOK, LocalsOK, SenderOK, RegistryInv, SessionInv, NEW c \in Clients, AddClient(c)
    PROVE  SessionInv' /\ SessionStep
<1>1. c \notin Joined /\ c \notin clients /\ ~closed[c]
    BY DEF RegistryInv, JoinedOK, AcceptorOK, MembersOK, AddClient
<1>2. /\ \A t \in Threads \ {Acceptor, Reader(c), Writer(c)} : pc'[t] = pc[t]
      /\ pc'[Acceptor] = "idle" /\ pc'[Reader(c)] = "read" /\ pc'[Writer(c)] = "select"
    BY ThreadTypes, DistinctThreads DEF TypeOK, WorkType, AddClient
<1>3. Stable
    <2> SUFFICES ASSUME NEW x, Allowed(x) PROVE Allowed(x)'
        BY DEF Stable
    <2>1. Joined \subseteq Joined'
        BY <1>2, ThreadTypes, DistinctThreads DEF Joined
    <2>2. c \notin Joined \cup {"web"}
        BY <1>1, BrokerAssumptions
    <2>3. ReadOnlyClients => x \notin clients' \ {primary'}
        BY <2>2, BrokerAssumptions DEF TypeOK, RegistryType, Allowed, AddClient, NewPrimary,
           RegistryInv, RegistryOK
    <2> QED
        BY <2>1, <2>3 DEF Allowed
<1>4. FrmOK'
    BY <1>2, <1>3 DEF SessionInv, FrmOK, Stable, AddClient
<1>5. Outside!Join(c)
    <2>1. pc'[Runner] = pc[Runner] /\ pc'[Serial] = pc[Serial]
        BY <1>2, ThreadTypes, DistinctThreads DEF Runner, Acceptor
    <2> QED
        BY <1>1, <2>1 DEF AddClient, Outside!Join
<1> QED
    BY <1>3, <1>4, <1>5, Kept DEF SessionInv, SessionStep, Outside!Next, AddClient,
       StartPublish

LEMMA ServerWakesSession ==
    ASSUME TypeOK, LocalsOK, SenderOK, RegistryInv, SessionInv, ServerWakes
    PROVE  SessionInv' /\ SessionStep
<1>1. Stable /\ FrmOK'
    BY GotoStep, ThreadTypes, DistinctThreads DEF ServerWakes, Server, Serial, Runner
<1>2. SessionStep
    BY GotoQuiet, ThreadTypes, DistinctThreads DEF ServerWakes, At, Server, Serial, Runner
<1> QED
    BY <1>1, <1>2, Kept DEF SessionInv, ServerWakes, Server, Serial, Runner

LEMMA ServerStatusSession ==
    ASSUME TypeOK, LocalsOK, SenderOK, RegistryInv, SessionInv, ServerStatus
    PROVE  SessionInv' /\ SessionStep
<1>1. Stable /\ FrmOK'
    BY GotoStep, ThreadTypes DEF ServerStatus
<1>2. SessionStep
    BY GotoQuiet, ThreadTypes DEF ServerStatus, At, Server, Serial, Runner
<1>3. StatOK'
    <2>1. Consistent([NoStat EXCEPT !.serial = FALSE])
        BY DEF Consistent, NoStat
    <2>2. Consistent(hub')
        BY <2>1 DEF SessionInv, StatOK, ServerStatus
    <2> QED
        BY <2>2 DEF SessionInv, StatOK, Consistent, ServerStatus
<1> QED
    BY <1>1, <1>2, <1>3, Kept DEF SessionInv, ServerStatus

LEMMA ListClientsSession ==
    ASSUME TypeOK, LocalsOK, SenderOK, RegistryInv, SessionInv, ListClients
    PROVE  SessionInv' /\ SessionStep
<1>1. Stable /\ FrmOK'
    BY GotoStep, ThreadTypes, DistinctThreads DEF ListClients, Server, Serial, Runner
<1>2. SessionStep
    BY GotoQuiet, ThreadTypes, DistinctThreads DEF ListClients, At, Server, Serial, Runner
<1> QED
    BY <1>1, <1>2, Kept DEF SessionInv, ListClients, Server, Serial, Runner

LEMMA RemoveListedSession ==
    ASSUME TypeOK, LocalsOK, SenderOK, RegistryInv, SessionInv, NEW c \in Clients,
       RemoveListed(c)
    PROVE  SessionInv' /\ SessionStep
<1>1. Stable /\ FrmOK'
    BY StayStep DEF RemoveListed, StartRemove
<1>2. SessionStep
    BY StayQuiet DEF RemoveListed, StartRemove
<1> QED
    BY <1>1, <1>2, Kept DEF SessionInv, RemoveListed, StartRemove

LEMMA CloseSerialSession ==
    ASSUME TypeOK, LocalsOK, SenderOK, RegistryInv, SessionInv, CloseSerial
    PROVE  SessionInv' /\ SessionStep
<1>1. Stable /\ FrmOK'
    BY GotoStep, ThreadTypes DEF CloseSerial
<1>2. SessionStep
    <2>1. pc'[Runner] = pc[Runner] /\ pc'[Serial] = pc[Serial]
        BY ThreadTypes DEF TypeOK, WorkType, CloseSerial, Goto, Server, Serial, Runner
    <2>2. Outside!Environment
        BY <2>1 DEF CloseSerial, Outside!Environment
    <2> QED
        BY <2>2 DEF SessionStep, Outside!Next
<1> QED
    BY <1>1, <1>2, Kept DEF SessionInv, CloseSerial

\* The radio reads, loses or never sees what is on the line; nothing is added to it.
LEMMA LineShrinks ==
    ASSUME TypeOK, SessionInv, UNCHANGED <<clients, primary, pc, hub, stat, frm>>,
           NEW k \in Nat, Len(toRadio') + k <= Len(toRadio), Len(toRadio') \in Nat,
           \A i \in 1..Len(toRadio') : toRadio'[i] = toRadio[i + k]
    PROVE  SessionInv'
<1>1. Stable /\ FrmOK'
    BY StayStep
<1>2. Len(toRadio) \in Nat
    BY DEF TypeOK, WireType
<1>3. ASSUME NEW i \in 1..Len(toRadio') PROVE i + k \in 1..Len(toRadio)
    BY <1>2, <1>3
<1>4. ASSUME NEW i \in 1..Len(toRadio'), toRadio'[i].kind = "pkt"
      PROVE  Allowed(toRadio'[i].pkt.from)
    BY <1>3, <1>4 DEF SessionInv, WireOK
<1>5. ASSUME NEW i \in 1..Len(toRadio'), toRadio'[i].kind = "pkt"
      PROVE  Allowed(toRadio[i].pkt.from)'
    BY <1>1, <1>4, <1>5 DEF Stable
<1>6. WireOK'
    BY <1>5 DEF WireOK
<1> QED
    BY <1>1, <1>6, Kept DEF SessionInv

LEMMA RadioAnswersSession ==
    ASSUME TypeOK, SessionInv, RadioAnswers
    PROVE  SessionInv' /\ SessionStep
<1>1. toRadio \in Seq(ToRadio) /\ toRadio # <<>> /\ toRadio' = Tail(toRadio)
    BY DEF TypeOK, WireType, RadioAnswers
<1>2. /\ Len(toRadio') \in Nat /\ Len(toRadio') + 1 <= Len(toRadio)
      /\ \A i \in 1..Len(toRadio') : toRadio'[i] = toRadio[i + 1]
    BY <1>1
<1>3. SessionInv'
    BY <1>2, LineShrinks DEF RadioAnswers
<1> QED
    BY <1>3, StayQuiet DEF RadioAnswers

LEMMA RadioRebootsSession ==
    ASSUME TypeOK, SessionInv, RadioReboots
    PROVE  SessionInv' /\ SessionStep
<1>1. PICK m \in 0..Len(toRadio) : toRadio' = SubSeq(toRadio, m + 1, Len(toRadio))
    BY DEF RadioReboots
<1>2. toRadio \in Seq(ToRadio) /\ Len(toRadio) \in Nat /\ m \in Nat
    BY <1>1 DEF TypeOK, WireType
<1>3. /\ Len(toRadio') \in Nat /\ Len(toRadio') + m <= Len(toRadio)
      /\ \A i \in 1..Len(toRadio') : toRadio'[i] = toRadio[i + m]
    BY <1>1, <1>2
<1>4. SessionInv'
    BY <1>2, <1>3, LineShrinks DEF RadioReboots
<1> QED
    BY <1>4, StayQuiet DEF RadioReboots

\* The device fails or the context is cancelled.
LEMMA OutsideSession ==
    ASSUME TypeOK, SessionInv, LinkFails \/ Cancel
    PROVE  SessionInv' /\ SessionStep
<1>1. Stable /\ FrmOK'
    BY StayStep DEF LinkFails, Cancel
<1>2. Outside!Environment
    BY DEF LinkFails, Cancel, Outside!Environment
<1> QED
    BY <1>1, <1>2, Kept DEF SessionInv, SessionStep, Outside!Next, LinkFails, Cancel

LEMMA InitSession == Init => SessionInv /\ Outside!Init
<1> SUFFICES ASSUME Init PROVE SessionInv /\ Outside!Init
    OBVIOUS
<1>1. StatOK
    BY BrokerAssumptions DEF Init, StatOK, Consistent, NoStat
<1>2. FrmOK
    <2>1. \A t \in Threads : pc[t] \notin {"forward", "write"}
        BY DEF Init
    <2> QED
        BY <2>1 DEF FrmOK
<1>3. WireOK
    BY DEF Init, WireOK
<1>4. pc[Serial] = "loop" /\ pc[Runner] = "select"
    BY ThreadTypes, DistinctThreads DEF Init, Serial, Runner, Boot, Web, Acceptor, Server,
       Reader, Writer
<1>5. Outside!Init
    BY <1>4, BrokerAssumptions DEF Init, Outside!Init
<1> QED
    BY <1>1, <1>2, <1>3, <1>5 DEF SessionInv

LEMMA NextSession ==
    ASSUME TypeOK, LocalsOK, SenderOK, RegistryInv, SessionInv, [Next]_vars
    PROVE  SessionInv' /\ SessionStep
<1>1. ASSUME NEW t \in Threads, SharedStep(t) PROVE SessionInv' /\ SessionStep
    BY <1>1, UnlinkSession, DropRemovedSession, CloseSession, ReadRegistrySession,
       ReadCacheSession, SetStatusSession, ReserveSession, ForwardSession,
       WriteSerialSession, CastSession, SendSession
    DEF SharedStep, CallStep
<1>2. CASE SerialStep \/ SerialGlitch
    BY <1>2, SerialLoopSession, SerialErrorSession, SerialGlitchSession,
       SerialConfigSession, SerialCompleteSession, SerialRebootedSession,
       SwapPendingSession, ReissueSession, ReissueDoneSession, SerialPacketSession
    DEF SerialStep
<1>3. ASSUME NEW c \in Clients, ClientInput(c) \/ ReaderStep(c) \/ ReadError(c)
      PROVE  SessionInv' /\ SessionStep
    BY <1>3, ReadWantSession, ReadDisconnectSession, ReadPacketSession, DropOwnSession,
       NoteSession, SnapshotSession, ReplaySession, ReadErrorSession
    DEF ClientInput, ReaderStep
<1>4. ASSUME NEW c \in Clients, WriterStep(c) \/ WriterWrote(c) \/ WriterFails(c)
      PROVE  SessionInv' /\ SessionStep
    BY <1>4, WriterStopsSession, WriterTakesSession, WriterWroteSession, WriterFailsSession
    DEF WriterStep
<1>5. CASE \/ BootStart \/ BootScan \/ WebSend \/ RunReturns \/ ServerStep \/ ServerWakes
           \/ \E c \in Clients : AcceptConn(c) \/ AddClient(c)
    BY <1>5, BootStartSession, BootScanSession, WebSendSession, RunReturnsSession,
       ServerWakesSession, ServerStatusSession, ListClientsSession,
       RemoveListedSession, CloseSerialSession, AcceptConnSession, AddClientSession
    DEF ServerStep
<1>6. CASE RadioAnswers \/ RadioReboots \/ LinkFails \/ Cancel
    BY <1>6, RadioAnswersSession, RadioRebootsSession, OutsideSession
<1>7. CASE \/ RadioHears \/ UNCHANGED vars
           \/ \E s \in Slots : RadioUpdates(s)
           \/ \E p \in outbound : OutboundExpires(p)
    <2>1. UNCHANGED <<registryVars, done, hub, stat, pc, frm, toRadio, link, cancelled>>
        BY <1>7 DEF RadioHears, RadioUpdates, OutboundExpires, vars
    <2>2. Stable /\ FrmOK'
        BY <2>1, StayStep
    <2> QED
        BY <2>1, <2>2, Kept, StayQuiet DEF SessionInv
<1> QED
    BY <1>1, <1>2, <1>3, <1>4, <1>5, <1>6, <1>7 DEF Next

LEMMA SessionInvariant == Spec => [](TypeOK /\ LocalsOK /\ SenderOK /\ RegistryInv /\ SessionInv)
<1> DEFINE Inv == TypeOK /\ LocalsOK /\ SenderOK /\ RegistryInv /\ SessionInv
<1>1. Init => Inv
    BY InitType, InitRegistry, InitSession
<1>2. Inv /\ [Next]_vars => Inv'
    BY NextType, NextRegistry, NextSession
<1> QED
    BY <1>1, <1>2, PTL DEF Spec

\* The status the web UI shows is consistent, for any number of clients and however
\* many goroutines are inside PublishStatus with copies of different ages.
THEOREM StatusCorrect == Spec => []StatusConsistent
<1>1. SessionInv => StatusConsistent
    BY DEF SessionInv, StatOK, Consistent, StatusConsistent
<1> QED
    BY <1>1, SessionInvariant, PTL

\* With READ_ONLY_CLIENTS no ordinary client ever has a packet on its way to the radio,
\* although the primary is checked when a message is read and may have been replaced
\* by the time it is written.
THEOREM ReadOnlyCorrect == Spec => []ReadOnlyRespected
<1>1. SessionInv => ReadOnlyRespected
    BY DEF SessionInv, WireOK, Allowed, ReadOnlyRespected
<1> QED
    BY <1>1, SessionInvariant, PTL

\* The broker with all its goroutines implements the session that the supervisor is
\* written against: done is closed for good and only for a reason, Run returns only
\* with done closed, and a closed connection never comes back.
THEOREM BrokerIsSession == Spec => ImplementsSession
<1>1. Init => Outside!Init
    BY InitSession
<1>2. /\ TypeOK /\ LocalsOK /\ SenderOK /\ RegistryInv /\ SessionInv
      /\ [Next]_vars
      => [Outside!Next]_(Outside!vars)
    BY NextSession DEF SessionStep
<1> QED
    BY <1>1, <1>2, SessionInvariant, PTL DEF Spec, ImplementsSession, Outside!Spec
=============================================================================
