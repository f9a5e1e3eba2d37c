-------------------------- MODULE BrokerHandshake --------------------------
(***************************************************************************)
(* The config handshake of Broker, for every value of the constants: a     *)
(* WantConfigId is answered at most once and to the client that sent it,   *)
(* whatever retries, reboots, reused nonces and late answers do.  The      *)
(* argument follows a request id through the places that can hold it: a    *)
(* goroutine's request, pendingConfig, the table handleRebooted has taken  *)
(* and a ConfigCompleteId being sent.  An id is in one place at a time,    *)
(* every step moves it or forgets it, and an answered id is in none.       *)
(*                                                                         *)
(* A client also has one request in pendingConfig at a time, and none once *)
(* its reader has cleaned up, unless its reader drops its requests just    *)
(* while handleRebooted has one of them in hand (Overlooked).              *)
(***************************************************************************)
EXTENDS BrokerRegistry

\* The id a frame answers, if it is a ConfigCompleteId.
FrameId(f) == IF f # Nil /\ f.kind = "done" THEN f.id ELSE NoReq.id

Places == ({"req", "frm"} \X Threads) \cup ({"pending", "old"} \X Nonces)
idAt == [p \in Places |-> IF p[1] = "req" THEN req[p[2]].id
                          ELSE IF p[1] = "frm" THEN FrameId(frm[p[2]])
                          ELSE IF p[1] = "pending" THEN pendingConfig[p[2]].id
                          ELSE old[p[2]].id]

\* An id is in one place, it has been asked with, and it has not been answered.
UniqueOK == \A p, q \in Places : idAt[p] \in RequestIds /\ idAt[p] = idAt[q] => p = q
AskedOK  == \A p \in Places : idAt[p] \in RequestIds => idAt[p][2] <= asked[idAt[p][1]]
AnsweredOK == \A c \in Clients : \A k \in Dones(c) :
    /\ out[c][k].id \in RequestIds /\ out[c][k].id[1] = c
    /\ out[c][k].id[2] <= asked[c]
    /\ \A p \in Places : idAt[p] # out[c][k].id
IdsOK == UniqueOK /\ AskedOK /\ AnsweredOK /\ AnsweredOnce

\* A request belongs to the client named in its id, and a reader serves its own.
OwnedBy(r) == r.id \in RequestIds => r.id[1] = r.client
OwnerOK == /\ \A t \in Threads : OwnedBy(req[t])
           /\ \A n \in Nonces : OwnedBy(pendingConfig[n]) /\ OwnedBy(old[n])
ReaderOK == \A c \in Clients : req[Reader(c)].id \in RequestIds => req[Reader(c)].client = c

\* A ConfigCompleteId is held only to be sent, and to one client.
SendingOK == \A t \in Threads :
    frm[t] # Nil /\ frm[t].kind = "done" => pc[t] = "send" /\ todo[t] = {frm[t].id[1]}

HandshakeInv == IdsOK /\ OwnerOK /\ ReaderOK /\ SendingOK

USE DEF registryVars, queueVars, configVars, echoVars, workVars, callVars, wireVars,
        envVars

-----------------------------------------------------------------------------
(* Steps that only forget ids *)

LEMMA PlaceTypes ==
    /\ \A t \in Threads : <<"req", t>> \in Places /\ <<"frm", t>> \in Places
    /\ \A n \in Nonces : <<"pending", n>> \in Places /\ <<"old", n>> \in Places
    /\ \A p \in Places : \/ \E t \in Threads : p = <<"req", t>> \/ p = <<"frm", t>>
                         \/ \E n \in Nonces : p = <<"pending", n>> \/ p = <<"old", n>>
BY DEF Places

LEMMA IdAt ==
    /\ \A t \in Threads : /\ idAt[<<"req", t>>] = req[t].id
                          /\ idAt[<<"frm", t>>] = FrameId(frm[t])
    /\ \A n \in Nonces : /\ idAt[<<"pending", n>>] = pendingConfig[n].id
                         /\ idAt[<<"old", n>>] = old[n].id
BY PlaceTypes DEF idAt

LEMMA IdAtNext ==
    /\ \A t \in Threads : /\ idAt'[<<"req", t>>] = req'[t].id
                          /\ idAt'[<<"frm", t>>] = FrameId(frm'[t])
    /\ \A n \in Nonces : /\ idAt'[<<"pending", n>>] = pendingConfig'[n].id
                         /\ idAt'[<<"old", n>>] = old'[n].id
BY PlaceTypes DEF idAt

LEMMA NoReqId == NoReq.id \notin RequestIds /\ BootId \notin RequestIds
BY BrokerAssumptions DEF NoReq, BootId, RequestIds

\* What each kind of place held is still there or forgotten.
ReqKept  == \A t \in Threads : req'[t] = req[t] \/ req'[t].id \notin RequestIds
FrmKept  == \A t \in Threads : frm'[t] = frm[t] \/ FrameId(frm'[t]) \notin RequestIds
PendKept == \A n \in Nonces :
    pendingConfig'[n] = pendingConfig[n] \/ pendingConfig'[n].id \notin RequestIds
OldKept  == \A n \in Nonces : old'[n] = old[n] \/ old'[n].id \notin RequestIds

KeptAt(p) == idAt'[p] = idAt[p] \/ idAt'[p] \notin RequestIds

LEMMA KeptPlaces ==
    /\ ReqKept => \A t \in Threads : KeptAt(<<"req", t>>)
    /\ FrmKept => \A t \in Threads : KeptAt(<<"frm", t>>)
    /\ PendKept => \A n \in Nonces : KeptAt(<<"pending", n>>)
    /\ OldKept => \A n \in Nonces : KeptAt(<<"old", n>>)
BY IdAt, IdAtNext DEF ReqKept, FrmKept, PendKept, OldKept, KeptAt

LEMMA KeptEach ==
    /\ \A t \in Threads : /\ req'[t] = req[t] => KeptAt(<<"req", t>>)
                          /\ frm'[t] = frm[t] => KeptAt(<<"frm", t>>)
    /\ \A n \in Nonces : /\ pendingConfig'[n] = pendingConfig[n] => KeptAt(<<"pending", n>>)
                         /\ old'[n] = old[n] => KeptAt(<<"old", n>>)
BY IdAt, IdAtNext DEF KeptAt

\* No answer is queued, and nobody takes back a message.
AnswersKept == \A c \in Clients : /\ Dones(c)' = Dones(c)
                                  /\ \A k \in Dones(c) : out'[c][k] = out[c][k]
Later == \A c \in Clients : asked'[c] \in Nat /\ asked[c] <= asked'[c]

LEMMA LaterAsked ==
    ASSUME TypeOK
    PROVE  /\ UNCHANGED asked => Later
           /\ \A c \in Clients : \A kind : Message(c, kind) => Later
<1>1. \A c \in Clients : asked[c] \in Nat /\ asked[c] <= asked[c] /\ asked[c] <= asked[c] + 1
    BY DEF TypeOK, EnvType
<1>2. ASSUME NEW c \in Clients, NEW kind, Message(c, kind) PROVE Later
    BY <1>1, <1>2 DEF TypeOK, EnvType, Message, Later
<1> QED
    BY <1>1, <1>2 DEF Later

LEMMA SameAnswers == ASSUME UNCHANGED out PROVE AnswersKept
BY DEF AnswersKept, Dones

LEMMA QueuedAnswers ==
    ASSUME TypeOK, NEW c \in Clients, NEW f, f.kind # "done", Accept(c, f)
    PROVE  AnswersKept
<1> SUFFICES ASSUME NEW d \in Clients
             PROVE  /\ Dones(d)' = Dones(d)
                    /\ \A k \in Dones(d) : out'[d][k] = out[d][k]
    BY DEF AnswersKept
<1>1. CASE d # c
    BY <1>1 DEF TypeOK, QueueType, Accept, Dones
<1>2. CASE d = c
    <2>1. out'[c] = Append(out[c], f) /\ out[c] \in Seq(ToClient)
        BY DEF TypeOK, QueueType, Accept
    <2>2. /\ Len(out'[c]) = Len(out[c]) + 1 /\ Len(out[c]) \in Nat
          /\ out'[c][Len(out[c]) + 1] = f
          /\ \A k \in 1..Len(out[c]) : out'[c][k] = out[c][k]
        BY <2>1
    <2>3. 1..Len(out'[c]) = 1..Len(out[c]) \cup {Len(out[c]) + 1}
        BY <2>2
    <2> QED
        BY <1>2, <2>2, <2>3 DEF Dones
<1> QED
    BY <1>1, <1>2

\* No id appears from nowhere.
LEMMA KnownIds ==
    ASSUME TypeOK, IdsOK, AnswersKept, Later,
           \A p \in Places : idAt'[p] \in RequestIds => \E q \in Places : idAt'[p] = idAt[q]
    PROVE  AskedOK' /\ AnsweredOK' /\ AnsweredOnce'
<1>1. \A c \in Clients : asked[c] \in Nat
    BY DEF TypeOK, EnvType
<1>2. ASSUME NEW p \in Places, idAt'[p] \in RequestIds
      PROVE  idAt'[p][2] <= asked'[idAt'[p][1]]
    <2>1. idAt'[p][1] \in Clients /\ idAt'[p][2] \in Nat
        BY <1>2 DEF RequestIds
    <2>2. idAt'[p][2] <= asked[idAt'[p][1]]
        BY <1>2 DEF IdsOK, AskedOK
    <2>3. asked'[idAt'[p][1]] \in Nat /\ asked[idAt'[p][1]] <= asked'[idAt'[p][1]]
        BY <2>1 DEF Later
    <2> QED
        BY <2>1, <2>2, <2>3, <1>1
<1>3. ASSUME NEW c \in Clients, NEW k \in Dones(c)'
      PROVE  /\ k \in Dones(c) /\ out'[c][k] = out[c][k]
             /\ out[c][k].id \in RequestIds /\ out[c][k].id[1] = c
             /\ out[c][k].id[2] <= asked'[c]
             /\ \A p \in Places : idAt'[p] # out[c][k].id
    <2>1. k \in Dones(c) /\ out'[c][k] = out[c][k]
        BY <1>3 DEF AnswersKept
    <2>2. out[c][k].id \in RequestIds /\ out[c][k].id[1] = c /\ out[c][k].id[2] <= asked[c]
        BY <2>1 DEF IdsOK, AnsweredOK
    <2>3. \A p \in Places : idAt[p] # out[c][k].id
        BY <2>1 DEF IdsOK, AnsweredOK
    <2>4. out[c][k].id[2] \in Nat
        BY <2>2 DEF RequestIds
    <2>5. out[c][k].id[2] <= asked'[c]
        BY <1>1, <2>2, <2>4 DEF Later
    <2> QED
        BY <2>1, <2>2, <2>3, <2>5
<1>4. AskedOK'
    BY <1>2 DEF AskedOK
<1>5. AnsweredOK'
    BY <1>3 DEF AnsweredOK
<1>6. AnsweredOnce'
    BY <1>3 DEF IdsOK, AnsweredOnce
<1> QED
    BY <1>4, <1>5, <1>6

LEMMA ErasedIds ==
    ASSUME TypeOK, IdsOK, AnswersKept, Later, \A p \in Places : KeptAt(p)
    PROVE  IdsOK'
<1>1. AskedOK' /\ AnsweredOK' /\ AnsweredOnce'
    BY KnownIds DEF KeptAt
<1>2. UniqueOK'
    BY DEF IdsOK, UniqueOK, KeptAt
<1> QED
    BY <1>1, <1>2 DEF IdsOK

\* The id at a moves to b.
LEMMA MovedIds ==
    ASSUME TypeOK, IdsOK, AnswersKept, Later, NEW a \in Places, NEW b \in Places,
           idAt'[b] = idAt[a], idAt'[a] \notin RequestIds,
           \A p \in Places \ {a, b} : KeptAt(p)
    PROVE  IdsOK'
<1>1. AskedOK' /\ AnsweredOK' /\ AnsweredOnce'
    BY KnownIds DEF KeptAt
<1>2. UniqueOK'
    BY DEF IdsOK, UniqueOK, KeptAt
<1> QED
    BY <1>1, <1>2 DEF IdsOK

\* The id at a is answered.
LEMMA AnsweredIds ==
    ASSUME TypeOK, IdsOK, UNCHANGED asked, NEW a \in Places, NEW via,
           NEW c \in Clients, idAt[a] \in RequestIds, idAt[a][1] = c,
           Accept(c, DoneFrame(idAt[a], via)),
           idAt'[a] \notin RequestIds, \A p \in Places \ {a} : KeptAt(p)
    PROVE  IdsOK'
<1> DEFINE i == idAt[a]
           f == DoneFrame(i, via)
           m == Len(out[c]) + 1
<1>1. c \in Clients /\ i \in RequestIds /\ i[2] \in Nat /\ i[2] <= asked[c] /\ i[1] = c
    BY DEF RequestIds, IdsOK, AskedOK
<1>2. f.kind = "done" /\ f.id = i
    BY DEF DoneFrame
<1>3. out' = [out EXCEPT ![c] = Append(out[c], f)] /\ out[c] \in Seq(ToClient)
    BY <1>1 DEF TypeOK, QueueType, Accept
<1>4. /\ Len(out'[c]) = m /\ m \in Nat /\ out'[c][m] = f
      /\ \A k \in 1..Len(out[c]) : out'[c][k] = out[c][k]
      /\ 1..m = 1..Len(out[c]) \cup {m} /\ m \notin 1..Len(out[c])
    <2>1. out'[c] = Append(out[c], f)
        BY <1>1, <1>3 DEF TypeOK, QueueType
    <2> HIDE DEF f
    <2> QED
        BY <1>3, <2>1
<1>5. \A d \in Clients \ {c} : out'[d] = out[d]
    BY <1>3 DEF TypeOK, QueueType
<1>6. Dones(c)' = Dones(c) \cup {m} /\ m \notin Dones(c)
    BY <1>2, <1>4 DEF Dones
<1>7. \A d \in Clients \ {c} : Dones(d)' = Dones(d)
    BY <1>5 DEF Dones
<1>8. \A d \in Clients : \A k \in Dones(d) : out'[d][k] = out[d][k] /\ out[d][k].id # i
    BY <1>4, <1>5 DEF IdsOK, AnsweredOK, Dones
<1>9. \A p \in Places : idAt'[p] # i
    BY DEF IdsOK, UniqueOK, KeptAt
<1> HIDE DEF i, f, m
<1>10. UniqueOK' /\ AskedOK'
    <2>1. \A p \in Places : KeptAt(p)
        BY DEF KeptAt
    <2> QED
        BY <2>1 DEF IdsOK, UniqueOK, AskedOK, KeptAt
<1>11. AnsweredOK'
    <2>1. ASSUME NEW d \in Clients, NEW k \in Dones(d)'
          PROVE  /\ out'[d][k].id \in RequestIds /\ out'[d][k].id[1] = d
                 /\ out'[d][k].id[2] <= asked[d]
                 /\ \A p \in Places : idAt'[p] # out'[d][k].id
        <3>1. CASE k \in Dones(d)
            BY <1>8, <3>1 DEF IdsOK, AnsweredOK, KeptAt
        <3>2. CASE d = c /\ k = m
            BY <1>1, <1>2, <1>4, <1>9, <3>2
        <3> QED
            BY <1>6, <1>7, <2>1, <3>1, <3>2
    <2> QED
        BY <2>1 DEF AnsweredOK
<1>12. AnsweredOnce'
    <2>1. ASSUME NEW d \in Clients, NEW j \in Dones(d)', NEW k \in Dones(d)',
                 out'[d][j].id = out'[d][k].id
          PROVE  j = k
        <3>1. CASE d # c
            BY <1>7, <1>8, <2>1, <3>1 DEF IdsOK, AnsweredOnce
        <3>2. CASE d = c /\ j \in Dones(c) /\ k \in Dones(c)
            BY <1>8, <2>1, <3>2 DEF IdsOK, AnsweredOnce
        <3>3. CASE d = c /\ j # k /\ (j = m \/ k = m)
            BY <1>2, <1>4, <1>6, <1>8, <2>1, <3>3
        <3> QED
            BY <1>6, <2>1, <3>1, <3>2, <3>3
    <2>2. \A d \in Clients : \A k \in Dones(d)' : out'[d][k].id[1] = d
        BY <1>11 DEF AnsweredOK
    <2> QED
        BY <2>1, <2>2 DEF AnsweredOnce
<1> QED
    BY <1>10, <1>11, <1>12 DEF IdsOK

\* Client c asks with its next id, held at a.
LEMMA OpenedIds ==
    ASSUME TypeOK, IdsOK, AnswersKept, NEW c \in Clients, NEW a \in Places,
           asked' = [asked EXCEPT ![c] = @ + 1], idAt'[a] = <<c, asked[c] + 1>>,
           \A p \in Places \ {a} : KeptAt(p)
    PROVE  IdsOK'
<1>1. /\ \A d \in Clients : asked[d] \in Nat /\ asked'[d] \in Nat /\ asked[d] <= asked'[d]
      /\ asked'[c] = asked[c] + 1
    BY DEF TypeOK, EnvType
<1>2. idAt'[a][1] = c /\ idAt'[a][2] = asked[c] + 1
    OBVIOUS
<1>3. \A p \in Places : idAt[p] # idAt'[a]
    <2>1. ASSUME NEW p \in Places, idAt[p] = idAt'[a] PROVE FALSE
        <3>1. idAt[p] \in RequestIds
            BY <1>1, <2>1 DEF RequestIds
        <3>2. idAt[p][2] <= asked[idAt[p][1]]
            BY <3>1 DEF IdsOK, AskedOK
        <3> QED
            BY <1>1, <1>2, <2>1, <3>2
    <2> QED
        BY <2>1
<1>4. UniqueOK'
    BY <1>3 DEF IdsOK, UniqueOK, KeptAt
<1>5. AskedOK'
    <2>1. ASSUME NEW p \in Places, idAt'[p] \in RequestIds
          PROVE  idAt'[p][2] <= asked'[idAt'[p][1]]
        <3>1. CASE p = a
            BY <1>1, <1>2, <3>1
        <3>2. CASE p # a
            <4>1. idAt'[p] = idAt[p] /\ idAt[p][1] \in Clients /\ idAt[p][2] \in Nat
                BY <2>1, <3>2 DEF KeptAt, RequestIds
            <4>2. idAt[p][2] <= asked[idAt[p][1]]
                BY <2>1, <4>1 DEF IdsOK, AskedOK
            <4> QED
                BY <1>1, <4>1, <4>2
        <3> QED
            BY <3>1, <3>2
    <2> QED
        BY <2>1 DEF AskedOK
<1>6. ASSUME NEW d \in Clients, NEW k \in Dones(d)'
      PROVE  /\ k \in Dones(d) /\ out'[d][k] = out[d][k]
             /\ out[d][k].id \in RequestIds /\ out[d][k].id[1] = d
             /\ out[d][k].id[2] <= asked'[d]
             /\ \A p \in Places : idAt'[p] # out[d][k].id
    <2>1. k \in Dones(d) /\ out'[d][k] = out[d][k]
        BY <1>6 DEF AnswersKept
    <2>2. out[d][k].id \in RequestIds /\ out[d][k].id[1] = d /\ out[d][k].id[2] <= asked[d]
        BY <2>1 DEF IdsOK, AnsweredOK
    <2>3. out[d][k].id[2] \in Nat
        BY <2>2 DEF RequestIds
    <2>4. out[d][k].id[2] <= asked'[d]
        BY <1>1, <2>2, <2>3
    <2>5. idAt'[a] # out[d][k].id
        BY <1>1, <1>2, <2>2, <2>3
    <2>6. \A p \in Places : idAt[p] # out[d][k].id
        BY <2>1 DEF IdsOK, AnsweredOK
    <2>7. \A p \in Places : idAt'[p] # out[d][k].id
        BY <2>2, <2>5, <2>6 DEF KeptAt
    <2> QED
        BY <2>1, <2>2, <2>4, <2>7
<1>7. AnsweredOK'
    BY <1>6 DEF AnsweredOK
<1>8. AnsweredOnce'
    BY <1>6 DEF IdsOK, AnsweredOnce
<1> QED
    BY <1>4, <1>5, <1>7, <1>8 DEF IdsOK

\* The invariant from what a step leaves alone.
LEMMA KeptHandshake ==
    ASSUME TypeOK, HandshakeInv, AnswersKept, Later, ReqKept, FrmKept, PendKept, OldKept,
           SendingOK'
    PROVE  HandshakeInv'
<1>1. \A p \in Places : KeptAt(p)
    BY PlaceTypes, KeptPlaces
<1>2. IdsOK'
    BY <1>1, ErasedIds DEF HandshakeInv
<1>3. OwnerOK'
    BY DEF HandshakeInv, OwnerOK, OwnedBy, ReqKept, PendKept, OldKept
<1>4. ReaderOK'
    BY ThreadTypes DEF HandshakeInv, ReaderOK, ReqKept
<1> QED
    BY <1>2, <1>3, <1>4 DEF HandshakeInv

LEMMA SameKept ==
    /\ UNCHANGED req => ReqKept
    /\ UNCHANGED frm => FrmKept
    /\ UNCHANGED pendingConfig => PendKept
    /\ UNCHANGED old => OldKept
BY DEF ReqKept, FrmKept, PendKept, OldKept

LEMMA DropPendingKept == ASSUME NEW c, DropPending(c) PROVE PendKept
BY NoReqId DEF DropPending, PendKept

LEMMA StaySending ==
    ASSUME HandshakeInv, UNCHANGED <<pc, frm, todo>>
    PROVE  FrmKept /\ SendingOK'
BY DEF HandshakeInv, SendingOK, FrmKept

\* A goroutine that is not sending has no ConfigCompleteId to lose.
LEMMA OtherSending ==
    ASSUME HandshakeInv, NEW t \in Threads, pc[t] # "send",
           frm'[t] = frm[t] \/ frm'[t] = Nil \/ frm'[t].kind # "done",
           \A u \in Threads \ {t} : pc'[u] = pc[u] /\ frm'[u] = frm[u] /\ todo'[u] = todo[u]
    PROVE  FrmKept /\ SendingOK'
<1>1. frm[t] = Nil \/ frm[t].kind # "done"
    BY DEF HandshakeInv, SendingOK
<1>2. FrmKept
    BY NoReqId DEF FrmKept, FrameId
<1>3. SendingOK'
    BY <1>1 DEF HandshakeInv, SendingOK
<1> QED
    BY <1>2, <1>3

LEMMA FinishKept ==
    ASSUME TypeOK, HandshakeInv, NEW t \in Threads, Finish(t)
    PROVE  FrmKept /\ SendingOK' /\ ReqKept
<1>1. /\ frm'[t] = Nil /\ req'[t] = NoReq
      /\ \A u \in Threads \ {t} : /\ pc'[u] = pc[u] /\ frm'[u] = frm[u]
                                  /\ todo'[u] = todo[u] /\ req'[u] = req[u]
    BY DEF TypeOK, WorkType, Finish, Goto
<1>2. FrmKept
    BY <1>1, NoReqId DEF FrmKept, FrameId
<1>3. SendingOK'
    BY <1>1 DEF HandshakeInv, SendingOK
<1>4. ReqKept
    BY <1>1, NoReqId DEF ReqKept
<1> QED
    BY <1>2, <1>3, <1>4

LEMMA StayHandshake ==
    ASSUME TypeOK, HandshakeInv, Later,
           UNCHANGED <<pc, frm, todo, req, pendingConfig, old, out>>
    PROVE  HandshakeInv'
BY StaySending, SameKept, SameAnswers, KeptHandshake

LEMMA GotoHandshake ==
    ASSUME TypeOK, HandshakeInv, NEW t \in Threads, NEW l, Goto(t, l), pc[t] # "send",
           \A u \in Threads \ {t} : frm'[u] = frm[u] /\ todo'[u] = todo[u],
           frm'[t] = frm[t] \/ frm'[t] = Nil \/ frm'[t].kind # "done",
           Later, UNCHANGED <<req, pendingConfig, old, out>>
    PROVE  HandshakeInv'
<1>1. \A u \in Threads \ {t} : pc'[u] = pc[u]
    BY DEF TypeOK, WorkType, Goto
<1>2. FrmKept /\ SendingOK'
    BY <1>1, OtherSending
<1> QED
    BY <1>2, SameKept, SameAnswers, KeptHandshake

LEMMA FailedHandshake ==
    ASSUME TypeOK, HandshakeInv, NEW t \in Threads, SerialFailed(t)
    PROVE  HandshakeInv'
<1>1. FrmKept /\ SendingOK' /\ ReqKept
    BY FinishKept DEF SerialFailed
<1>2. OldKept
    BY NoReqId DEF SerialFailed, OldKept
<1>3. UNCHANGED <<pendingConfig, out, asked>>
    BY DEF SerialFailed
<1> QED
    BY <1>1, <1>2, <1>3, SameKept, SameAnswers, LaterAsked, KeptHandshake

-----------------------------------------------------------------------------
(* One lemma per action *)

LEMMA UnlinkHandshake ==
    ASSUME TypeOK, LocalsOK, SenderOK, RegistryInv, HandshakeInv, NEW t \in Threads, Unlink(t)
    PROVE  HandshakeInv'
BY LaterAsked, StayHandshake DEF Unlink

LEMMA DropRemovedHandshake ==
    ASSUME TypeOK, LocalsOK, SenderOK, RegistryInv, HandshakeInv, NEW t \in Threads,
       DropRemoved(t)
    PROVE  HandshakeInv'
<1>1. FrmKept /\ SendingOK' /\ PendKept
    BY StaySending, DropPendingKept DEF DropRemoved
<1> QED
    BY <1>1, SameKept, SameAnswers, LaterAsked, KeptHandshake DEF DropRemoved

LEMMA CloseHandshake ==
    ASSUME TypeOK, LocalsOK, SenderOK, RegistryInv, HandshakeInv, NEW t \in Threads, Close(t)
    PROVE  HandshakeInv'
BY LaterAsked, StayHandshake DEF Close

LEMMA ReadRegistryHandshake ==
    ASSUME TypeOK, LocalsOK, SenderOK, RegistryInv, HandshakeInv, NEW t \in Threads,
       ReadRegistry(t)
    PROVE  HandshakeInv'
BY LaterAsked, StayHandshake DEF ReadRegistry

LEMMA ReadCacheHandshake ==
    ASSUME TypeOK, LocalsOK, SenderOK, RegistryInv, HandshakeInv, NEW t \in Threads,
       ReadCache(t)
    PROVE  HandshakeInv'
BY LaterAsked, StayHandshake DEF ReadCache

LEMMA SetStatusHandshake ==
    ASSUME TypeOK, LocalsOK, SenderOK, RegistryInv, HandshakeInv, NEW t \in Threads,
       SetStatus(t)
    PROVE  HandshakeInv'
BY LaterAsked, StayHandshake DEF SetStatus

LEMMA ReserveHandshake ==
    ASSUME TypeOK, LocalsOK, SenderOK, RegistryInv, HandshakeInv, NEW t \in Threads, Reserve(t)
    PROVE  HandshakeInv'
<1> DEFINE a == <<"req", t>>
<1>1. PICK n \in FreeNonces : /\ pendingConfig' = [pendingConfig EXCEPT ![n] = req[t]]
                              /\ frm' = [frm EXCEPT ![t] = WantMsg(n)]
    BY DEF Reserve
<1> DEFINE b == <<"pending", n>>
<1>2. n \in Nonces /\ a \in Places /\ b \in Places
    BY PlaceTypes DEF FreeNonces
<1>3. /\ pendingConfig'[n] = req[t] /\ req'[t] = NoReq
      /\ \A m \in Nonces \ {n} : pendingConfig'[m] = pendingConfig[m]
      /\ \A u \in Threads \ {t} : req'[u] = req[u]
    BY <1>1, <1>2 DEF TypeOK, ConfigType, WorkType, Reserve
<1>4. FrmKept /\ SendingOK'
    <2>1. frm'[t].kind # "done"
        BY <1>1 DEF TypeOK, WorkType, WantMsg
    <2>2. \A u \in Threads \ {t} : pc'[u] = pc[u] /\ frm'[u] = frm[u] /\ todo'[u] = todo[u]
        BY <1>1 DEF TypeOK, WorkType, Reserve, Goto
    <2> QED
        BY <2>1, <2>2, OtherSending DEF Reserve, At
<1>5. OldKept /\ AnswersKept /\ Later
    BY SameKept, SameAnswers, LaterAsked DEF Reserve
<1>6. IdsOK'
    <2>1. idAt'[b] = idAt[a] /\ idAt'[a] \notin RequestIds
        BY <1>2, <1>3, IdAt, IdAtNext, NoReqId
    <2>2. /\ \A u \in Threads : KeptAt(<<"frm", u>>)
          /\ \A m \in Nonces : KeptAt(<<"old", m>>)
        BY <1>4, <1>5, KeptPlaces
    <2>3. /\ \A u \in Threads \ {t} : KeptAt(<<"req", u>>)
          /\ \A m \in Nonces \ {n} : KeptAt(<<"pending", m>>)
        BY <1>3, KeptEach
    <2>4. \A p \in Places \ {a, b} : KeptAt(p)
        BY <2>2, <2>3, PlaceTypes
    <2> QED
        BY <1>2, <1>5, <2>1, <2>4, MovedIds DEF HandshakeInv
<1>7. OwnerOK'
    BY <1>3, <1>5, NoReqId DEF HandshakeInv, OwnerOK, OwnedBy, OldKept
<1>8. ReaderOK'
    BY <1>3, NoReqId, ThreadTypes DEF HandshakeInv, ReaderOK
<1> QED
    BY <1>4, <1>6, <1>7, <1>8 DEF HandshakeInv

LEMMA ForwardHandshake ==
    ASSUME TypeOK, LocalsOK, SenderOK, RegistryInv, HandshakeInv, NEW t \in Threads, Forward(t)
    PROVE  HandshakeInv'
<1>1. CASE SerialFailed(t)
    BY <1>1, FailedHandshake
<1>2. CASE Goto(t, "write") /\ UNCHANGED <<frm, todo, req, pendingConfig, old, out, asked>>
    BY <1>2, LaterAsked, GotoHandshake DEF Forward, At
<1> QED
    BY <1>1, <1>2 DEF Forward

LEMMA WriteSerialHandshake ==
    ASSUME TypeOK, LocalsOK, SenderOK, RegistryInv, HandshakeInv, NEW t \in Threads,
       WriteSerial(t)
    PROVE  HandshakeInv'
<1>1. CASE SerialFailed(t)
    BY <1>1, FailedHandshake
<1>2. CASE /\ Goto(t, AfterWrite(t))
           /\ frm' = IF frm[t].kind = "pkt" THEN frm ELSE [frm EXCEPT ![t] = Nil]
           /\ UNCHANGED <<todo, req, pendingConfig, old, out, asked>>
    <2>1. frm'[t] \in {frm[t], Nil} /\ \A u \in Threads \ {t} : frm'[u] = frm[u]
        BY <1>2 DEF TypeOK, WorkType
    <2> QED
        BY <1>2, <2>1, LaterAsked, GotoHandshake DEF WriteSerial, At
<1> QED
    BY <1>1, <1>2 DEF WriteSerial

LEMMA CastHandshake ==
    ASSUME TypeOK, LocalsOK, SenderOK, RegistryInv, HandshakeInv, NEW t \in Threads, Cast(t)
    PROVE  HandshakeInv'
<1>1. CASE Finish(t)
    <2>1. FrmKept /\ SendingOK' /\ ReqKept
        BY <1>1, FinishKept
    <2> QED
        BY <2>1, SameKept, SameAnswers, LaterAsked, KeptHandshake DEF Cast
<1>2. CASE /\ todo' = [todo EXCEPT ![t] = clients \ {t[2]}]
           /\ Goto(t, "send") /\ UNCHANGED <<frm, req>>
    <2>1. \A u \in Threads \ {t} : todo'[u] = todo[u]
        BY <1>2 DEF TypeOK, WorkType
    <2> QED
        BY <1>2, <2>1, LaterAsked, GotoHandshake DEF Cast, At
<1> QED
    BY <1>1, <1>2 DEF Cast

LEMMA SendHandshake ==
    ASSUME TypeOK, LocalsOK, SenderOK, RegistryInv, HandshakeInv, NEW t \in Threads, NEW c \in
       Clients, Send(t, c)
    PROVE  HandshakeInv'
<1>1. frm[t] \in ToClient /\ frm[t] # Nil
    BY NilIsNoFrame DEF LocalsOK, Send, At
<1>2. UNCHANGED <<pendingConfig, old, asked>>
    BY DEF Send
<1>3. CASE frm[t].kind = "done"
    <2>1. frm[t] \in DoneFrames /\ frm[t].id \in RequestIds /\ todo[t] = {frm[t].id[1]}
        BY <1>1, <1>3, FrameKinds DEF HandshakeInv, SendingOK, ToClient
    <2>2. c = frm[t].id[1] /\ Finish(t)
        BY <2>1 DEF Send
    <2>3. FrmKept /\ SendingOK' /\ ReqKept
        BY <2>2, FinishKept
    <2>4. CASE UNCHANGED out
        BY <1>2, <2>3, <2>4, SameKept, SameAnswers, LaterAsked, KeptHandshake
    <2>5. CASE Accept(c, frm[t])
        <3> DEFINE a == <<"frm", t>>
        <3>1. a \in Places /\ idAt[a] = frm[t].id /\ idAt'[a] \notin RequestIds
            <4>1. frm'[t] = Nil
                BY <2>2 DEF TypeOK, WorkType, Finish
            <4> QED
                BY <1>1, <1>3, <4>1, PlaceTypes, IdAt, IdAtNext, NoReqId DEF FrameId
        <3>2. frm[t] = DoneFrame(frm[t].id, frm[t].via)
            BY <2>1 DEF DoneFrames, DoneFrame
        <3>3. \A p \in Places : KeptAt(p)
            BY <1>2, <2>3, SameKept, PlaceTypes, KeptPlaces
        <3>4. IdsOK'
            BY <1>2, <2>1, <2>2, <2>5, <3>1, <3>2, <3>3, AnsweredIds DEF HandshakeInv
        <3>5. OwnerOK'
            BY <1>2, <2>3 DEF HandshakeInv, OwnerOK, OwnedBy, ReqKept
        <3>6. ReaderOK'
            BY <2>3, ThreadTypes DEF HandshakeInv, ReaderOK, ReqKept
        <3> QED
            BY <2>3, <3>4, <3>5, <3>6 DEF HandshakeInv
    <2> QED
        BY <2>4, <2>5 DEF Send
<1>4. CASE frm[t].kind # "done"
    <2>1. AnswersKept
        <3>1. CASE UNCHANGED out
            BY <3>1, SameAnswers
        <3>2. CASE Accept(c, frm[t]) /\ frm[t].kind # "done"
            BY <3>2, QueuedAnswers
        <3> QED
            BY <1>1, <1>4, <3>1, <3>2 DEF Send
    <2>2. FrmKept /\ SendingOK' /\ ReqKept
        <3>1. CASE Finish(t)
            BY <3>1, FinishKept
        <3>2. CASE todo' = [todo EXCEPT ![t] = @ \ {c}] /\ UNCHANGED <<pc, frm, req>>
            <4>1. \A u \in Threads \ {t} : todo'[u] = todo[u]
                BY <3>2 DEF TypeOK, WorkType
            <4> QED
                BY <1>4, <3>2, <4>1, SameKept DEF HandshakeInv, SendingOK
        <3> QED
            BY <3>1, <3>2 DEF Send
    <2> QED
        BY <1>2, <2>1, <2>2, SameKept, LaterAsked, KeptHandshake
<1> QED
    BY <1>3, <1>4

LEMMA SerialLoopHandshake ==
    ASSUME TypeOK, LocalsOK, SenderOK, RegistryInv, HandshakeInv, SerialLoop
    PROVE  HandshakeInv'
BY LaterAsked, GotoHandshake, ThreadTypes DEF SerialLoop, At

LEMMA SerialErrorHandshake ==
    ASSUME TypeOK, LocalsOK, SenderOK, RegistryInv, HandshakeInv, SerialError
    PROVE  HandshakeInv'
BY LaterAsked, GotoHandshake, ThreadTypes DEF SerialError, At

LEMMA SerialGlitchHandshake ==
    ASSUME TypeOK, LocalsOK, SenderOK, RegistryInv, HandshakeInv, SerialGlitch
    PROVE  HandshakeInv'
BY LaterAsked, GotoHandshake, ThreadTypes DEF SerialGlitch, At

LEMMA SerialConfigHandshake ==
    ASSUME TypeOK, LocalsOK, SenderOK, RegistryInv, HandshakeInv, SerialConfig
    PROVE  HandshakeInv'
BY LaterAsked, GotoHandshake, ThreadTypes DEF TypeOK, WorkType, SerialConfig, At, ReadFrame

LEMMA SerialCompleteHandshake ==
    ASSUME TypeOK, LocalsOK, SenderOK, RegistryInv, HandshakeInv, SerialComplete
    PROVE  HandshakeInv'
<1> DEFINE n == Head(fromRadio).nonce
           r == pendingConfig[n]
<1>1. n \in Nonces
    BY HeadTyped, FrameKinds DEF TypeOK, SerialComplete, ReadFrame
<1>2. /\ pendingConfig'[n] = NoReq
      /\ \A m \in Nonces \ {n} : pendingConfig'[m] = pendingConfig[m]
    BY <1>1 DEF TypeOK, ConfigType, SerialComplete, TakeRequest
<1>3. r \in Requests \cup {NoReq}
    BY <1>1 DEF TypeOK, ConfigType
<1>4. UNCHANGED <<out, asked, req, old>> /\ pc[Serial] # "send"
    BY DEF SerialComplete, ReadFrame, At
<1>5. AnswersKept /\ Later /\ ReqKept /\ OldKept
    BY <1>4, SameAnswers, LaterAsked, SameKept
<1>6. PendKept
    BY <1>2, NoReqId DEF PendKept
<1>7. CASE UNCHANGED <<frm, todo>>
    <2>1. \A u \in Threads \ {Serial} : pc'[u] = pc[u]
        BY <1>7 DEF TypeOK, WorkType, SerialComplete, Goto
    <2>2. FrmKept /\ SendingOK'
        BY <1>4, <1>7, <2>1, OtherSending, ThreadTypes
    <2> QED
        BY <1>5, <1>6, <2>2, KeptHandshake
<1>8. CASE /\ r.client # Nil /\ frm' = [frm EXCEPT ![Serial] = DoneFrame(r.id, "radio")]
           /\ todo' = [todo EXCEPT ![Serial] = Addressee(r)] /\ Goto(Serial, "send")
    <2> HIDE DEF r, n
    <2>1. r.id \in RequestIds
        BY <1>3, <1>8 DEF Requests, NoReq
    <2>2. r.id[1] = r.client
        BY <1>1, <2>1 DEF r, HandshakeInv, OwnerOK, OwnedBy
    <2>3. DoneFrame(r.id, "radio").id = r.id /\ DoneFrame(r.id, "radio").kind = "done"
        BY DEF DoneFrame
    <2>4. /\ frm'[Serial] = DoneFrame(r.id, "radio") /\ todo'[Serial] = {r.id[1]}
          /\ pc'[Serial] = "send"
          /\ \A u \in Threads \ {Serial} : pc'[u] = pc[u] /\ frm'[u] = frm[u] /\ todo'[u] = todo[u]
        BY <1>8, <2>2, ThreadTypes DEF TypeOK, WorkType, Goto, Addressee
    <2>5. SendingOK'
        BY <2>3, <2>4 DEF HandshakeInv, SendingOK
    <2>6. DoneFrame(r.id, "radio") # Nil
        BY <2>1, FrameTypes, NilIsNoFrame DEF ToClient
    <2> DEFINE a == <<"pending", n>>
               b == <<"frm", Serial>>
    <2>7. a \in Places /\ b \in Places
        BY <1>1, ThreadTypes, PlaceTypes
    <2>8. idAt'[b] = idAt[a] /\ idAt'[a] \notin RequestIds
        <3>1. idAt[a] = r.id /\ idAt'[a] = NoReq.id
            BY <1>1, <1>2, IdAt, IdAtNext DEF r
        <3>2. idAt'[b] = FrameId(frm'[Serial])
            BY IdAtNext, ThreadTypes
        <3> QED
            BY <2>3, <2>4, <2>6, <3>1, <3>2, NoReqId DEF FrameId
    <2>9. \A u \in Threads \ {Serial} : KeptAt(<<"frm", u>>)
        BY <2>4, KeptEach
    <2>10. \A p \in Places \ {a, b} : KeptAt(p)
        BY <1>5, <1>6, <2>9, KeptPlaces, PlaceTypes
    <2>11. IdsOK'
        BY <1>5, <2>7, <2>8, <2>10, MovedIds DEF HandshakeInv
    <2>12. OwnerOK' /\ ReaderOK'
        BY <1>4, <1>6 DEF HandshakeInv, OwnerOK, OwnedBy, ReaderOK, PendKept
    <2> QED
        BY <2>5, <2>11, <2>12 DEF HandshakeInv
<1> QED
    BY <1>7, <1>8 DEF SerialComplete

LEMMA SerialRebootedHandshake ==
    ASSUME TypeOK, LocalsOK, SenderOK, RegistryInv, HandshakeInv, SerialRebooted
    PROVE  HandshakeInv'
BY LaterAsked, GotoHandshake, ThreadTypes DEF SerialRebooted, At, ReadFrame

LEMMA SwapPendingHandshake ==
    ASSUME TypeOK, LocalsOK, SenderOK, RegistryInv, HandshakeInv, SwapPending
    PROVE  HandshakeInv'
<1>1. /\ \A n \in Nonces : old'[n] = pendingConfig[n] /\ pendingConfig'[n] = NoReq
      /\ UNCHANGED <<req, frm, todo, out, asked>>
    BY DEF SwapPending
<1>2. SendingOK'
    BY <1>1, OtherSending, ThreadTypes DEF TypeOK, WorkType, SwapPending, At, Goto
<1>3. /\ \A n \in Nonces : /\ idAt'[<<"old", n>>] = idAt[<<"pending", n>>]
                           /\ idAt'[<<"pending", n>>] \notin RequestIds
      /\ \A t \in Threads : /\ idAt'[<<"req", t>>] = idAt[<<"req", t>>]
                            /\ idAt'[<<"frm", t>>] = idAt[<<"frm", t>>]
    BY <1>1, IdAt, IdAtNext, NoReqId
<1>4. \A p \in Places : idAt'[p] \in RequestIds => \E q \in Places : idAt'[p] = idAt[q]
    <2> SUFFICES ASSUME NEW p \in Places, idAt'[p] \in RequestIds
                 PROVE  \E q \in Places : idAt'[p] = idAt[q]
        OBVIOUS
    <2>1. CASE \E n \in Nonces : p = <<"pending", n>> \/ p = <<"old", n>>
        BY <1>3, <2>1, PlaceTypes
    <2>2. CASE \E t \in Threads : p = <<"req", t>> \/ p = <<"frm", t>>
        BY <1>3, <2>2, PlaceTypes
    <2> QED
        BY <2>1, <2>2, PlaceTypes
<1>5. AskedOK' /\ AnsweredOK' /\ AnsweredOnce'
    BY <1>1, <1>4, SameAnswers, LaterAsked, KnownIds DEF HandshakeInv
<1>6. UniqueOK'
    <2>1. ASSUME NEW p \in Places, idAt'[p] \in RequestIds
          PROVE  \/ \E n \in Nonces : p = <<"old", n>>
                 \/ \E t \in Threads : p = <<"req", t>> \/ p = <<"frm", t>>
        BY <1>3, <2>1, PlaceTypes
    <2>2. ASSUME NEW n \in Nonces, NEW m \in Nonces, <<"pending", n>> = <<"pending", m>>
          PROVE  n = m
        BY <2>2
    <2>3. \A n \in Nonces, t \in Threads : <<"pending", n>> \notin {<<"req", t>>, <<"frm", t>>}
        OBVIOUS
    <2>4. ASSUME NEW p \in Places, NEW q \in Places, idAt'[p] \in RequestIds,
                 idAt'[p] = idAt'[q]
          PROVE  p = q
        <3>1. CASE \E n, m \in Nonces : p = <<"old", n>> /\ q = <<"old", m>>
            <4>1. PICK n, m \in Nonces : p = <<"old", n>> /\ q = <<"old", m>>
                BY <3>1
            <4>2. <<"pending", n>> = <<"pending", m>>
                BY <1>3, <2>4, <4>1, PlaceTypes DEF HandshakeInv, IdsOK, UniqueOK
            <4> QED
                BY <4>1, <4>2, <2>2
        <3>2. CASE \E t, u \in Threads : /\ p \in {<<"req", t>>, <<"frm", t>>}
                                         /\ q \in {<<"req", u>>, <<"frm", u>>}
            <4>1. PICK t, u \in Threads : /\ p \in {<<"req", t>>, <<"frm", t>>}
                                          /\ q \in {<<"req", u>>, <<"frm", u>>}
                BY <3>2
            <4>2. idAt'[p] = idAt[p] /\ idAt'[q] = idAt[q]
                BY <1>3, <4>1
            <4> QED
                BY <2>4, <4>2 DEF HandshakeInv, IdsOK, UniqueOK
        <3>3. ASSUME NEW n \in Nonces, NEW t \in Threads, NEW x \in {p, q}, NEW y \in {p, q},
                     x = <<"old", n>>, y \in {<<"req", t>>, <<"frm", t>>}
              PROVE  FALSE
            <4>1. idAt[<<"pending", n>>] = idAt[y] /\ idAt[y] \in RequestIds
                BY <1>3, <2>4, <3>3
            <4> QED
                BY <2>3, <3>3, <4>1, PlaceTypes DEF HandshakeInv, IdsOK, UniqueOK
        <3> QED
            BY <2>1, <2>4, <3>1, <3>2, <3>3
    <2> QED
        BY <2>4 DEF UniqueOK
<1>7. OwnerOK' /\ ReaderOK'
    BY <1>1, NoReqId DEF HandshakeInv, OwnerOK, OwnedBy, ReaderOK
<1> QED
    BY <1>2, <1>5, <1>6, <1>7 DEF HandshakeInv, IdsOK

LEMMA ReissueHandshake ==
    ASSUME TypeOK, LocalsOK, SenderOK, RegistryInv, HandshakeInv, NEW n \in Nonces, Reissue(n)
    PROVE  HandshakeInv'
<1>1. /\ old'[n] = NoReq /\ \A m \in Nonces \ {n} : old'[m] = old[m]
      /\ UNCHANGED <<frm, todo, pendingConfig, out, asked>>
    BY DEF TypeOK, WorkType, Reissue
<1>2. OldKept /\ FrmKept /\ PendKept /\ AnswersKept /\ Later
    BY <1>1, NoReqId, SameKept, SameAnswers, LaterAsked DEF OldKept
<1>3. SendingOK'
    BY <1>1, OtherSending, ThreadTypes DEF TypeOK, WorkType, Reissue, At, Goto
<1>4. CASE UNCHANGED req
    BY <1>2, <1>3, <1>4, SameKept, KeptHandshake
<1>5. CASE req' = [req EXCEPT ![Serial] = old[n]]
    <2> DEFINE a == <<"old", n>>
               b == <<"req", Serial>>
    <2>1. req'[Serial] = old[n] /\ \A u \in Threads \ {Serial} : req'[u] = req[u]
        BY <1>5, ThreadTypes DEF TypeOK, WorkType
    <2>2. a \in Places /\ b \in Places
        BY ThreadTypes, PlaceTypes
    <2>3. idAt'[b] = idAt[a] /\ idAt'[a] \notin RequestIds
        BY <1>1, <2>1, IdAt, IdAtNext, ThreadTypes, NoReqId
    <2>4. /\ \A u \in Threads \ {Serial} : KeptAt(<<"req", u>>)
          /\ \A m \in Nonces \ {n} : KeptAt(<<"old", m>>)
        BY <1>1, <2>1, KeptEach
    <2>5. \A p \in Places \ {a, b} : KeptAt(p)
        BY <1>2, <2>4, KeptPlaces, PlaceTypes
    <2>6. IdsOK'
        BY <1>2, <2>2, <2>3, <2>5, MovedIds DEF HandshakeInv
    <2>7. OwnerOK'
        BY <1>1, <1>2, <2>1 DEF HandshakeInv, OwnerOK, OwnedBy, OldKept
    <2>8. ReaderOK'
        BY <2>1, ThreadTypes, DistinctThreads DEF HandshakeInv, ReaderOK
    <2> QED
        BY <1>3, <2>6, <2>7, <2>8 DEF HandshakeInv
<1> QED
    BY <1>4, <1>5 DEF Reissue

LEMMA ReissueDoneHandshake ==
    ASSUME TypeOK, LocalsOK, SenderOK, RegistryInv, HandshakeInv, ReissueDone
    PROVE  HandshakeInv'
BY LaterAsked, GotoHandshake, ThreadTypes DEF ReissueDone, At

LEMMA SerialPacketHandshake ==
    ASSUME TypeOK, LocalsOK, SenderOK, RegistryInv, HandshakeInv, SerialPacket
    PROVE  HandshakeInv'
<1>1. /\ \E l : Goto(Serial, l)
      /\ frm'[Serial] = frm[Serial] \/ frm'[Serial].kind # "done"
      /\ \A u \in Threads \ {Serial} : frm'[u] = frm[u] /\ todo'[u] = todo[u]
    BY ThreadTypes DEF TypeOK, WorkType, SerialPacket, ReadFrame
<1> QED
    BY <1>1, LaterAsked, GotoHandshake, ThreadTypes DEF SerialPacket, ReadFrame, At

LEMMA ReadErrorHandshake ==
    ASSUME TypeOK, LocalsOK, SenderOK, RegistryInv, HandshakeInv, NEW c \in Clients,
       ReadError(c)
    PROVE  HandshakeInv'
<1>1. UNCHANGED asked
    BY DEF ReadError
<1> QED
    BY <1>1, LaterAsked, GotoHandshake, ThreadTypes DEF ReadError, At

LEMMA ReadWantHandshake ==
    ASSUME TypeOK, LocalsOK, SenderOK, RegistryInv, HandshakeInv, NEW c \in Clients, ReadWant(c)
    PROVE  HandshakeInv'
<1> DEFINE t == Reader(c)
           a == <<"req", t>>
<1>1. t \in Threads /\ a \in Places
    BY ThreadTypes, PlaceTypes
<1>2. /\ req'[t] = [client |-> c, id |-> <<c, asked[c] + 1>>]
      /\ \A u \in Threads \ {t} : req'[u] = req[u]
      /\ asked' = [asked EXCEPT ![c] = @ + 1]
      /\ UNCHANGED <<frm, todo, pendingConfig, old, out>>
    BY <1>1 DEF TypeOK, WorkType, ReadWant, Message, NextId
<1>3. SendingOK'
    <2>1. \A u \in Threads \ {t} : pc'[u] = pc[u]
        BY DEF TypeOK, WorkType, ReadWant, Goto
    <2> QED
        BY <1>1, <1>2, <2>1, OtherSending DEF ReadWant, Message, At
<1>4. FrmKept /\ PendKept /\ OldKept /\ AnswersKept
    BY <1>2, SameKept, SameAnswers
<1>5. IdsOK'
    <2>1. idAt'[a] = <<c, asked[c] + 1>>
        <3>1. idAt'[a] = req'[t].id
            BY <1>1, IdAtNext
        <3> QED
            BY <1>2, <3>1
    <2>2. \A u \in Threads \ {t} : KeptAt(<<"req", u>>)
        BY <1>2, KeptEach
    <2>3. \A p \in Places \ {a} : KeptAt(p)
        BY <1>4, <2>2, KeptPlaces, PlaceTypes
    <2> QED
        BY <1>1, <1>2, <1>4, <2>1, <2>3, OpenedIds DEF HandshakeInv
<1>6. OwnerOK'
    BY <1>2 DEF HandshakeInv, OwnerOK, OwnedBy
<1>7. ReaderOK'
    BY <1>2, ThreadTypes, DistinctThreads DEF HandshakeInv, ReaderOK
<1> QED
    BY <1>3, <1>5, <1>6, <1>7 DEF HandshakeInv

LEMMA DropOwnHandshake ==
    ASSUME TypeOK, LocalsOK, SenderOK, RegistryInv, HandshakeInv, NEW c \in Clients, DropOwn(c)
    PROVE  HandshakeInv'
<1>1. FrmKept /\ SendingOK'
    BY OtherSending, ThreadTypes DEF TypeOK, WorkType, DropOwn, At, Goto
<1>2. PendKept
    BY DropPendingKept DEF DropOwn
<1> QED
    BY <1>1, <1>2, SameKept, SameAnswers, LaterAsked, KeptHandshake DEF DropOwn

LEMMA ReadDisconnectHandshake ==
    ASSUME TypeOK, LocalsOK, SenderOK, RegistryInv, HandshakeInv, NEW c \in Clients,
       ReadDisconnect(c)
    PROVE  HandshakeInv'
BY LaterAsked, StayHandshake DEF ReadDisconnect

LEMMA ReadTrafficHandshake ==
    ASSUME TypeOK, LocalsOK, SenderOK, RegistryInv, HandshakeInv, NEW c \in Clients, NEW kind,
       NEW msg, NEW allowed, msg.kind # "done", ReadTraffic(c, kind, msg, allowed)
    PROVE  HandshakeInv'
<1>1. Later /\ pc[Reader(c)] # "send" /\ Reader(c) \in Threads
    BY LaterAsked, ThreadTypes DEF ReadTraffic, Message, At
<1>2. CASE UNCHANGED <<pc, frm>>
    BY <1>1, <1>2, StayHandshake DEF ReadTraffic
<1>3. CASE frm' = [frm EXCEPT ![Reader(c)] = msg] /\ Goto(Reader(c), "forward")
    <2>1. frm'[Reader(c)] = msg /\ \A u \in Threads \ {Reader(c)} : frm'[u] = frm[u]
        BY <1>1, <1>3 DEF TypeOK, WorkType
    <2> QED
        BY <1>1, <1>3, <2>1, GotoHandshake DEF ReadTraffic
<1> QED
    BY <1>2, <1>3 DEF ReadTraffic

\* The three kinds of messages a reader may forward.
LEMMA ReadPacketHandshake ==
    ASSUME TypeOK, LocalsOK, SenderOK, RegistryInv, HandshakeInv, NEW c \in Clients,
           ReadPacket(c) \/ ReadOther(c) \/ ReadRaw(c)
    PROVE  HandshakeInv'
<1>1. CASE ReadPacket(c)
    <2> DEFINE msg(port) ==
            PktFrame([from |-> c, seq |-> asked[c] + 1, port |-> port], "echo")
    <2>1. PICK port \in Ports : ReadTraffic(c, "packet", msg(port), MayTransmit(c))
        BY <1>1 DEF ReadPacket
    <2>2. msg(port).kind # "done"
        BY DEF PktFrame
    <2> HIDE DEF msg
    <2> QED
        BY <2>1, <2>2, ReadTrafficHandshake
<1>2. CASE ReadOther(c) \/ ReadRaw(c)
    <2>1. OtherMsg.kind # "done"
        BY DEF OtherMsg
    <2> QED
        BY <1>2, <2>1, ReadTrafficHandshake DEF ReadOther, ReadRaw
<1> QED
    BY <1>1, <1>2

LEMMA NoteHandshake ==
    ASSUME TypeOK, LocalsOK, SenderOK, RegistryInv, HandshakeInv, NEW c \in Clients, Note(c)
    PROVE  HandshakeInv'
BY LaterAsked, GotoHandshake, ThreadTypes DEF Note, At

LEMMA SnapshotHandshake ==
    ASSUME TypeOK, LocalsOK, SenderOK, RegistryInv, HandshakeInv, NEW c \in Clients, Snapshot(c)
    PROVE  HandshakeInv'
BY LaterAsked, GotoHandshake, ThreadTypes DEF Snapshot, At

LEMMA ReplayHandshake ==
    ASSUME TypeOK, LocalsOK, SenderOK, RegistryInv, HandshakeInv, NEW c \in Clients, Replay(c)
    PROVE  HandshakeInv'
<1> DEFINE t == Reader(c)
           a == <<"req", t>>
<1>1. t \in Threads /\ a \in Places /\ idAt[a] = req[t].id
    BY ThreadTypes, PlaceTypes, IdAt
<1>2. UNCHANGED <<pendingConfig, old, asked>>
    BY DEF Replay
<1>3. CASE Finish(t)
    <2>1. FrmKept /\ SendingOK' /\ ReqKept
        BY <1>1, <1>3, FinishKept
    <2>2. CASE UNCHANGED out
        BY <1>2, <2>1, <2>2, SameKept, SameAnswers, LaterAsked, KeptHandshake
    <2>3. CASE Accept(c, DoneFrame(req[t].id, "cache"))
        <3>1. req[t].id \in RequestIds
            BY <1>1 DEF LocalsOK, Replay, At
        <3>2. req[t].id[1] = c
            BY <1>1, <3>1 DEF HandshakeInv, ReaderOK, OwnerOK, OwnedBy
        <3>3. idAt'[a] \notin RequestIds
            <4>1. req'[t] = NoReq
                BY <1>1, <1>3 DEF TypeOK, WorkType, Finish
            <4> QED
                BY <1>1, <4>1, IdAtNext, NoReqId
        <3>4. \A p \in Places : KeptAt(p)
            BY <1>2, <2>1, SameKept, PlaceTypes, KeptPlaces
        <3>5. IdsOK'
            BY <1>1, <1>2, <2>3, <3>1, <3>2, <3>3, <3>4, AnsweredIds DEF HandshakeInv
        <3>6. OwnerOK'
            BY <1>2, <2>1 DEF HandshakeInv, OwnerOK, OwnedBy, ReqKept
        <3>7. ReaderOK'
            BY <2>1, ThreadTypes DEF HandshakeInv, ReaderOK, ReqKept
        <3> QED
            BY <2>1, <3>5, <3>6, <3>7 DEF HandshakeInv
    <2>4. CASE \E s \in First(snap[c]) : Accept(c, CfgFrame(s, snap[c][s]))
        <3>1. AnswersKept
            BY <2>4, QueuedAnswers DEF CfgFrame
        <3> QED
            BY <1>2, <2>1, <3>1, SameKept, LaterAsked, KeptHandshake
    <2> QED
        BY <2>2, <2>3, <2>4 DEF Replay
<1>4. CASE UNCHANGED <<pc, frm, todo, req>> /\ \E s \in First(snap[c]) :
                                                    Accept(c, CfgFrame(s, snap[c][s]))
    <2>1. AnswersKept
        BY <1>4, QueuedAnswers DEF CfgFrame
    <2> QED
        BY <1>2, <1>4, <2>1, StaySending, SameKept, LaterAsked, KeptHandshake
<1> QED
    BY <1>3, <1>4 DEF Replay

LEMMA WriterStopsHandshake ==
    ASSUME TypeOK, LocalsOK, SenderOK, RegistryInv, HandshakeInv, NEW c \in Clients,
       WriterStops(c)
    PROVE  HandshakeInv'
BY LaterAsked, GotoHandshake, ThreadTypes DEF WriterStops, At

LEMMA WriterTakesHandshake ==
    ASSUME TypeOK, LocalsOK, SenderOK, RegistryInv, HandshakeInv, NEW c \in Clients,
       WriterTakes(c)
    PROVE  HandshakeInv'
BY LaterAsked, GotoHandshake, ThreadTypes DEF WriterTakes, At

LEMMA WriterWroteHandshake ==
    ASSUME TypeOK, LocalsOK, SenderOK, RegistryInv, HandshakeInv, NEW c \in Clients,
       WriterWrote(c)
    PROVE  HandshakeInv'
BY LaterAsked, GotoHandshake, ThreadTypes DEF WriterWrote, At

LEMMA WriterFailsHandshake ==
    ASSUME TypeOK, LocalsOK, SenderOK, RegistryInv, HandshakeInv, NEW c \in Clients,
       WriterFails(c)
    PROVE  HandshakeInv'
<1>1. UNCHANGED asked
    BY DEF WriterFails
<1> QED
    BY <1>1, LaterAsked, GotoHandshake, ThreadTypes DEF WriterFails, At

LEMMA BootStartHandshake ==
    ASSUME TypeOK, LocalsOK, SenderOK, RegistryInv, HandshakeInv, BootStart
    PROVE  HandshakeInv'
BY LaterAsked, GotoHandshake, ThreadTypes DEF BootStart, At

LEMMA BootScanHandshake ==
    ASSUME TypeOK, LocalsOK, SenderOK, RegistryInv, HandshakeInv, BootScan
    PROVE  HandshakeInv'
<1>1. FrmKept /\ SendingOK'
    BY OtherSending, ThreadTypes DEF TypeOK, WorkType, BootScan, At, Goto
<1>2. ReqKept
    BY NoReqId DEF TypeOK, WorkType, BootScan, ReqKept
<1> QED
    BY <1>1, <1>2, SameKept, SameAnswers, LaterAsked, KeptHandshake DEF BootScan

LEMMA WebSendHandshake ==
    ASSUME TypeOK, LocalsOK, SenderOK, RegistryInv, HandshakeInv, WebSend
    PROVE  HandshakeInv'
<1>1. CASE UNCHANGED <<pc, frm>>
    BY <1>1, LaterAsked, StayHandshake DEF WebSend
<1>2. CASE Goto(Web, "forward") /\ \E p : frm' = [frm EXCEPT ![Web] = PktFrame(p, "echo")]
    <2>1. frm'[Web].kind # "done" /\ \A u \in Threads \ {Web} : frm'[u] = frm[u]
        BY <1>2, ThreadTypes DEF TypeOK, WorkType, PktFrame
    <2> QED
        BY <1>2, <2>1, LaterAsked, GotoHandshake, ThreadTypes DEF WebSend, At
<1> QED
    BY <1>1, <1>2 DEF WebSend

LEMMA RunReturnsHandshake ==
    ASSUME TypeOK, LocalsOK, SenderOK, RegistryInv, HandshakeInv, RunReturns
    PROVE  HandshakeInv'
BY LaterAsked, GotoHandshake, ThreadTypes DEF RunReturns, At

LEMMA AcceptConnHandshake ==
    ASSUME TypeOK, LocalsOK, SenderOK, RegistryInv, HandshakeInv, NEW c \in Clients,
       AcceptConn(c)
    PROVE  HandshakeInv'
BY LaterAsked, GotoHandshake, ThreadTypes DEF TypeOK, WorkType, AcceptConn, At

LEMMA AddClientHandshake ==
    ASSUME TypeOK, LocalsOK, SenderOK, RegistryInv, HandshakeInv, NEW c \in Clients,
       AddClient(c)
    PROVE  HandshakeInv'
<1>1. pc[Acceptor] # "send" /\ pc[Reader(c)] # "send" /\ pc[Writer(c)] # "send"
    BY DEF RegistryInv, JoinedOK, AcceptorOK, MembersOK, Joined, AddClient, At
<1>2. /\ \A t \in Threads \ {Acceptor, Reader(c), Writer(c)} : pc'[t] = pc[t]
      /\ \A t \in Threads \ {Acceptor} : todo'[t] = todo[t]
      /\ UNCHANGED <<frm, req, pendingConfig, old, out, asked>>
    BY DEF TypeOK, WorkType, AddClient
<1>3. SendingOK'
    BY <1>1, <1>2 DEF HandshakeInv, SendingOK
<1> QED
    BY <1>2, <1>3, SameKept, SameAnswers, LaterAsked, KeptHandshake

LEMMA ServerWakesHandshake ==
    ASSUME TypeOK, LocalsOK, SenderOK, RegistryInv, HandshakeInv, ServerWakes
    PROVE  HandshakeInv'
BY LaterAsked, GotoHandshake, ThreadTypes DEF ServerWakes, At

LEMMA ServerStatusHandshake ==
    ASSUME TypeOK, LocalsOK, SenderOK, RegistryInv, HandshakeInv, ServerStatus
    PROVE  HandshakeInv'
BY LaterAsked, GotoHandshake, ThreadTypes DEF ServerStatus, At

LEMMA ListClientsHandshake ==
    ASSUME TypeOK, LocalsOK, SenderOK, RegistryInv, HandshakeInv, ListClients
    PROVE  HandshakeInv'
BY LaterAsked, GotoHandshake, ThreadTypes DEF TypeOK, WorkType, ListClients, At

LEMMA RemoveListedHandshake ==
    ASSUME TypeOK, LocalsOK, SenderOK, RegistryInv, HandshakeInv, NEW c \in Clients,
       RemoveListed(c)
    PROVE  HandshakeInv'
<1>1. FrmKept /\ SendingOK'
    BY OtherSending, ThreadTypes DEF TypeOK, WorkType, RemoveListed, At
<1> QED
    BY <1>1, SameKept, SameAnswers, LaterAsked, KeptHandshake DEF RemoveListed

LEMMA CloseSerialHandshake ==
    ASSUME TypeOK, LocalsOK, SenderOK, RegistryInv, HandshakeInv, CloseSerial
    PROVE  HandshakeInv'
BY LaterAsked, GotoHandshake, ThreadTypes DEF CloseSerial, At

LEMMA InitHandshake == Init => HandshakeInv
<1> SUFFICES ASSUME Init PROVE HandshakeInv
    OBVIOUS
<1>1. \A p \in Places : idAt[p] \notin RequestIds
    <2>1. /\ \A t \in Threads : req[t] = NoReq /\ FrameId(frm[t]) = NoReq.id
          /\ \A n \in Nonces : pendingConfig[n] = NoReq /\ old[n] = NoReq
        BY DEF Init, FrameId
    <2>2. ASSUME NEW t \in Threads
          PROVE  idAt[<<"req", t>>] \notin RequestIds /\ idAt[<<"frm", t>>] \notin RequestIds
        BY <2>1, IdAt, NoReqId
    <2>3. ASSUME NEW n \in Nonces
          PROVE  idAt[<<"pending", n>>] \notin RequestIds /\ idAt[<<"old", n>>] \notin RequestIds
        BY <2>1, IdAt, NoReqId
    <2> QED
        BY <2>2, <2>3, PlaceTypes
<1>2. \A c \in Clients : Dones(c) = {}
    BY DEF Init, Dones
<1>3. IdsOK
    BY <1>1, <1>2 DEF IdsOK, UniqueOK, AskedOK, AnsweredOK, AnsweredOnce
<1>4. OwnerOK /\ ReaderOK
    BY NoReqId, ThreadTypes DEF Init, OwnerOK, OwnedBy, ReaderOK
<1>5. SendingOK
    BY DEF Init, SendingOK
<1> QED
    BY <1>3, <1>4, <1>5 DEF HandshakeInv

LEMMA NextHandshake ==
    ASSUME TypeOK, LocalsOK, SenderOK, RegistryInv, HandshakeInv, [Next]_vars
    PROVE  HandshakeInv'
<1>1. ASSUME NEW t \in Threads, SharedStep(t) PROVE HandshakeInv'
    BY <1>1, UnlinkHandshake, DropRemovedHandshake, CloseHandshake, ReadRegistryHandshake,
       ReadCacheHandshake, SetStatusHandshake, ReserveHandshake, ForwardHandshake,
       WriteSerialHandshake, CastHandshake, SendHandshake
    DEF SharedStep, CallStep
<1>2. CASE SerialStep \/ SerialGlitch
    BY <1>2, SerialLoopHandshake, SerialErrorHandshake, SerialGlitchHandshake,
       SerialConfigHandshake, SerialCompleteHandshake, SerialRebootedHandshake,
       SwapPendingHandshake, ReissueHandshake, ReissueDoneHandshake, SerialPacketHandshake
    DEF SerialStep
<1>3. ASSUME NEW c \in Clients, ClientInput(c) \/ ReaderStep(c) \/ ReadError(c)
      PROVE  HandshakeInv'
    BY <1>3, ReadWantHandshake, ReadDisconnectHandshake, ReadPacketHandshake,
       DropOwnHandshake, NoteHandshake, SnapshotHandshake, ReplayHandshake,
       ReadErrorHandshake
    DEF ClientInput, ReaderStep
<1>4. ASSUME NEW c \in Clients, WriterStep(c) \/ WriterWrote(c) \/ WriterFails(c)
      PROVE  HandshakeInv'
    BY <1>4, WriterStopsHandshake, WriterTakesHandshake, WriterWroteHandshake,
       WriterFailsHandshake
    DEF WriterStep
<1>5. CASE \/ BootStart \/ BootScan \/ WebSend \/ RunReturns \/ ServerStep \/ ServerWakes
           \/ \E c \in Clients : AcceptConn(c) \/ AddClient(c)
    BY <1>5, BootStartHandshake, BootScanHandshake, WebSendHandshake, RunReturnsHandshake,
       ServerWakesHandshake, ServerStatusHandshake, ListClientsHandshake,
       RemoveListedHandshake, CloseSerialHandshake, AcceptConnHandshake, AddClientHandshake
    DEF ServerStep
<1>6. CASE \/ RadioAnswers \/ RadioHears \/ RadioReboots \/ LinkFails \/ Cancel
           \/ \E s \in Slots : RadioUpdates(s)
           \/ \E p \in outbound : OutboundExpires(p)
    BY <1>6, LaterAsked, StayHandshake DEF RadioAnswers, RadioHears, RadioReboots,
       LinkFails, Cancel, RadioUpdates, OutboundExpires
<1>7. CASE UNCHANGED vars
    BY <1>7, LaterAsked, StayHandshake DEF vars
<1> QED
    BY <1>1, <1>2, <1>3, <1>4, <1>5, <1>6, <1>7 DEF Next

\* Every WantConfigId is answered at most once, and to the client that sent it, for any
\* number of clients, nonces, reboots and retries, and also when nonces are drawn again.
THEOREM AnsweredCorrect == Spec => []AnsweredOnce
<1> DEFINE Inv == TypeOK /\ LocalsOK /\ SenderOK /\ RegistryInv /\ HandshakeInv
<1>1. Init => Inv
    BY InitType, InitRegistry, InitHandshake
<1>2. Inv /\ [Next]_vars => Inv'
    BY NextType, NextRegistry, NextHandshake
<1>3. Inv => AnsweredOnce
    BY DEF HandshakeInv, IdsOK
<1> QED
    BY <1>1, <1>2, <1>3, PTL DEF Spec

-----------------------------------------------------------------------------
(* Whose requests readSerial and the two tables hold *)

Parked == ({"pending", "old"} \X Nonces) \cup {<<"req", Serial>>}
ownerAt == [p \in Parked |-> IF p[1] = "req" THEN req[Serial].client
                             ELSE IF p[1] = "pending" THEN pendingConfig[p[2]].client
                             ELSE old[p[2]].client]
Free(c) == \A p \in Parked : ownerAt[p] # c

\* A goroutine that serves a client's request is its reader, or readSerial.
ServeOK == \A t \in Threads : req[t].client \in Clients => t = Serial \/ t = Reader(req[t].client)

LEMMA ParkedTypes ==
    /\ <<"req", Serial>> \in Parked
    /\ \A n \in Nonces : <<"pending", n>> \in Parked /\ <<"old", n>> \in Parked
    /\ \A p \in Parked : \/ p = <<"req", Serial>>
                         \/ \E n \in Nonces : p = <<"pending", n>> \/ p = <<"old", n>>
BY DEF Parked

LEMMA OwnerAt ==
    /\ ownerAt[<<"req", Serial>>] = req[Serial].client
    /\ \A n \in Nonces : /\ ownerAt[<<"pending", n>>] = pendingConfig[n].client
                         /\ ownerAt[<<"old", n>>] = old[n].client
BY ParkedTypes DEF ownerAt

LEMMA OwnerAtNext ==
    /\ ownerAt'[<<"req", Serial>>] = req'[Serial].client
    /\ \A n \in Nonces : /\ ownerAt'[<<"pending", n>>] = pendingConfig'[n].client
                         /\ ownerAt'[<<"old", n>>] = old'[n].client
BY ParkedTypes DEF ownerAt

\* A goroutine's request, or a table, is as before or has lost requests of clients.
PendShrinks == \A n \in Nonces :
    pendingConfig'[n] = pendingConfig[n] \/ pendingConfig'[n].client \notin Clients
OldShrinks == \A n \in Nonces : old'[n] = old[n] \/ old'[n].client \notin Clients
ReqShrinks == \A t \in Threads : req'[t] = req[t] \/ req'[t].client \notin Clients

\* The reader of c does not come to make a request, or to stop, and if it has stopped
\* it stays where it is in removeClient.
ReaderKept(c) ==
    /\ pc'[Reader(c)] \in {"drop", "reserve", "stopped"} => pc'[Reader(c)] = pc[Reader(c)]
    /\ pc[Reader(c)] = "stopped" =>
           call'[Reader(c)] = call[Reader(c)] /\ victim'[Reader(c)] = victim[Reader(c)]

LEMMA NoReqClient == NoReq.client \notin Clients
BY BrokerAssumptions DEF NoReq

\* A request enters pendingConfig in reserveConfigRequest only.
LEMMA NextPending ==
    ASSUME TypeOK, [Next]_vars
    PROVE  PendShrinks \/ \E t \in Threads : Reserve(t)
<1>1. pendingConfig = [n \in Nonces |-> pendingConfig[n]]
    BY DEF TypeOK, ConfigType
<1>2. CASE UNCHANGED pendingConfig
    BY <1>2 DEF PendShrinks
<1>3. ASSUME NEW c, DropPending(c) PROVE PendShrinks
    BY <1>3, NoReqClient DEF DropPending, PendShrinks
<1>4. ASSUME NEW t \in Threads, SharedStep(t), ~Reserve(t)
      PROVE  UNCHANGED pendingConfig \/ \E c : DropPending(c)
    <2>1. CASE CallStep(t)
        BY <2>1 DEF CallStep, Unlink, DropRemoved, Close, ReadRegistry, ReadCache, SetStatus
    <2>2. CASE Forward(t) \/ WriteSerial(t) \/ Cast(t) \/ \E c \in Clients : Send(t, c)
        BY <2>2 DEF Forward, WriteSerial, SerialFailed, Cast, Send
    <2> QED
        BY <1>4, <2>1, <2>2 DEF SharedStep
<1>5. CASE SerialStep \/ SerialGlitch
    <2>1. CASE SerialComplete
        BY <1>1, <2>1, NoReqClient DEF SerialComplete, TakeRequest, PendShrinks
    <2>2. CASE SwapPending
        BY <2>2, NoReqClient DEF SwapPending, PendShrinks
    <2>3. CASE \/ SerialLoop \/ SerialError \/ SerialConfig \/ SerialRebooted \/ ReissueDone
               \/ SerialPacket \/ SerialGlitch \/ \E n \in Nonces : Reissue(n)
        BY <1>2, <2>3 DEF SerialLoop, SerialError, SerialConfig, SerialRebooted, ReissueDone,
           SerialPacket, SerialGlitch, Reissue
    <2> QED
        BY <1>5, <2>1, <2>2, <2>3 DEF SerialStep
<1>6. ASSUME NEW c \in Clients,
             \/ ClientInput(c) \/ ReaderStep(c) \/ ReadError(c)
             \/ WriterStep(c) \/ WriterWrote(c) \/ WriterFails(c)
      PROVE  UNCHANGED pendingConfig \/ DropPending(c)
    BY <1>6 DEF ClientInput, ReadWant, ReadDisconnect, ReadPacket, ReadOther, ReadRaw,
       ReadTraffic, ReaderStep, DropOwn, Note, Snapshot, Replay, ReadError, WriterStep,
       WriterStops, WriterTakes, WriterWrote, WriterFails
<1>7. CASE \/ BootStart \/ BootScan \/ WebSend \/ RunReturns \/ ServerStep \/ ServerWakes
           \/ \E c \in Clients : AcceptConn(c) \/ AddClient(c)
    BY <1>2, <1>7 DEF BootStart, BootScan, WebSend, RunReturns, ServerStep, ServerStatus,
       ListClients, CloseSerial, RemoveListed, ServerWakes, AcceptConn, AddClient
<1>8. CASE \/ RadioAnswers \/ RadioHears \/ RadioReboots \/ LinkFails \/ Cancel
           \/ \E s \in Slots : RadioUpdates(s)
           \/ \E p \in outbound : OutboundExpires(p)
           \/ UNCHANGED vars
    BY <1>2, <1>8 DEF RadioAnswers, RadioHears, RadioReboots, LinkFails, Cancel, RadioUpdates,
       OutboundExpires, vars
<1> QED
    BY <1>2, <1>3, <1>4, <1>5, <1>6, <1>7, <1>8 DEF Next

\* handleRebooted fills its own table.
LEMMA NextOld ==
    ASSUME TypeOK, [Next]_vars PROVE OldShrinks \/ SwapPending
<1>1. old = [n \in Nonces |-> old[n]]
    BY DEF TypeOK, WorkType
<1>2. CASE UNCHANGED old
    BY <1>2 DEF OldShrinks
<1>3. CASE old' = [n \in Nonces |-> NoReq]
    BY <1>3, NoReqClient DEF OldShrinks
<1>4. ASSUME NEW t \in Threads, SharedStep(t)
      PROVE  UNCHANGED old \/ old' = [n \in Nonces |-> NoReq]
    BY <1>4 DEF SharedStep, CallStep, Unlink, DropRemoved, Close, ReadRegistry, ReadCache,
       SetStatus, Reserve, Forward, WriteSerial, SerialFailed, Cast, Send
<1>5. ASSUME NEW n \in Nonces, Reissue(n) PROVE OldShrinks
    BY <1>1, <1>5, NoReqClient DEF Reissue, OldShrinks
<1>6. CASE \/ SerialLoop \/ SerialError \/ SerialConfig \/ SerialComplete \/ SerialRebooted
           \/ ReissueDone \/ SerialPacket \/ SerialGlitch
    BY <1>2, <1>6 DEF SerialLoop, SerialError, SerialConfig, SerialComplete, SerialRebooted,
       ReissueDone, SerialPacket, SerialGlitch
<1>7. ASSUME NEW c \in Clients,
             \/ ClientInput(c) \/ ReaderStep(c) \/ ReadError(c)
             \/ WriterStep(c) \/ WriterWrote(c) \/ WriterFails(c)
      PROVE  UNCHANGED old
    BY <1>7 DEF ClientInput, ReadWant, ReadDisconnect, ReadPacket, ReadOther, ReadRaw,
       ReadTraffic, ReaderStep, DropOwn, Note, Snapshot, Replay, ReadError, WriterStep,
       WriterStops, WriterTakes, WriterWrote, WriterFails
<1>8. CASE \/ BootStart \/ BootScan \/ WebSend \/ RunReturns \/ ServerStep \/ ServerWakes
           \/ \E c \in Clients : AcceptConn(c) \/ AddClient(c)
    BY <1>2, <1>8 DEF BootStart, BootScan, WebSend, RunReturns, ServerStep, ServerStatus,
       ListClients, CloseSerial, RemoveListed, ServerWakes, AcceptConn, AddClient
<1>9. CASE \/ RadioAnswers \/ RadioHears \/ RadioReboots \/ LinkFails \/ Cancel
           \/ \E s \in Slots : RadioUpdates(s)
           \/ \E p \in outbound : OutboundExpires(p)
           \/ UNCHANGED vars
    BY <1>2, <1>9 DEF RadioAnswers, RadioHears, RadioReboots, LinkFails, Cancel, RadioUpdates,
       OutboundExpires, vars
<1> QED
    BY <1>2, <1>3, <1>4, <1>5, <1>6, <1>7, <1>8, <1>9 DEF Next, SerialStep

\* A goroutine gets a client's request from the client or from handleRebooted.
LEMMA NextReq ==
    ASSUME TypeOK, [Next]_vars
    PROVE  \/ ReqShrinks \/ (\E n \in Nonces : Reissue(n)) \/ \E c \in Clients : ReadWant(c)
<1>1. CASE UNCHANGED req
    BY <1>1 DEF ReqShrinks
<1>2. ASSUME NEW t \in Threads, NEW r, r.client \notin Clients, req' = [req EXCEPT ![t] = r]
      PROVE  ReqShrinks
    BY <1>2 DEF TypeOK, WorkType, ReqShrinks
<1>3. ASSUME NEW t \in Threads, SharedStep(t)
      PROVE  UNCHANGED req \/ req' = [req EXCEPT ![t] = NoReq]
    BY <1>3 DEF SharedStep, CallStep, Unlink, DropRemoved, Close, ReadRegistry, ReadCache,
       SetStatus, Reserve, Forward, WriteSerial, SerialFailed, Cast, Send, Finish
<1>4. CASE \/ SerialLoop \/ SerialError \/ SerialConfig \/ SerialComplete \/ SerialRebooted
           \/ SwapPending \/ ReissueDone \/ SerialPacket \/ SerialGlitch
    BY <1>1, <1>4 DEF SerialLoop, SerialError, SerialConfig, SerialComplete, SerialRebooted,
       SwapPending, ReissueDone, SerialPacket, SerialGlitch
<1>5. ASSUME NEW c \in Clients,
             \/ ClientInput(c) \/ ReaderStep(c) \/ ReadError(c)
             \/ WriterStep(c) \/ WriterWrote(c) \/ WriterFails(c)
      PROVE  UNCHANGED req \/ ReadWant(c) \/ req' = [req EXCEPT ![Reader(c)] = NoReq]
    BY <1>5 DEF ClientInput, ReadDisconnect, ReadPacket, ReadOther, ReadRaw,
       ReadTraffic, ReaderStep, DropOwn, Note, Snapshot, Replay, ReadError, WriterStep,
       WriterStops, WriterTakes, WriterWrote, WriterFails, Finish
<1>6. CASE BootScan
    <2>1. [client |-> Nil, id |-> BootId].client \notin Clients
        BY BrokerAssumptions
    <2> QED
        BY <1>1, <1>2, <1>6, <2>1, ThreadTypes DEF BootScan
<1>7. CASE \/ BootStart \/ WebSend \/ RunReturns \/ ServerStep \/ ServerWakes
           \/ \E c \in Clients : AcceptConn(c) \/ AddClient(c)
    BY <1>1, <1>7 DEF BootStart, WebSend, RunReturns, ServerStep, ServerStatus,
       ListClients, CloseSerial, RemoveListed, ServerWakes, AcceptConn, AddClient
<1>8. CASE \/ RadioAnswers \/ RadioHears \/ RadioReboots \/ LinkFails \/ Cancel
           \/ \E s \in Slots : RadioUpdates(s)
           \/ \E p \in outbound : OutboundExpires(p)
           \/ UNCHANGED vars
    BY <1>1, <1>8 DEF RadioAnswers, RadioHears, RadioReboots, LinkFails, Cancel, RadioUpdates,
       OutboundExpires, vars
<1> QED
    BY <1>1, <1>2, <1>3, <1>4, <1>5, <1>6, <1>7, <1>8, NoReqClient, ThreadTypes
    DEF Next, SerialStep

LEMMA NextServe ==
    ASSUME TypeOK, ServeOK, [Next]_vars PROVE ServeOK'
<1>1. CASE ReqShrinks
    BY <1>1 DEF ServeOK, ReqShrinks
<1>2. ASSUME NEW n \in Nonces, Reissue(n) PROVE ServeOK'
    <2>1. \A t \in Threads \ {Serial} : req'[t] = req[t]
        BY <1>2 DEF TypeOK, WorkType, Reissue
    <2> QED
        BY <2>1 DEF ServeOK
<1>3. ASSUME NEW c \in Clients, ReadWant(c) PROVE ServeOK'
    <2>1. /\ req'[Reader(c)].client = c
          /\ \A t \in Threads \ {Reader(c)} : req'[t] = req[t]
        BY <1>3, ThreadTypes DEF TypeOK, WorkType, ReadWant
    <2> QED
        BY <2>1 DEF ServeOK
<1> QED
    BY <1>1, <1>2, <1>3, NextReq

LEMMA HomeReader == ASSUME NEW c \in Clients PROVE Home(Reader(c)) = "read"
BY DistinctThreads DEF Home

\* removeClient and PublishStatus are called by their goroutine alone.
LEMMA CallsAlone ==
    ASSUME TypeOK, NEW t \in Threads,
           \/ UNCHANGED callVars \/ StartPublish(t) \/ \E c \in Clients : StartRemove(t, c)
    PROVE  \A u \in Threads \ {t} : call'[u] = call[u] /\ victim'[u] = victim[u]
BY DEF TypeOK, CallType, StartPublish, StartRemove

\* A goroutine moves on, and may start removeClient or PublishStatus meanwhile.
LEMMA GotoReaders ==
    ASSUME TypeOK, NEW t \in Threads, pc[t] # "stopped", NEW l, Goto(t, l),
           \A c \in Clients : t = Reader(c) => l \notin {"drop", "reserve", "stopped"},
           \/ UNCHANGED callVars \/ StartPublish(t) \/ \E c \in Clients : StartRemove(t, c)
    PROVE  \A c \in Clients : ReaderKept(c)
BY CallsAlone, ThreadTypes DEF TypeOK, WorkType, ReaderKept, Goto

LEMMA StayReaders ==
    ASSUME TypeOK, NEW t \in Threads, pc[t] # "stopped", UNCHANGED pc,
           \/ UNCHANGED callVars \/ StartPublish(t) \/ \E c \in Clients : StartRemove(t, c)
    PROVE  \A c \in Clients : ReaderKept(c)
BY CallsAlone, ThreadTypes DEF ReaderKept

LEMMA SharedReaders ==
    ASSUME TypeOK, NEW t \in Threads, SharedStep(t), NEW c \in Clients
    PROVE  ReaderKept(c) \/ CallStep(Reader(c))
<1>1. CASE CallStep(t)
    <2>1. /\ UNCHANGED pc
          /\ \A u \in Threads \ {t} : call'[u] = call[u] /\ victim'[u] = victim[u]
        BY <1>1 DEF TypeOK, CallType, CallStep, Unlink, DropRemoved, Close, ReadRegistry,
           ReadCache, SetStatus
    <2> QED
        BY <1>1, <2>1, ThreadTypes DEF ReaderKept
<1>2. CASE \/ Reserve(t) \/ Forward(t) \/ WriteSerial(t) \/ Cast(t)
           \/ \E d \in Clients : Send(t, d)
    <2>1. pc[t] # "stopped"
        BY <1>2 DEF Reserve, Forward, WriteSerial, Cast, Send, At
    <2>2. UNCHANGED callVars \/ \E d \in Clients : StartRemove(t, d)
        BY <1>2 DEF Reserve, Forward, WriteSerial, Cast, Send, SerialFailed, DisconnectSlow
    <2>3. \/ UNCHANGED pc
          \/ \E l \in {"forward", "write", "send", AfterWrite(t), Home(t)} : Goto(t, l)
        BY <1>2 DEF Reserve, Forward, WriteSerial, Cast, Send, SerialFailed, Finish
    <2>4. \A d \in Clients : t = Reader(d) => /\ Home(t) = "read"
                                              /\ AfterWrite(t) \in {"note", "cast", "reissue", "read"}
        BY HomeReader DEF AfterWrite
    <2> QED
        BY <2>1, <2>2, <2>3, <2>4, GotoReaders, StayReaders
<1> QED
    BY <1>1, <1>2 DEF SharedStep

LEMMA NextReaders ==
    ASSUME TypeOK, RegistryInv, [Next]_vars, NEW c \in Clients
    PROVE  \/ ReaderKept(c) \/ CallStep(Reader(c))
           \/ ReadWant(c) /\ ~Ready
           \/ DropOwn(c) \/ ReadError(c)
<1>1. ASSUME NEW t \in Threads, SharedStep(t) PROVE ReaderKept(c) \/ CallStep(Reader(c))
    BY <1>1, SharedReaders
<1>2. CASE SerialStep \/ SerialGlitch
    <2>1. pc[Serial] # "stopped" /\ (UNCHANGED callVars \/ StartPublish(Serial))
        BY <1>2 DEF SerialStep, SerialGlitch, SerialLoop, SerialError, SerialConfig,
           SerialComplete, SerialRebooted, SwapPending, ReissueDone, SerialPacket, Reissue,
           ReadFrame, At
    <2>2. UNCHANGED pc \/ \E l : Goto(Serial, l)
        BY <1>2 DEF SerialStep, SerialGlitch, SerialLoop, SerialError, SerialConfig,
           SerialComplete, SerialRebooted, SwapPending, ReissueDone, SerialPacket, Reissue
    <2> QED
        BY <2>1, <2>2, GotoReaders, StayReaders, ThreadTypes, DistinctThreads
<1>3. ASSUME NEW d \in Clients, NEW t \in Threads, t = Reader(d),
             ReadDisconnect(d) \/ ReadPacket(d) \/ ReadOther(d) \/ ReadRaw(d)
             \/ Note(d) \/ Snapshot(d) \/ Replay(d)
      PROVE  ReaderKept(c)
    <2>1. pc[t] # "stopped"
        BY <1>3 DEF ReadDisconnect, ReadPacket, ReadOther, ReadRaw, ReadTraffic, Message, Note,
           Snapshot, Replay, At
    <2>2. UNCHANGED callVars \/ \E e \in Clients : StartRemove(t, e)
        BY <1>3 DEF ReadDisconnect, ReadPacket, ReadOther, ReadRaw, ReadTraffic, Note, Snapshot,
           Replay, DisconnectSlow
    <2>3. UNCHANGED pc \/ \E l \in {"forward", "cast", "replay", "read"} : Goto(t, l)
        BY <1>3, HomeReader DEF ReadDisconnect, ReadPacket, ReadOther, ReadRaw, ReadTraffic,
           Note, Snapshot, Replay, Finish
    <2> QED
        BY <2>1, <2>2, <2>3, GotoReaders, StayReaders
<1>4. ASSUME NEW d \in Clients, NEW t \in Threads, t = Reader(d), d # c \/ Ready,
             ReadWant(d) \/ (d # c /\ (DropOwn(d) \/ ReadError(d)))
      PROVE  ReaderKept(c)
    <2>1. CASE ReadWant(d) /\ Ready
        <3>1. Goto(t, "snapshot") /\ UNCHANGED callVars /\ pc[t] # "stopped"
            BY <1>4, <2>1 DEF ReadWant, Message, At
        <3> QED
            BY <3>1, GotoReaders
    <2>2. CASE d # c
        <3>1. /\ \A u \in Threads \ {t} : pc'[u] = pc[u]
              /\ UNCHANGED callVars \/ \E e \in Clients : StartRemove(t, e)
            BY <1>4 DEF TypeOK, WorkType, ReadWant, DropOwn, ReadError, Goto
        <3>2. Reader(c) \in Threads \ {t}
            BY <1>4, <2>2, ThreadTypes, DistinctThreads
        <3> QED
            BY <3>1, <3>2, CallsAlone DEF ReaderKept
    <2> QED
        BY <1>4, <2>1, <2>2
<1>5. ASSUME NEW d \in Clients, WriterStep(d) \/ WriterWrote(d) \/ WriterFails(d)
      PROVE  ReaderKept(c)
    <2>1. /\ pc[Writer(d)] # "stopped" /\ \E l : Goto(Writer(d), l)
          /\ UNCHANGED callVars \/ \E e \in Clients : StartRemove(Writer(d), e)
        BY <1>5 DEF WriterStep, WriterStops, WriterTakes, WriterWrote, WriterFails, At
    <2> QED
        BY <2>1, GotoReaders, ThreadTypes, DistinctThreads
<1>6. CASE BootStart \/ BootScan
    BY <1>6, GotoReaders, ThreadTypes, DistinctThreads DEF BootStart, BootScan, At
<1>7. CASE WebSend
    BY <1>7, GotoReaders, StayReaders, ThreadTypes, DistinctThreads DEF WebSend, At
<1>8. CASE RunReturns
    BY <1>8, GotoReaders, ThreadTypes, DistinctThreads DEF RunReturns, At
<1>9. CASE ServerStep \/ ServerWakes
    <2>1. /\ pc[Server] # "stopped" /\ (UNCHANGED pc \/ \E l : Goto(Server, l))
          /\ UNCHANGED callVars \/ \E e \in Clients : StartRemove(Server, e)
        BY <1>9 DEF ServerStep, ServerStatus, ListClients, CloseSerial, RemoveListed,
           ServerWakes, At
    <2> QED
        BY <2>1, GotoReaders, StayReaders, ThreadTypes, DistinctThreads
<1>10. ASSUME NEW d \in Clients, AcceptConn(d) PROVE ReaderKept(c)
    BY <1>10, GotoReaders, ThreadTypes, DistinctThreads DEF AcceptConn, At
<1>11. ASSUME NEW d \in Clients, AddClient(d) PROVE ReaderKept(c)
    <2>1. pc[Reader(d)] = "off"
        BY <1>11 DEF RegistryInv, JoinedOK, AcceptorOK, Joined, AddClient
    <2>2. /\ \A t \in Threads \ {Acceptor, Reader(d), Writer(d)} : pc'[t] = pc[t]
          /\ pc'[Reader(d)] = "read"
        BY <1>11, ThreadTypes, DistinctThreads DEF TypeOK, WorkType, AddClient
    <2>3. \A u \in Threads \ {Acceptor} : call'[u] = call[u] /\ victim'[u] = victim[u]
        BY <1>11, CallsAlone, ThreadTypes DEF AddClient
    <2> QED
        BY <2>1, <2>2, <2>3, ThreadTypes, DistinctThreads DEF ReaderKept
<1>12. CASE \/ RadioAnswers \/ RadioHears \/ RadioReboots \/ LinkFails \/ Cancel
            \/ \E s \in Slots : RadioUpdates(s)
            \/ \E p \in outbound : OutboundExpires(p)
            \/ UNCHANGED vars
    BY <1>12 DEF RadioAnswers, RadioHears, RadioReboots, LinkFails, Cancel, RadioUpdates,
       OutboundExpires, vars, ReaderKept
<1> QED
    BY <1>1, <1>2, <1>3, <1>4, <1>5, <1>6, <1>7, <1>8, <1>9, <1>10, <1>11, <1>12, ThreadTypes
    DEF Next, ClientInput, ReaderStep

-----------------------------------------------------------------------------
(* How requests move between the tables *)

\* The requests after a step were in the same place before, or in another one (From).
OwnerKept(p) == ownerAt'[p] = ownerAt[p] \/ ownerAt'[p] \notin Clients

LEMMA OwnersKept ==
    /\ PendShrinks => \A n \in Nonces : OwnerKept(<<"pending", n>>)
    /\ OldShrinks => \A n \in Nonces : OwnerKept(<<"old", n>>)
    /\ ReqShrinks => OwnerKept(<<"req", Serial>>)
BY OwnerAt, OwnerAtNext, ThreadTypes DEF PendShrinks, OldShrinks, ReqShrinks, OwnerKept

\* A step leaves the owners alone, moves those of one table to the other, moves one, or
\* a reader puts its client's request into the free place b.
Swapped == /\ \A n \in Nonces : /\ ownerAt'[<<"old", n>>] = ownerAt[<<"pending", n>>]
                                /\ ownerAt'[<<"pending", n>>] \notin Clients
           /\ OwnerKept(<<"req", Serial>>)
Moved == \E a, b \in Parked : /\ ownerAt'[b] = ownerAt[a] /\ ownerAt'[a] \notin Clients
                              /\ \A p \in Parked \ {a, b} : OwnerKept(p)
Entered(c) == \E b \in Parked : /\ ownerAt'[b] = c /\ \A p \in Parked \ {b} : OwnerKept(p)

LEMMA NextOwners ==
    ASSUME TypeOK, ServeOK, [Next]_vars
    PROVE  \/ \A p \in Parked : OwnerKept(p)
           \/ Swapped \/ Moved
           \/ \E c \in Clients : Reserve(Reader(c)) /\ Entered(c)
<1>1. ASSUME NEW t \in Threads, Reserve(t)
      PROVE  \/ \A p \in Parked : OwnerKept(p)
             \/ Moved
             \/ \E c \in Clients : Reserve(Reader(c)) /\ Entered(c)
    <2>0. PICK n \in Nonces : pendingConfig' = [pendingConfig EXCEPT ![n] = req[t]]
        BY <1>1 DEF Reserve, FreeNonces
    <2>1. /\ pendingConfig'[n] = req[t]
          /\ \A m \in Nonces \ {n} : pendingConfig'[m] = pendingConfig[m]
        BY <2>0 DEF TypeOK, ConfigType
    <2>2. UNCHANGED old /\ req'[t] = NoReq /\ \A u \in Threads \ {t} : req'[u] = req[u]
        BY <1>1 DEF TypeOK, WorkType, Reserve
    <2>3. PICK b \in Parked : b = <<"pending", n>>
        BY ParkedTypes
    <2>4. /\ ownerAt'[b] = req[t].client
          /\ \A p \in Parked \ {b, <<"req", Serial>>} : ownerAt'[p] = ownerAt[p]
        <3>1. \A m \in Nonces \ {n} : ownerAt'[<<"pending", m>>] = ownerAt[<<"pending", m>>]
            BY <2>1, OwnerAt, OwnerAtNext
        <3>2. \A m \in Nonces : ownerAt'[<<"old", m>>] = ownerAt[<<"old", m>>]
            BY <2>2, OwnerAt, OwnerAtNext
        <3>3. ownerAt'[b] = req[t].client
            BY <2>1, <2>3, OwnerAtNext
        <3> QED
            BY <2>3, <3>1, <3>2, <3>3, ParkedTypes
    <2>5. CASE t = Serial
        <3>1. PICK a \in Parked : a = <<"req", Serial>>
            BY ParkedTypes
        <3>2. ownerAt[a] = req[t].client /\ ownerAt'[a] \notin Clients
            BY <2>2, <2>5, <3>1, OwnerAt, OwnerAtNext, NoReqClient, ThreadTypes
        <3> QED
            BY <2>4, <3>1, <3>2 DEF Moved, OwnerKept
    <2>6. CASE t # Serial
        <3>1. \A p \in Parked \ {b} : OwnerKept(p)
            BY <2>2, <2>4, <2>6, OwnerAt, OwnerAtNext, ThreadTypes DEF OwnerKept
        <3>2. CASE req[t].client \notin Clients
            BY <2>4, <3>1, <3>2 DEF OwnerKept
        <3>3. CASE req[t].client \in Clients
            BY <1>1, <2>4, <2>6, <3>1, <3>3 DEF ServeOK, Entered
        <3> QED
            BY <3>2, <3>3
    <2> QED
        BY <2>5, <2>6
<1>2. CASE SwapPending
    <2>1. /\ old' = pendingConfig /\ UNCHANGED req
          /\ \A n \in Nonces : pendingConfig'[n] = NoReq
        BY <1>2 DEF SwapPending
    <2> QED
        BY <2>1, OwnerAt, OwnerAtNext, NoReqClient DEF Swapped, OwnerKept
<1>3. ASSUME NEW n \in Nonces, Reissue(n) PROVE (\A p \in Parked : OwnerKept(p)) \/ Moved
    <2>1. /\ old'[n] = NoReq /\ \A m \in Nonces \ {n} : old'[m] = old[m]
          /\ UNCHANGED pendingConfig
          /\ UNCHANGED req \/ req'[Serial] = old[n]
        BY <1>3, ThreadTypes DEF TypeOK, WorkType, Reissue
    <2>2. PICK a, b \in Parked : a = <<"old", n>> /\ b = <<"req", Serial>>
        BY ParkedTypes
    <2>3. /\ ownerAt'[a] \notin Clients
          /\ \A p \in Parked \ {a, b} : ownerAt'[p] = ownerAt[p]
        <3>1. /\ \A m \in Nonces \ {n} : ownerAt'[<<"old", m>>] = ownerAt[<<"old", m>>]
              /\ \A m \in Nonces : ownerAt'[<<"pending", m>>] = ownerAt[<<"pending", m>>]
              /\ ownerAt'[<<"old", n>>] \notin Clients
            BY <2>1, OwnerAt, OwnerAtNext, NoReqClient
        <3> QED
            BY <2>2, <3>1, ParkedTypes
    <2>4. ownerAt'[b] = ownerAt[b] \/ ownerAt'[b] = ownerAt[a]
        BY <2>1, <2>2, OwnerAt, OwnerAtNext
    <2> QED
        BY <2>3, <2>4 DEF Moved, OwnerKept
<1>4. ASSUME NEW c \in Clients, ReadWant(c) PROVE \A p \in Parked : OwnerKept(p)
    <2>1. UNCHANGED <<pendingConfig, old>> /\ req'[Serial] = req[Serial]
        BY <1>4, ThreadTypes, DistinctThreads DEF TypeOK, WorkType, ReadWant
    <2> QED
        <3>1. /\ \A n \in Nonces : /\ ownerAt'[<<"old", n>>] = ownerAt[<<"old", n>>]
                                    /\ ownerAt'[<<"pending", n>>] = ownerAt[<<"pending", n>>]
              /\ ownerAt'[<<"req", Serial>>] = ownerAt[<<"req", Serial>>]
            BY <2>1, OwnerAt, OwnerAtNext
        <3> QED
            BY <3>1, ParkedTypes DEF OwnerKept
<1>5. ASSUME PendShrinks, OldShrinks, ReqShrinks PROVE \A p \in Parked : OwnerKept(p)
    BY <1>5, OwnersKept, ParkedTypes
<1> QED
    BY <1>1, <1>2, <1>3, <1>4, <1>5, NextPending, NextOld, NextReq

\* Nobody who owns none of them comes to own one, but by a request of its own.
LEMMA NextFree ==
    ASSUME TypeOK, ServeOK, [Next]_vars, NEW c \in Clients, Free(c)
    PROVE  Free(c)' \/ Reserve(Reader(c))
<1>1. CASE \A p \in Parked : OwnerKept(p)
    BY <1>1 DEF Free, OwnerKept
<1>2. CASE Swapped
    BY <1>2, ParkedTypes DEF Swapped, Free, OwnerKept
<1>3. CASE Moved
    BY <1>3 DEF Moved, Free, OwnerKept
<1>4. ASSUME NEW d \in Clients, Entered(d), d # c PROVE Free(c)'
    BY <1>4 DEF Entered, Free, OwnerKept
<1> QED
    BY <1>1, <1>2, <1>3, <1>4, NextOwners

-----------------------------------------------------------------------------
(* One request at a time *)

\* A client owns one request at most, none when its reader is about to make one, and
\* none when its reader is through with removeClient.
SingleOK == \A p, q \in Parked : ownerAt[p] \in Clients /\ ownerAt[p] = ownerAt[q] => p = q
RetryOK == \A c \in Clients : pc[Reader(c)] = "reserve" => Free(c)
StopOK == \A c \in Clients :
    pc[Reader(c)] = "stopped" /\ call[Reader(c)] \in {"unlink", "drop"} => victim[Reader(c)] = c
GhostOK == \A c \in Clients :
    pc[Reader(c)] = "stopped" /\ call[Reader(c)] \notin {"unlink", "drop"} => Free(c)

SingleInv == ServeOK /\ SingleOK /\ RetryOK /\ StopOK /\ GhostOK

\* The race that handleRebooted leaves open: it has taken a request of c out of
\* pendingConfig while dropPendingForClient, called by the reader of c, looks for it there.
HandedOver(c) == req[Serial].client = c \/ \E n \in Nonces : old[n].client = c
Overlooked == \E c \in Clients : HandedOver(c) /\ (DropOwn(c) \/ DropRemoved(Reader(c)))

LEMMA NextSingle ==
    ASSUME TypeOK, ServeOK, SingleOK, RetryOK, [Next]_vars PROVE SingleOK'
<1>1. CASE \A p \in Parked : OwnerKept(p)
    BY <1>1 DEF SingleOK, OwnerKept
<1>2. CASE Swapped
    <2> SUFFICES ASSUME NEW p \in Parked, NEW q \in Parked, ownerAt'[p] \in Clients,
                        ownerAt'[p] = ownerAt'[q]
                 PROVE  p = q
        BY DEF SingleOK
    <2>1. ASSUME NEW r \in Parked, ownerAt'[r] \in Clients
          PROVE  \/ r = <<"req", Serial>> /\ ownerAt'[r] = ownerAt[<<"req", Serial>>]
                 \/ \E n \in Nonces : r = <<"old", n>> /\ ownerAt'[r] = ownerAt[<<"pending", n>>]
        BY <1>2, <2>1, ParkedTypes DEF Swapped, OwnerKept
    <2>2. \A n \in Nonces : <<"req", Serial>> # <<"pending", n>>
        OBVIOUS
    <2>3. \A n, m \in Nonces : <<"pending", n>> = <<"pending", m>> => n = m
        OBVIOUS
    <2> QED
        BY <2>1, <2>2, <2>3, ParkedTypes DEF SingleOK
<1>3. CASE Moved
    BY <1>3 DEF Moved, SingleOK, OwnerKept
<1>4. ASSUME NEW c \in Clients, Reserve(Reader(c)), Entered(c) PROVE SingleOK'
    <2>1. Free(c)
        BY <1>4 DEF RetryOK, Reserve, At
    <2> QED
        BY <1>4, <2>1 DEF Entered, Free, SingleOK, OwnerKept
<1> QED
    BY <1>1, <1>2, <1>3, <1>4, NextOwners

\* dropPendingForClient leaves its client no request, unless one was handed over.
LEMMA DropFree ==
    ASSUME NEW c \in Clients, ~HandedOver(c), DropPending(c), UNCHANGED <<req, old>>
    PROVE  Free(c)'
<1>1. \A n \in Nonces : pendingConfig'[n].client # c /\ old'[n].client # c
    BY NoReqClient DEF DropPending, HandedOver
<1>2. req'[Serial].client # c
    BY DEF HandedOver
<1>3. /\ \A n \in Nonces : ownerAt'[<<"pending", n>>] # c /\ ownerAt'[<<"old", n>>] # c
      /\ ownerAt'[<<"req", Serial>>] # c
    BY <1>1, <1>2, OwnerAtNext
<1> QED
    BY <1>3, ParkedTypes DEF Free

LEMMA NextRetry ==
    ASSUME TypeOK, RegistryInv, ServeOK, RetryOK, ~Overlooked, [Next]_vars PROVE RetryOK'
<1> SUFFICES ASSUME NEW c \in Clients, pc'[Reader(c)] = "reserve" PROVE Free(c)'
    BY DEF RetryOK
<1>1. CASE DropOwn(c)
    BY <1>1, DropFree DEF DropOwn, Overlooked
<1>2. CASE pc[Reader(c)] = "reserve"
    <2>1. ~Reserve(Reader(c))
        BY ThreadTypes DEF TypeOK, WorkType, Reserve, Goto
    <2> QED
        BY <1>2, <2>1, NextFree DEF RetryOK
<1>3. pc[Reader(c)] = "reserve" \/ DropOwn(c)
    <2>1. CallStep(Reader(c)) => UNCHANGED pc
        BY DEF CallStep, Unlink, DropRemoved, Close, ReadRegistry, ReadCache, SetStatus
    <2>2. ~(ReadWant(c) /\ ~Ready) /\ ~ReadError(c)
        BY ThreadTypes DEF TypeOK, WorkType, ReadWant, ReadError, Goto
    <2> QED
        BY <2>1, <2>2, NextReaders DEF ReaderKept
<1> QED
    BY <1>1, <1>2, <1>3

LEMMA NextGhost ==
    ASSUME TypeOK, RegistryInv, ServeOK, StopOK, GhostOK, ~Overlooked, [Next]_vars
    PROVE  StopOK' /\ GhostOK'
<1> SUFFICES ASSUME NEW c \in Clients, pc'[Reader(c)] = "stopped"
             PROVE  /\ call'[Reader(c)] \in {"unlink", "drop"} => victim'[Reader(c)] = c
                    /\ call'[Reader(c)] \notin {"unlink", "drop"} => Free(c)'
    BY DEF StopOK, GhostOK
<1>0. Reader(c) \in Threads
    BY ThreadTypes
<1>1. ASSUME pc[Reader(c)] = "stopped", call[Reader(c)] \notin {"unlink", "drop"} PROVE Free(c)'
    <2>1. ~Reserve(Reader(c))
        BY <1>1 DEF Reserve, At
    <2> QED
        BY <1>1, <2>1, NextFree DEF GhostOK
<1>2. CASE ReaderKept(c)
    BY <1>1, <1>2 DEF ReaderKept, StopOK
<1>3. CASE ReadError(c)
    BY <1>0, <1>3 DEF TypeOK, CallType, ReadError, StartRemove
<1>4. CASE DropRemoved(Reader(c))
    <2>1. /\ pc[Reader(c)] = "stopped" /\ call[Reader(c)] = "drop"
          /\ call'[Reader(c)] = "close" /\ DropPending(victim[Reader(c)]) /\ UNCHANGED <<req, old>>
        BY <1>0, <1>4 DEF TypeOK, CallType, DropRemoved
    <2>2. victim[Reader(c)] = c
        BY <2>1 DEF StopOK
    <2>3. Free(c)'
        BY <1>4, <2>1, <2>2, DropFree DEF Overlooked
    <2> QED
        BY <2>1, <2>3
<1>5. CASE \/ Unlink(Reader(c)) \/ Close(Reader(c)) \/ ReadRegistry(Reader(c))
           \/ ReadCache(Reader(c)) \/ SetStatus(Reader(c))
    <2>1. /\ pc[Reader(c)] = "stopped"
          /\ \/ /\ call[Reader(c)] = "unlink" /\ call'[Reader(c)] = "drop"
                /\ victim'[Reader(c)] = victim[Reader(c)]
             \/ /\ call[Reader(c)] \notin {"unlink", "drop"}
                /\ call'[Reader(c)] \notin {"unlink", "drop"}
        BY <1>0, <1>5 DEF TypeOK, CallType, Unlink, Close, ReadRegistry, ReadCache, SetStatus
    <2> QED
        BY <1>1, <2>1 DEF StopOK
<1>6. ~(ReadWant(c) /\ ~Ready) /\ ~DropOwn(c)
    BY <1>0 DEF TypeOK, WorkType, ReadWant, DropOwn, Goto
<1> QED
    BY <1>2, <1>3, <1>4, <1>5, <1>6, NextReaders DEF CallStep

LEMMA InitSingle == Init => SingleInv
<1> SUFFICES ASSUME Init PROVE SingleInv
    OBVIOUS
<1>1. \A c \in Clients : pc[Reader(c)] \notin {"reserve", "stopped"}
    BY ThreadTypes, DistinctThreads DEF Init
<1>2. ServeOK
    BY NoReqClient DEF Init, ServeOK
<1>3. \A p \in Parked : ownerAt[p] \notin Clients
    BY ParkedTypes, OwnerAt, NoReqClient, ThreadTypes DEF Init
<1> QED
    BY <1>1, <1>2, <1>3 DEF SingleInv, SingleOK, RetryOK, StopOK, GhostOK

LEMMA SingleInvariant ==
    Spec /\ [][~Overlooked]_vars =>
        [](TypeOK /\ LocalsOK /\ SenderOK /\ RegistryInv /\ SingleInv)
<1> DEFINE Inv == TypeOK /\ LocalsOK /\ SenderOK /\ RegistryInv /\ SingleInv
<1>1. Init => Inv
    BY InitType, InitRegistry, InitSingle
<1>2. Inv /\ [Next]_vars /\ [~Overlooked]_vars => Inv'
    <2> SUFFICES ASSUME Inv, [Next]_vars, [~Overlooked]_vars PROVE Inv'
        OBVIOUS
    <2>1. TypeOK' /\ LocalsOK' /\ SenderOK' /\ RegistryInv'
        BY NextType, NextRegistry
    <2>2. CASE ~Overlooked
        BY <2>1, <2>2, NextServe, NextSingle, NextRetry, NextGhost DEF SingleInv
    <2>3. CASE UNCHANGED vars
        <3>1. SingleInv'
            BY <2>3 DEF vars, SingleInv, ServeOK, SingleOK, RetryOK, StopOK, GhostOK, Free, ownerAt
        <3> QED
            BY <2>1, <3>1
    <2> QED
        BY <2>2, <2>3
<1> QED
    BY <1>1, <1>2, PTL DEF Spec

\* However often the radio reboots, a client has one request in pendingConfig at a time,
\* for any number of clients and retries: each of them replaces the one before.  The one
\* condition is that no reader drops its client's requests while handleRebooted has one
\* of them in hand.
THEOREM OneRequestCorrect == Spec /\ [][~Overlooked]_vars => []OneRequestPerClient
<1>1. SingleInv => OneRequestPerClient
    <2> SUFFICES ASSUME SingleOK PROVE OneRequestPerClient
        BY DEF SingleInv
    <2> SUFFICES ASSUME NEW n \in Nonces, NEW m \in Nonces, pendingConfig[n].client \in Clients,
                        pendingConfig[n].client = pendingConfig[m].client
                 PROVE  n = m
        BY DEF OneRequestPerClient
    <2>1. ownerAt[<<"pending", n>>] \in Clients /\ ownerAt[<<"pending", n>>] = ownerAt[<<"pending", m>>]
        BY OwnerAt
    <2>2. <<"pending", n>> = <<"pending", m>>
        BY <2>1, ParkedTypes DEF SingleOK
    <2> QED
        BY <2>2
<1> QED
    BY <1>1, SingleInvariant, PTL

\* Under the same condition no request outlives the reader of its client, however often
\* the radio reboots and however the removals of that client by other goroutines
\* interleave with its reader.
THEOREM NoGhostsCorrect == Spec /\ [][~Overlooked]_vars => []NoGhostRequests
<1>1. SingleInv => NoGhostRequests
    BY ParkedTypes, OwnerAt DEF SingleInv, GhostOK, Free, NoGhostRequests
<1> QED
    BY <1>1, SingleInvariant, PTL
=============================================================================
