--------------------------- MODULE SessionsSafety ---------------------------
(***************************************************************************)
(* The safety properties of Sessions, for any number of connections,       *)
(* fetches and sessions and every limit on failures and events.  None of   *)
(* them is inductive alone: they rest on one invariant, SessionsInv, which *)
(* says what each goroutine may rely on at the step it is at.  Its parts   *)
(* follow the parts of the state; one lemma per action, one step per part  *)
(* that the action can disturb.                                            *)
(***************************************************************************)
EXTENDS Sessions, TLAPS

\* The supervisor: current is its session from Install to UnsetCurrent, with a status
\* that says so, and todo is CloseAll's.
InSession == {"announce", "install", "serve", "unset", "status", "list", "closeall",
              "publish", "judge"}
SuperOK ==
    /\ spc \in InSession \cup {"wait", "open", "setup", "sleep", "returned"}
    /\ opened \in 0..MaxSessions
    /\ current = IF spc \in {"serve", "unset"} THEN opened ELSE 0
    /\ spc \in InSession => opened # 0
    /\ spc = "setup" => opened < MaxSessions
    /\ spc \notin {"closeall", "publish"} => todo = {}
    /\ provider \in BOOLEAN /\ shown \in BOOLEAN
    /\ spc \in {"install", "serve", "unset"} => shown

\* rapid is the number of failures at the end of outcomes, and Run has given up when
\* it has reached the limit.
CountOK ==
    /\ outcomes \in Seq({"ok", "fail"}) /\ rapid \in 0..MaxRapidFails
    /\ rapid <= Len(outcomes)
    /\ \A i \in 1..rapid : outcomes[Len(outcomes) + 1 - i] = "fail"
    /\ rapid < Len(outcomes) => outcomes[Len(outcomes) - rapid] = "ok"
    /\ err \in {"none", "nil", "cancel", "accept", "closed", "toomany"}
    /\ err = "toomany" <=> rapid = MaxRapidFails
    /\ err = "toomany" => spc = "returned"

\* The accept loop holds a connection nobody else knows.
AcceptOK ==
    /\ apc \in {"accept", "pick", "add", "publish", "stopped"}
    /\ conn \in Conns \cup {Nil}
    /\ apc \in {"pick", "add"} => conn \in Conns /\ home[conn] = 0 /\ conn \notin shut
    /\ active \in 0..opened /\ (apc = "add" => active # 0)
    /\ acceptErr \in BOOLEAN /\ (acceptErr => apc = "stopped")

\* A connection is registered in its own session, and exactly as long as it is open.
ClientsOK ==
    /\ home \in [Conns -> 0..opened] /\ members \in [SessionIds -> SUBSET Conns]
    /\ cpc \in [Conns -> {"off", "run", "publish", "ended"}]
    /\ shut \subseteq Conns /\ todo \subseteq Conns
    /\ \A c \in Conns : cpc[c] = "off" <=> home[c] = 0
    /\ \A s \in SessionIds : \A c \in members[s] : home[c] = s
    /\ \A c \in Conns : home[c] # 0 =>
          (c \notin shut <=> c \in members[home[c]]) /\ (c \notin shut => cpc[c] = "run")
    /\ \A c \in todo : home[c] = opened

\* Run ends after done is closed, and a device belongs to the session that is on.
BrokersOK ==
    /\ done \in [SessionIds -> BOOLEAN]
    /\ runErr \in [SessionIds -> {"none", "cancel", "closed"}]
    /\ \A s \in SessionIds : runErr[s] # "none" => done[s]
    /\ rpc \in [SessionIds -> {"off", "read", "lookup", "deliver", "store", "posted", "stopped"}]
    /\ link \in [SessionIds -> {"up", "lost", "closed"}]
    /\ \A s \in SessionIds : rpc[s] # "off" =>
          s < opened \/ (s = opened /\ spc \notin {"announce", "install"})
    /\ \A s \in SessionIds : link[s] # "closed" =>
          s = opened /\ spc \in InSession \ {"judge"}

\* A descriptor is open while it is set up, used, or read from.
DescriptorsOK == held \subseteq 0..opened /\ NoLeakedDescriptor

\* A handler waits in the session it was given.
FetchOK ==
    /\ fpc \in [Fetches -> {"idle", "cached", "check", "forward", "wait", "leave", "back"}]
    /\ radio \in [Fetches -> 0..opened]
    /\ \A f \in Fetches : fpc[f] \notin {"idle", "back"} => radio[f] # 0
    /\ mailbox \in [Fetches -> {"none", "list", "empty"}]
    /\ reply \in [Fetches -> {"none", "list", "error", "panic"}]
    /\ \A f \in Fetches : fpc[f] = "idle" => mailbox[f] = "none" /\ reply[f] = "none"
WaitOK == waiters \in [SessionIds -> SUBSET Fetches] /\ WaitersOwned

\* What readSerial is delivering is an answer the radio gave in this session, to a
\* handler of this session.
AnswerOK ==
    /\ answer \in [SessionIds -> [id : Fetches \cup {Nil}, kind : {"list", "empty"}]]
    /\ \A s \in SessionIds :
          /\ rpc[s] \in {"lookup", "deliver", "store"} =>
                answer[s].id \in Fetches /\ <<s, answer[s].id, answer[s].kind>> \in answered
          /\ rpc[s] = "deliver" => radio[answer[s].id] = s /\ fpc[answer[s].id] # "idle"

\* The radio has sent a list in session s; what the broker has stored says so.
Listed(s) == \E g \in Fetches : <<s, g, "list">> \in answered
StoredOK ==
    /\ canned \in [SessionIds -> {"none", "fresh", "stale"}]
    /\ \A s \in SessionIds : canned[s] # "none" => Listed(s)
\* The two halves of CannedAnswerReal.
MailOK  == \A f \in Fetches : mailbox[f] # "none" => <<radio[f], f, mailbox[f]>> \in answered
ReplyOK == \A f \in Fetches : reply[f] = "list" => Listed(radio[f])

\* A session that is over is done, or the program ends, or nobody joins any more; in
\* the last case CloseAll has listed whoever is left.
OverOK ==
    /\ \A s \in SessionIds : Over(s) /\ s <= opened => done[s] \/ cancelled \/ apc = "stopped"
    /\ \A c \in Conns : home[c] # 0 /\ c \notin shut /\ Over(home[c]) =>
          \/ done[home[c]] \/ cancelled
          \/ home[c] = opened /\ (spc \in {"unset", "status", "list"} \/ c \in todo)

SessionsInv ==
    /\ SuperOK /\ CountOK /\ AcceptOK /\ ClientsOK /\ BrokersOK /\ DescriptorsOK
    /\ FetchOK /\ WaitOK /\ AnswerOK /\ StoredOK /\ MailOK /\ ReplyOK /\ OverOK

USE DEF superVars, acceptVars, clientVars, sessionVars, fetchVars, cannedVars, envVars

-----------------------------------------------------------------------------
(* What a step leaves alone *)

LEMMA Undisturbed ==
    ASSUME SessionsInv
    PROVE  /\ UNCHANGED <<spc, opened, current, todo, provider, shown>> => SuperOK'
           /\ UNCHANGED <<spc, err, rapid, outcomes>> => CountOK'
           /\ UNCHANGED <<apc, conn, active, acceptErr, home, shut, opened>> => AcceptOK'
           /\ UNCHANGED <<home, members, cpc, shut, todo, opened>> => ClientsOK'
           /\ UNCHANGED <<done, runErr, rpc, link, opened, spc>> => BrokersOK'
           /\ UNCHANGED <<held, rpc, link, opened, spc>> => DescriptorsOK'
           /\ UNCHANGED <<fpc, radio, mailbox, reply, opened>> => FetchOK'
           /\ UNCHANGED <<fpc, radio, waiters>> => WaitOK'
           /\ UNCHANGED <<answer, answered, rpc, radio, fpc>> => AnswerOK'
           /\ UNCHANGED <<canned, answered>> => StoredOK'
           /\ UNCHANGED <<mailbox, radio, answered>> => MailOK'
           /\ UNCHANGED <<reply, radio, answered>> => ReplyOK'
           /\ UNCHANGED <<home, shut, opened, spc, todo, done, cancelled, apc>> => OverOK'
<1> USE DEF SessionsInv
<1>1. UNCHANGED <<spc, opened, current, todo, provider, shown>> => SuperOK'
    BY DEF SuperOK
<1>2. UNCHANGED <<spc, err, rapid, outcomes>> => CountOK'
    BY DEF CountOK
<1>3. UNCHANGED <<apc, conn, active, acceptErr, home, shut, opened>> => AcceptOK'
    BY DEF AcceptOK
<1>4. UNCHANGED <<home, members, cpc, shut, todo, opened>> => ClientsOK'
    BY DEF ClientsOK
<1>5. UNCHANGED <<done, runErr, rpc, link, opened, spc>> => BrokersOK'
    BY DEF BrokersOK
<1>6. UNCHANGED <<held, rpc, link, opened, spc>> => DescriptorsOK'
    BY DEF DescriptorsOK, NoLeakedDescriptor
<1>7. UNCHANGED <<fpc, radio, mailbox, reply, opened>> => FetchOK'
    BY DEF FetchOK
<1>8. UNCHANGED <<fpc, radio, waiters>> => WaitOK'
    BY DEF WaitOK, WaitersOwned
<1>9. UNCHANGED <<answer, answered, rpc, radio, fpc>> => AnswerOK'
    BY DEF AnswerOK
<1>10. /\ UNCHANGED <<canned, answered>> => StoredOK'
       /\ UNCHANGED <<mailbox, radio, answered>> => MailOK'
       /\ UNCHANGED <<reply, radio, answered>> => ReplyOK'
    BY DEF StoredOK, MailOK, ReplyOK, Listed
<1>11. UNCHANGED <<home, shut, opened, spc, todo, done, cancelled, apc>> => OverOK'
    BY DEF OverOK, Over
<1> QED
    BY <1>1, <1>2, <1>3, <1>4, <1>5, <1>6, <1>7, <1>8, <1>9, <1>10, <1>11

\* An answer of the radio is never taken back.
LEMMA ListedStays == ASSUME NEW s, answered \subseteq answered' PROVE Listed(s) => Listed(s)'
BY DEF Listed

\* One more failed attempt, whichever it was.
LEMMA CountFailureCounts ==
    ASSUME CountOK, spc # "returned", CountFailure
    PROVE  CountOK'
<1>1. rapid' = rapid + 1 /\ rapid + 1 \in 1..MaxRapidFails
    BY SessionsAssumptions DEF CountOK, CountFailure
<1>2. /\ outcomes' \in Seq({"ok", "fail"}) /\ Len(outcomes') = Len(outcomes) + 1
      /\ outcomes'[Len(outcomes) + 1] = "fail"
      /\ \A i \in 1..Len(outcomes) : outcomes'[i] = outcomes[i]
    BY DEF CountOK, CountFailure
<1>3. \A i \in 1..rapid' : outcomes'[Len(outcomes') + 1 - i] = "fail"
    <2> SUFFICES ASSUME NEW i \in 1..rapid' PROVE outcomes'[Len(outcomes') + 1 - i] = "fail"
        OBVIOUS
    <2>1. CASE i = 1
        BY <1>2, <2>1 DEF CountOK
    <2>2. CASE i # 1
        <3>1. i - 1 \in 1..rapid /\ Len(outcomes) + 1 - (i - 1) \in 1..Len(outcomes)
            BY <1>1, <2>2 DEF CountOK
        <3>2. Len(outcomes') + 1 - i = Len(outcomes) + 1 - (i - 1)
            BY <1>1, <1>2 DEF CountOK
        <3> QED
            BY <1>2, <3>1, <3>2 DEF CountOK
    <2> QED
        BY <2>1, <2>2
<1>4. rapid' < Len(outcomes') => outcomes'[Len(outcomes') - rapid'] = "ok"
    <2> SUFFICES ASSUME rapid' < Len(outcomes') PROVE outcomes'[Len(outcomes') - rapid'] = "ok"
        OBVIOUS
    <2>1. Len(outcomes') - rapid' = Len(outcomes) - rapid /\ rapid < Len(outcomes)
        BY <1>1, <1>2 DEF CountOK
    <2>2. Len(outcomes) - rapid \in 1..Len(outcomes)
        BY <1>1, <2>1 DEF CountOK
    <2> QED
        BY <1>2, <2>1, <2>2 DEF CountOK
<1>5. /\ err' \in {"none", "nil", "cancel", "accept", "closed", "toomany"}
      /\ err' = "toomany" <=> rapid' = MaxRapidFails
      /\ err' = "toomany" => spc' = "returned"
    BY <1>1, SessionsAssumptions DEF CountOK, CountFailure, Return
<1>6. rapid' <= Len(outcomes')
    BY <1>1, <1>2 DEF CountOK
<1> QED
    BY <1>1, <1>2, <1>3, <1>4, <1>5, <1>6 DEF CountOK

-----------------------------------------------------------------------------
(* One lemma per action *)

LEMMA DeviceFoundSafe ==
    ASSUME SessionsInv, Alive, DeviceFound
    PROVE  SessionsInv'
<1>1. SuperOK'
    BY SessionsAssumptions DEF SessionsInv, SuperOK, InSession, DeviceFound, Alive,
       Event
<1>2. CountOK'
    BY SessionsAssumptions DEF SessionsInv, CountOK, SuperOK, DeviceFound, Alive, Event
<1>3. BrokersOK'
    BY SessionsAssumptions DEF SessionsInv, BrokersOK, InSession, SessionIds, SuperOK,
       DeviceFound, Alive, Event
<1>4. DescriptorsOK'
    BY SessionsAssumptions DEF SessionsInv, DescriptorsOK, NoLeakedDescriptor,
       SessionIds, SuperOK, BrokersOK, InSession, DeviceFound, Alive, Event
<1>5. OverOK'
    BY SessionsAssumptions DEF SessionsInv, OverOK, Over, Serving, SessionIds, SuperOK,
       InSession, ClientsOK, AcceptOK, BrokersOK, DeviceFound, Alive, Event
<1> QED
    BY Undisturbed, <1>1, <1>2, <1>3, <1>4, <1>5 DEF SessionsInv, DeviceFound

LEMMA DeviceAbandonedSafe ==
    ASSUME SessionsInv, Alive, DeviceAbandoned
    PROVE  SessionsInv'
<1>1. SuperOK'
    BY SessionsAssumptions DEF SessionsInv, SuperOK, InSession, DeviceAbandoned, Return,
       Alive, Event
<1>2. CountOK'
    BY SessionsAssumptions DEF SessionsInv, CountOK, SuperOK, DeviceAbandoned, Return,
       Alive, Event
<1>3. BrokersOK'
    BY SessionsAssumptions DEF SessionsInv, BrokersOK, InSession, SessionIds, SuperOK,
       DeviceAbandoned, Return, Alive, Event
<1>4. DescriptorsOK'
    BY SessionsAssumptions DEF SessionsInv, DescriptorsOK, NoLeakedDescriptor,
       SessionIds, SuperOK, BrokersOK, InSession, DeviceAbandoned, Return, Alive, Event
<1>5. OverOK'
    BY SessionsAssumptions DEF SessionsInv, OverOK, Over, Serving, SessionIds, SuperOK,
       InSession, ClientsOK, AcceptOK, BrokersOK, DeviceAbandoned, Return, Alive, Event
<1> QED
    BY Undisturbed, <1>1, <1>2, <1>3, <1>4, <1>5 DEF SessionsInv, DeviceAbandoned

LEMMA OpenFailsSafe ==
    ASSUME SessionsInv, Alive, OpenFails
    PROVE  SessionsInv'
<1>1. SuperOK'
    BY SessionsAssumptions DEF SessionsInv, SuperOK, InSession, OpenFails, CountFailure,
       Return, Pause, Alive, Event
<1>2. CountOK'
    BY CountFailureCounts DEF SessionsInv, Alive, OpenFails
<1>3. BrokersOK'
    BY SessionsAssumptions DEF SessionsInv, BrokersOK, InSession, SessionIds, SuperOK,
       OpenFails, CountFailure, Return, Pause, Alive, Event
<1>4. DescriptorsOK'
    BY SessionsAssumptions DEF SessionsInv, DescriptorsOK, NoLeakedDescriptor,
       SessionIds, SuperOK, BrokersOK, InSession, OpenFails, CountFailure, Return,
       Pause, Alive, Event
<1>5. OverOK'
    BY SessionsAssumptions DEF SessionsInv, OverOK, Over, Serving, SessionIds, SuperOK,
       InSession, ClientsOK, AcceptOK, BrokersOK, OpenFails, CountFailure, Return,
       Pause, Alive, Event
<1> QED
    BY Undisturbed, <1>1, <1>2, <1>3, <1>4, <1>5 DEF SessionsInv, OpenFails

LEMMA OpenDeviceSafe ==
    ASSUME SessionsInv, Alive, OpenDevice
    PROVE  SessionsInv'
<1>1. SuperOK'
    BY SessionsAssumptions DEF SessionsInv, SuperOK, InSession, OpenDevice, Alive, Event
<1>2. CountOK'
    BY SessionsAssumptions DEF SessionsInv, CountOK, SuperOK, OpenDevice, Alive, Event
<1>3. BrokersOK'
    BY SessionsAssumptions DEF SessionsInv, BrokersOK, InSession, SessionIds, SuperOK,
       OpenDevice, Alive, Event
<1>4. DescriptorsOK'
    BY SessionsAssumptions DEF SessionsInv, DescriptorsOK, NoLeakedDescriptor,
       SessionIds, SuperOK, BrokersOK, InSession, OpenDevice, Alive, Event
<1>5. OverOK'
    BY SessionsAssumptions DEF SessionsInv, OverOK, Over, Serving, SessionIds, SuperOK,
       InSession, ClientsOK, AcceptOK, BrokersOK, OpenDevice, Alive, Event
<1> QED
    BY Undisturbed, <1>1, <1>2, <1>3, <1>4, <1>5 DEF SessionsInv, OpenDevice

LEMMA SetupFailsSafe ==
    ASSUME SessionsInv, Alive, SetupFails
    PROVE  SessionsInv'
<1>1. SuperOK'
    BY SessionsAssumptions DEF SessionsInv, SuperOK, InSession, SetupFails,
       CountFailure, Return, Pause, Alive, Event
<1>2. CountOK'
    BY CountFailureCounts DEF SessionsInv, Alive, SetupFails
<1>3. BrokersOK'
    BY SessionsAssumptions DEF SessionsInv, BrokersOK, InSession, SessionIds, SuperOK,
       SetupFails, CountFailure, Return, Pause, Alive, Event
<1>4. DescriptorsOK'
    BY SessionsAssumptions DEF SessionsInv, DescriptorsOK, NoLeakedDescriptor,
       SessionIds, SuperOK, BrokersOK, InSession, SetupFails, CountFailure, Return,
       Pause, Alive, Event
<1>5. OverOK'
    BY SessionsAssumptions DEF SessionsInv, OverOK, Over, Serving, SessionIds, SuperOK,
       InSession, ClientsOK, AcceptOK, BrokersOK, SetupFails, CountFailure, Return,
       Pause, Alive, Event
<1> QED
    BY Undisturbed, <1>1, <1>2, <1>3, <1>4, <1>5 DEF SessionsInv, SetupFails

LEMMA OpenWorksSafe ==
    ASSUME SessionsInv, Alive, OpenWorks
    PROVE  SessionsInv'
<1>1. SuperOK'
    BY SessionsAssumptions DEF SessionsInv, SuperOK, InSession, OpenWorks, Alive, Event
<1>2. CountOK'
    BY SessionsAssumptions DEF SessionsInv, CountOK, SuperOK, OpenWorks, Alive, Event
<1>3. BrokersOK'
    BY SessionsAssumptions DEF SessionsInv, BrokersOK, InSession, SessionIds, SuperOK,
       OpenWorks, Alive, Event
<1>4. DescriptorsOK'
    BY SessionsAssumptions DEF SessionsInv, DescriptorsOK, NoLeakedDescriptor,
       SessionIds, SuperOK, BrokersOK, InSession, OpenWorks, Alive, Event
<1>5. OverOK'
    BY SessionsAssumptions DEF SessionsInv, OverOK, Over, Serving, SessionIds, SuperOK,
       InSession, ClientsOK, AcceptOK, BrokersOK, OpenWorks, Alive, Event
<1>6. AcceptOK'
    BY SessionsAssumptions DEF SessionsInv, AcceptOK, SuperOK, ClientsOK, OpenWorks,
       Alive, Event
<1>7. ClientsOK'
    BY SessionsAssumptions DEF SessionsInv, ClientsOK, SessionIds, SuperOK, AcceptOK,
       OpenWorks, Alive, Event
<1>8. FetchOK'
    BY SessionsAssumptions DEF SessionsInv, FetchOK, SessionIds, SuperOK, OpenWorks,
       Alive, Event
<1> QED
    BY Undisturbed, <1>1, <1>2, <1>3, <1>4, <1>5, <1>6, <1>7, <1>8 DEF SessionsInv,
       OpenWorks

LEMMA AnnounceSafe ==
    ASSUME SessionsInv, Alive, Announce
    PROVE  SessionsInv'
<1>1. SuperOK'
    BY SessionsAssumptions DEF SessionsInv, SuperOK, InSession, Announce, Alive, Event
<1>2. CountOK'
    BY SessionsAssumptions DEF SessionsInv, CountOK, SuperOK, Announce, Alive, Event
<1>3. BrokersOK'
    BY SessionsAssumptions DEF SessionsInv, BrokersOK, InSession, SessionIds, SuperOK,
       Announce, Alive, Event
<1>4. DescriptorsOK'
    BY SessionsAssumptions DEF SessionsInv, DescriptorsOK, NoLeakedDescriptor,
       SessionIds, SuperOK, BrokersOK, InSession, Announce, Alive, Event
<1>5. OverOK'
    BY SessionsAssumptions DEF SessionsInv, OverOK, Over, Serving, SessionIds, SuperOK,
       InSession, ClientsOK, AcceptOK, BrokersOK, Announce, Alive, Event
<1> QED
    BY Undisturbed, <1>1, <1>2, <1>3, <1>4, <1>5 DEF SessionsInv, Announce

LEMMA InstallSafe ==
    ASSUME SessionsInv, Alive, Install
    PROVE  SessionsInv'
<1>1. SuperOK'
    BY SessionsAssumptions DEF SessionsInv, SuperOK, InSession, Install, Alive, Event
<1>2. CountOK'
    BY SessionsAssumptions DEF SessionsInv, CountOK, SuperOK, Install, Alive, Event
<1>3. BrokersOK'
    BY SessionsAssumptions DEF SessionsInv, BrokersOK, InSession, SessionIds, SuperOK,
       Install, Alive, Event
<1>4. DescriptorsOK'
    BY SessionsAssumptions DEF SessionsInv, DescriptorsOK, NoLeakedDescriptor,
       SessionIds, SuperOK, BrokersOK, InSession, Install, Alive, Event
<1>5. OverOK'
    BY SessionsAssumptions DEF SessionsInv, OverOK, Over, Serving, SessionIds, SuperOK,
       InSession, ClientsOK, AcceptOK, BrokersOK, Install, Alive, Event
<1>6. AnswerOK'
    BY SessionsAssumptions DEF SessionsInv, AnswerOK, SessionIds, FetchOK, WaitOK,
       WaitersOwned, Waits, Install, Alive, Event
<1> QED
    BY Undisturbed, <1>1, <1>2, <1>3, <1>4, <1>5, <1>6 DEF SessionsInv, Install

LEMMA SessionEndsSafe ==
    ASSUME SessionsInv, Alive, SessionEnds
    PROVE  SessionsInv'
<1>1. SuperOK'
    BY SessionsAssumptions DEF SessionsInv, SuperOK, InSession, SessionEnds, Alive,
       Event
<1>2. CountOK'
    <2>1. opened \in SessionIds /\ err # "toomany"
        BY DEF SessionsInv, SuperOK, CountOK, InSession, SessionIds, SessionEnds, Alive
    <2>2. err' \in {"cancel", "accept", "closed"}
        BY <2>1 DEF SessionsInv, BrokersOK, SessionEnds
    <2> QED
        BY <2>1, <2>2 DEF SessionsInv, CountOK, SessionEnds
<1>3. BrokersOK'
    BY SessionsAssumptions DEF SessionsInv, BrokersOK, InSession, SessionIds, SuperOK,
       SessionEnds, Alive, Event
<1>4. DescriptorsOK'
    BY SessionsAssumptions DEF SessionsInv, DescriptorsOK, NoLeakedDescriptor,
       SessionIds, SuperOK, BrokersOK, InSession, SessionEnds, Alive, Event
<1>5. OverOK'
    BY SessionsAssumptions DEF SessionsInv, OverOK, Over, Serving, SessionIds, SuperOK,
       InSession, ClientsOK, AcceptOK, BrokersOK, SessionEnds, Alive, Event
<1>6. AcceptOK'
    <2>1. acceptErr' \in BOOLEAN
        BY Zenon DEF SessionsInv, AcceptOK, SessionEnds
    <2>2. acceptErr' => apc = "stopped"
        BY Zenon DEF SessionsInv, AcceptOK, SessionEnds
    <2> QED
        BY <2>1, <2>2 DEF SessionsInv, AcceptOK, SessionEnds
<1> QED
    BY Undisturbed, <1>1, <1>2, <1>3, <1>4, <1>5, <1>6 DEF SessionsInv, SessionEnds

LEMMA UnsetCurrentSafe ==
    ASSUME SessionsInv, Alive, UnsetCurrent
    PROVE  SessionsInv'
<1>1. SuperOK'
    BY SessionsAssumptions DEF SessionsInv, SuperOK, InSession, UnsetCurrent, Alive,
       Event
<1>2. CountOK'
    BY SessionsAssumptions DEF SessionsInv, CountOK, SuperOK, UnsetCurrent, Alive, Event
<1>3. BrokersOK'
    BY SessionsAssumptions DEF SessionsInv, BrokersOK, InSession, SessionIds, SuperOK,
       UnsetCurrent, Alive, Event
<1>4. DescriptorsOK'
    BY SessionsAssumptions DEF SessionsInv, DescriptorsOK, NoLeakedDescriptor,
       SessionIds, SuperOK, BrokersOK, InSession, UnsetCurrent, Alive, Event
<1>5. OverOK'
    BY SessionsAssumptions DEF SessionsInv, OverOK, Over, Serving, SessionIds, SuperOK,
       InSession, ClientsOK, AcceptOK, BrokersOK, UnsetCurrent, Alive, Event
<1> QED
    BY Undisturbed, <1>1, <1>2, <1>3, <1>4, <1>5 DEF SessionsInv, UnsetCurrent

LEMMA ShowDisconnectedSafe ==
    ASSUME SessionsInv, Alive, ShowDisconnected
    PROVE  SessionsInv'
<1>1. SuperOK'
    BY SessionsAssumptions DEF SessionsInv, SuperOK, InSession, ShowDisconnected, Alive,
       Event
<1>2. CountOK'
    BY SessionsAssumptions DEF SessionsInv, CountOK, SuperOK, ShowDisconnected, Alive,
       Event
<1>3. BrokersOK'
    BY SessionsAssumptions DEF SessionsInv, BrokersOK, InSession, SessionIds, SuperOK,
       ShowDisconnected, Alive, Event
<1>4. DescriptorsOK'
    BY SessionsAssumptions DEF SessionsInv, DescriptorsOK, NoLeakedDescriptor,
       SessionIds, SuperOK, BrokersOK, InSession, ShowDisconnected, Alive, Event
<1>5. OverOK'
    BY SessionsAssumptions DEF SessionsInv, OverOK, Over, Serving, SessionIds, SuperOK,
       InSession, ClientsOK, AcceptOK, BrokersOK, ShowDisconnected, Alive, Event
<1> QED
    BY Undisturbed, <1>1, <1>2, <1>3, <1>4, <1>5 DEF SessionsInv, ShowDisconnected

LEMMA ListClientsSafe ==
    ASSUME SessionsInv, Alive, ListClients
    PROVE  SessionsInv'
<1>1. SuperOK'
    BY SessionsAssumptions DEF SessionsInv, SuperOK, InSession, ListClients, Alive,
       Event
<1>2. CountOK'
    BY SessionsAssumptions DEF SessionsInv, CountOK, SuperOK, ListClients, Alive, Event
<1>3. BrokersOK'
    BY SessionsAssumptions DEF SessionsInv, BrokersOK, InSession, SessionIds, SuperOK,
       ListClients, Alive, Event
<1>4. DescriptorsOK'
    BY SessionsAssumptions DEF SessionsInv, DescriptorsOK, NoLeakedDescriptor,
       SessionIds, SuperOK, BrokersOK, InSession, ListClients, Alive, Event
<1>5. OverOK'
    BY SessionsAssumptions DEF SessionsInv, OverOK, Over, Serving, SessionIds, SuperOK,
       InSession, ClientsOK, AcceptOK, BrokersOK, ListClients, Alive, Event
<1>6. ClientsOK'
    BY SessionsAssumptions DEF SessionsInv, ClientsOK, SessionIds, SuperOK, AcceptOK,
       ListClients, Alive, Event
<1> QED
    BY Undisturbed, <1>1, <1>2, <1>3, <1>4, <1>5, <1>6 DEF SessionsInv, ListClients

LEMMA CloseNextSafe ==
    ASSUME SessionsInv, Alive, NEW c \in todo, CloseNext(c)
    PROVE  SessionsInv'
<1>1. SuperOK'
    BY SessionsAssumptions DEF SessionsInv, SuperOK, InSession, CloseNext, Unregister,
       Registered, Alive, Event
<1>2. CountOK'
    BY SessionsAssumptions DEF SessionsInv, CountOK, SuperOK, CloseNext, Unregister,
       Registered, Alive, Event
<1>3. BrokersOK'
    BY SessionsAssumptions DEF SessionsInv, BrokersOK, InSession, SessionIds, SuperOK,
       CloseNext, Unregister, Registered, Alive, Event
<1>4. DescriptorsOK'
    BY SessionsAssumptions DEF SessionsInv, DescriptorsOK, NoLeakedDescriptor,
       SessionIds, SuperOK, BrokersOK, InSession, CloseNext, Unregister, Registered,
       Alive, Event
<1>5. OverOK'
    BY SessionsAssumptions DEF SessionsInv, OverOK, Over, Serving, SessionIds, SuperOK,
       InSession, ClientsOK, AcceptOK, BrokersOK, CloseNext, Unregister, Registered,
       Alive, Event
<1>6. AcceptOK'
    BY SessionsAssumptions DEF SessionsInv, AcceptOK, SuperOK, ClientsOK, CloseNext,
       Unregister, Registered, Alive, Event
<1>7. ClientsOK'
    BY SessionsAssumptions DEF SessionsInv, ClientsOK, SessionIds, SuperOK, AcceptOK,
       CloseNext, Unregister, Registered, Alive, Event
<1> QED
    BY Undisturbed, <1>1, <1>2, <1>3, <1>4, <1>5, <1>6, <1>7 DEF SessionsInv, CloseNext

LEMMA ClosePublishSafe ==
    ASSUME SessionsInv, Alive, ClosePublish
    PROVE  SessionsInv'
<1>1. SuperOK'
    BY SessionsAssumptions DEF SessionsInv, SuperOK, InSession, ClosePublish, Alive,
       Event
<1>2. CountOK'
    BY SessionsAssumptions DEF SessionsInv, CountOK, SuperOK, ClosePublish, Alive, Event
<1>3. BrokersOK'
    BY SessionsAssumptions DEF SessionsInv, BrokersOK, InSession, SessionIds, SuperOK,
       ClosePublish, Alive, Event
<1>4. DescriptorsOK'
    BY SessionsAssumptions DEF SessionsInv, DescriptorsOK, NoLeakedDescriptor,
       SessionIds, SuperOK, BrokersOK, InSession, ClosePublish, Alive, Event
<1>5. OverOK'
    BY SessionsAssumptions DEF SessionsInv, OverOK, Over, Serving, SessionIds, SuperOK,
       InSession, ClientsOK, AcceptOK, BrokersOK, ClosePublish, Alive, Event
<1> QED
    BY Undisturbed, <1>1, <1>2, <1>3, <1>4, <1>5 DEF SessionsInv, ClosePublish

LEMMA CloseSerialSafe ==
    ASSUME SessionsInv, Alive, CloseSerial
    PROVE  SessionsInv'
<1>1. SuperOK'
    BY SessionsAssumptions DEF SessionsInv, SuperOK, InSession, CloseSerial, Alive,
       Event
<1>2. CountOK'
    BY SessionsAssumptions DEF SessionsInv, CountOK, SuperOK, CloseSerial, Alive, Event
<1>3. BrokersOK'
    BY SessionsAssumptions DEF SessionsInv, BrokersOK, InSession, SessionIds, SuperOK,
       CloseSerial, Alive, Event
<1>4. DescriptorsOK'
    BY SessionsAssumptions DEF SessionsInv, DescriptorsOK, NoLeakedDescriptor,
       SessionIds, SuperOK, BrokersOK, InSession, CloseSerial, Alive, Event
<1>5. OverOK'
    BY SessionsAssumptions DEF SessionsInv, OverOK, Over, Serving, SessionIds, SuperOK,
       InSession, ClientsOK, AcceptOK, BrokersOK, CloseSerial, Alive, Event
<1> QED
    BY Undisturbed, <1>1, <1>2, <1>3, <1>4, <1>5 DEF SessionsInv, CloseSerial

LEMMA JudgeSafe ==
    ASSUME SessionsInv, Alive, Judge
    PROVE  SessionsInv'
<1>1. SuperOK'
    BY SessionsAssumptions DEF SessionsInv, SuperOK, InSession, Judge, CountFailure,
       Return, Pause, Alive, Event
<1>2. CountOK'
    <2>1. CASE CountFailure
        BY <2>1, CountFailureCounts DEF SessionsInv, Alive, Judge
    <2>2. CASE Return("nil") /\ UNCHANGED <<rapid, outcomes>>
        BY <2>2 DEF SessionsInv, CountOK, Return, Alive
    <2>3. CASE /\ rapid' = 0 /\ outcomes' = Append(outcomes, "ok")
               /\ spc' = Pause /\ UNCHANGED err
        BY <2>3, SessionsAssumptions DEF SessionsInv, CountOK, Pause, Alive
    <2> QED
        BY <2>1, <2>2, <2>3 DEF Judge
<1>3. BrokersOK'
    BY SessionsAssumptions DEF SessionsInv, BrokersOK, InSession, SessionIds, SuperOK,
       Judge, CountFailure, Return, Pause, Alive, Event
<1>4. DescriptorsOK'
    BY SessionsAssumptions DEF SessionsInv, DescriptorsOK, NoLeakedDescriptor,
       SessionIds, SuperOK, BrokersOK, InSession, Judge, CountFailure, Return, Pause,
       Alive, Event
<1>5. OverOK'
    BY SessionsAssumptions DEF SessionsInv, OverOK, Over, Serving, SessionIds, SuperOK,
       InSession, ClientsOK, AcceptOK, BrokersOK, Judge, CountFailure, Return, Pause,
       Alive, Event
<1> QED
    BY Undisturbed, <1>1, <1>2, <1>3, <1>4, <1>5 DEF SessionsInv, Judge

LEMMA SleepEndsSafe ==
    ASSUME SessionsInv, Alive, SleepEnds
    PROVE  SessionsInv'
<1>1. SuperOK'
    BY SessionsAssumptions DEF SessionsInv, SuperOK, InSession, SleepEnds, Return,
       Alive, Event
<1>2. CountOK'
    BY SessionsAssumptions DEF SessionsInv, CountOK, SuperOK, SleepEnds, Return, Alive,
       Event
<1>3. BrokersOK'
    BY SessionsAssumptions DEF SessionsInv, BrokersOK, InSession, SessionIds, SuperOK,
       SleepEnds, Return, Alive, Event
<1>4. DescriptorsOK'
    BY SessionsAssumptions DEF SessionsInv, DescriptorsOK, NoLeakedDescriptor,
       SessionIds, SuperOK, BrokersOK, InSession, SleepEnds, Return, Alive, Event
<1>5. OverOK'
    BY SessionsAssumptions DEF SessionsInv, OverOK, Over, Serving, SessionIds, SuperOK,
       InSession, ClientsOK, AcceptOK, BrokersOK, SleepEnds, Return, Alive, Event
<1> QED
    BY Undisturbed, <1>1, <1>2, <1>3, <1>4, <1>5 DEF SessionsInv, SleepEnds

LEMMA AcceptSafe ==
    ASSUME SessionsInv, Alive, NEW c \in Conns, Accept(c)
    PROVE  SessionsInv'
<1>1. AcceptOK'
    BY SessionsAssumptions DEF SessionsInv, AcceptOK, SuperOK, ClientsOK, Accept, Alive,
       Event
<1>2. OverOK'
    BY SessionsAssumptions DEF SessionsInv, OverOK, Over, Serving, SessionIds, SuperOK,
       InSession, ClientsOK, AcceptOK, BrokersOK, Accept, Alive, Event
<1> QED
    BY Undisturbed, <1>1, <1>2 DEF SessionsInv, Accept

LEMMA AcceptStopsSafe ==
    ASSUME SessionsInv, Alive, AcceptStops
    PROVE  SessionsInv'
<1>1. AcceptOK'
    BY SessionsAssumptions DEF SessionsInv, AcceptOK, SuperOK, ClientsOK, AcceptStops,
       Alive, Event
<1>2. OverOK'
    BY SessionsAssumptions DEF SessionsInv, OverOK, Over, Serving, SessionIds, SuperOK,
       InSession, ClientsOK, AcceptOK, BrokersOK, AcceptStops, Alive, Event
<1> QED
    BY Undisturbed, <1>1, <1>2 DEF SessionsInv, AcceptStops

LEMMA PickBrokerSafe ==
    ASSUME SessionsInv, Alive, PickBroker
    PROVE  SessionsInv'
<1>1. AcceptOK'
    BY SessionsAssumptions DEF SessionsInv, AcceptOK, SuperOK, ClientsOK, PickBroker,
       Alive, Event
<1>2. ClientsOK'
    BY SessionsAssumptions DEF SessionsInv, ClientsOK, SessionIds, SuperOK, AcceptOK,
       PickBroker, Alive, Event
<1>3. OverOK'
    BY SessionsAssumptions DEF SessionsInv, OverOK, Over, Serving, SessionIds, SuperOK,
       InSession, ClientsOK, AcceptOK, BrokersOK, PickBroker, Alive, Event
<1> QED
    BY Undisturbed, <1>1, <1>2, <1>3 DEF SessionsInv, PickBroker

LEMMA AddClientSafe ==
    ASSUME SessionsInv, Alive, AddClient
    PROVE  SessionsInv'
<1>1. AcceptOK'
    BY SessionsAssumptions DEF SessionsInv, AcceptOK, SuperOK, ClientsOK, AddClient,
       Alive, Event
<1>2. ClientsOK'
    BY SessionsAssumptions DEF SessionsInv, ClientsOK, SessionIds, SuperOK, AcceptOK,
       AddClient, Alive, Event
<1>3. OverOK'
    BY SessionsAssumptions DEF SessionsInv, OverOK, Over, Serving, SessionIds, SuperOK,
       InSession, ClientsOK, AcceptOK, BrokersOK, AddClient, Alive, Event
<1> QED
    BY Undisturbed, <1>1, <1>2, <1>3 DEF SessionsInv, AddClient

LEMMA AcceptPublishSafe ==
    ASSUME SessionsInv, Alive, AcceptPublish
    PROVE  SessionsInv'
<1>1. SuperOK'
    BY SessionsAssumptions DEF SessionsInv, SuperOK, InSession, AcceptPublish, Alive,
       Event
<1>2. AcceptOK'
    BY SessionsAssumptions DEF SessionsInv, AcceptOK, SuperOK, ClientsOK, AcceptPublish,
       Alive, Event
<1>3. OverOK'
    BY SessionsAssumptions DEF SessionsInv, OverOK, Over, Serving, SessionIds, SuperOK,
       InSession, ClientsOK, AcceptOK, BrokersOK, AcceptPublish, Alive, Event
<1> QED
    BY Undisturbed, <1>1, <1>2, <1>3 DEF SessionsInv, AcceptPublish

LEMMA LeaveSafe ==
    ASSUME SessionsInv, Alive, NEW c \in Conns, Leave(c)
    PROVE  SessionsInv'
<1>1. AcceptOK'
    BY SessionsAssumptions DEF SessionsInv, AcceptOK, SuperOK, ClientsOK, Leave,
       Unregister, Registered, Alive, Event
<1>2. ClientsOK'
    BY SessionsAssumptions DEF SessionsInv, ClientsOK, SessionIds, SuperOK, AcceptOK,
       Leave, Unregister, Registered, Alive, Event
<1>3. OverOK'
    BY SessionsAssumptions DEF SessionsInv, OverOK, Over, Serving, SessionIds, SuperOK,
       InSession, ClientsOK, AcceptOK, BrokersOK, Leave, Unregister, Registered, Alive,
       Event
<1> QED
    BY Undisturbed, <1>1, <1>2, <1>3 DEF SessionsInv, Leave

LEMMA LeavePublishSafe ==
    ASSUME SessionsInv, Alive, NEW c \in Conns, LeavePublish(c)
    PROVE  SessionsInv'
<1>1. SuperOK'
    BY SessionsAssumptions DEF SessionsInv, SuperOK, InSession, LeavePublish, Alive,
       Event
<1>2. ClientsOK'
    BY SessionsAssumptions DEF SessionsInv, ClientsOK, SessionIds, SuperOK, AcceptOK,
       LeavePublish, Alive, Event
<1> QED
    BY Undisturbed, <1>1, <1>2 DEF SessionsInv, LeavePublish

LEMMA ClientPacketSafe ==
    ASSUME SessionsInv, Alive, NEW c \in Conns, ClientPacket(c)
    PROVE  SessionsInv'
<1>1. BrokersOK'
    BY SessionsAssumptions DEF SessionsInv, BrokersOK, InSession, SessionIds, SuperOK,
       ClientPacket, Alive, Event
<1>2. OverOK'
    BY SessionsAssumptions DEF SessionsInv, OverOK, Over, Serving, SessionIds, SuperOK,
       InSession, ClientsOK, AcceptOK, BrokersOK, ClientPacket, Alive, Event
<1> QED
    BY Undisturbed, <1>1, <1>2 DEF SessionsInv, ClientPacket

LEMMA ReaderStopsSafe ==
    ASSUME SessionsInv, Alive, NEW s \in SessionIds, ReaderStops(s)
    PROVE  SessionsInv'
<1>1. BrokersOK'
    BY SessionsAssumptions DEF SessionsInv, BrokersOK, InSession, SessionIds, SuperOK,
       ReaderStops, Release, Alive, Event
<1>2. DescriptorsOK'
    BY SessionsAssumptions DEF SessionsInv, DescriptorsOK, NoLeakedDescriptor,
       SessionIds, SuperOK, BrokersOK, InSession, ReaderStops, Release, Alive, Event
<1>3. AnswerOK'
    BY SessionsAssumptions DEF SessionsInv, AnswerOK, SessionIds, FetchOK, WaitOK,
       WaitersOwned, Waits, ReaderStops, Release, Alive, Event
<1> QED
    BY Undisturbed, <1>1, <1>2, <1>3 DEF SessionsInv, ReaderStops

LEMMA ReaderFailsSafe ==
    ASSUME SessionsInv, Alive, NEW s \in SessionIds, ReaderFails(s)
    PROVE  SessionsInv'
<1>1. BrokersOK'
    BY SessionsAssumptions DEF SessionsInv, BrokersOK, InSession, SessionIds, SuperOK,
       ReaderFails, Release, Alive, Event
<1>2. DescriptorsOK'
    BY SessionsAssumptions DEF SessionsInv, DescriptorsOK, NoLeakedDescriptor,
       SessionIds, SuperOK, BrokersOK, InSession, ReaderFails, Release, Alive, Event
<1>3. AnswerOK'
    BY SessionsAssumptions DEF SessionsInv, AnswerOK, SessionIds, FetchOK, WaitOK,
       WaitersOwned, Waits, ReaderFails, Release, Alive, Event
<1> QED
    BY Undisturbed, <1>1, <1>2, <1>3 DEF SessionsInv, ReaderFails

LEMMA RunEndsSafe ==
    ASSUME SessionsInv, Alive, NEW s \in SessionIds, RunEnds(s)
    PROVE  SessionsInv'
<1>1. BrokersOK'
    BY SessionsAssumptions DEF SessionsInv, BrokersOK, InSession, SessionIds, SuperOK,
       RunEnds, Alive, Event
<1>2. OverOK'
    BY SessionsAssumptions DEF SessionsInv, OverOK, Over, Serving, SessionIds, SuperOK,
       InSession, ClientsOK, AcceptOK, BrokersOK, RunEnds, Alive, Event
<1> QED
    BY Undisturbed, <1>1, <1>2 DEF SessionsInv, RunEnds

LEMMA FetchRadioSafe ==
    ASSUME SessionsInv, Alive, NEW f \in Fetches, FetchRadio(f)
    PROVE  SessionsInv'
<1>1. FetchOK'
    BY SessionsAssumptions DEF SessionsInv, FetchOK, SessionIds, SuperOK, FetchRadio,
       Answer, NilRadio, Alive, Event
<1>2. WaitOK'
    <2>1. \A s \in SessionIds : f \notin waiters[s]
        BY DEF SessionsInv, WaitOK, WaitersOwned, Waits, FetchRadio
    <2> QED
        BY <2>1 DEF SessionsInv, WaitOK, WaitersOwned, FetchOK, FetchRadio, Answer
<1>3. AnswerOK'
    BY SessionsAssumptions DEF SessionsInv, AnswerOK, SessionIds, FetchOK, WaitOK,
       WaitersOwned, Waits, FetchRadio, Answer, NilRadio, Alive, Event
<1>4. MailOK'
    BY SessionsAssumptions DEF SessionsInv, MailOK, FetchOK, AnswerOK, FetchRadio,
       Answer, NilRadio, Alive, Event
<1>5. ReplyOK'
    BY SessionsAssumptions, ListedStays DEF SessionsInv, ReplyOK, FetchOK, StoredOK,
       MailOK, FetchRadio, Answer, NilRadio, Alive, Event
<1> QED
    BY Undisturbed, <1>1, <1>2, <1>3, <1>4, <1>5 DEF SessionsInv, FetchRadio

LEMMA FetchCachedSafe ==
    ASSUME SessionsInv, Alive, NEW f \in Fetches, FetchCached(f)
    PROVE  SessionsInv'
<1>1. FetchOK'
    BY SessionsAssumptions DEF SessionsInv, FetchOK, SessionIds, SuperOK, FetchCached,
       Answer, Alive, Event
<1>2. WaitOK'
    BY SessionsAssumptions DEF SessionsInv, WaitOK, WaitersOwned, Waits, SessionIds,
       FetchOK, FetchCached, Answer, Alive, Event
<1>3. AnswerOK'
    BY SessionsAssumptions DEF SessionsInv, AnswerOK, SessionIds, FetchOK, WaitOK,
       WaitersOwned, Waits, FetchCached, Answer, Alive, Event
<1>4. StoredOK'
    BY SessionsAssumptions, ListedStays DEF SessionsInv, StoredOK, AnswerOK,
       FetchCached, Answer, Alive, Event
<1>5. ReplyOK'
    <2>1. radio[f] \in SessionIds
        BY SessionsAssumptions DEF SessionsInv, SuperOK, FetchOK, SessionIds, FetchCached
    <2>2. reply'[f] = "list" /\ reply[f] # "list" => Listed(radio[f])
        BY <2>1 DEF SessionsInv, StoredOK, FetchOK, FetchCached, Answer
    <2> QED
        BY <2>2, ListedStays DEF SessionsInv, ReplyOK, FetchOK, FetchCached, Answer
<1> QED
    BY Undisturbed, <1>1, <1>2, <1>3, <1>4, <1>5 DEF SessionsInv, FetchCached

LEMMA FetchRegisterSafe ==
    ASSUME SessionsInv, Alive, NEW f \in Fetches, FetchRegister(f)
    PROVE  SessionsInv'
<1>1. FetchOK'
    BY SessionsAssumptions DEF SessionsInv, FetchOK, SessionIds, SuperOK, FetchRegister,
       Answer, Alive, Event
<1>2. WaitOK'
    <2>1. CASE Answer(f, "error") /\ UNCHANGED waiters
        <3>1. \A s \in SessionIds : f \notin waiters[s]
            BY DEF SessionsInv, WaitOK, WaitersOwned, Waits, FetchRegister
        <3> QED
            BY <2>1, <3>1 DEF SessionsInv, WaitOK, WaitersOwned, FetchOK, FetchRegister, Answer
    <2>2. CASE /\ waiters' = [waiters EXCEPT ![radio[f]] = @ \cup {f}]
               /\ fpc' = [fpc EXCEPT ![f] = "forward"]
        <3>1. waiters' \in [SessionIds -> SUBSET Fetches]
            BY <2>2 DEF SessionsInv, WaitOK
        <3>2. \A s \in SessionIds : waiters'[s] \subseteq waiters[s] \cup {g \in {f} : radio[f] = s}
            BY <2>2 DEF SessionsInv, WaitOK
        <3> QED
            BY <2>2, <3>1, <3>2
            DEF SessionsInv, WaitOK, WaitersOwned, Waits, FetchOK, FetchRegister
    <2> QED
        BY <2>1, <2>2 DEF FetchRegister
<1>3. AnswerOK'
    BY SessionsAssumptions DEF SessionsInv, AnswerOK, SessionIds, FetchOK, WaitOK,
       WaitersOwned, Waits, FetchRegister, Answer, Alive, Event
<1>4. ReplyOK'
    BY SessionsAssumptions, ListedStays DEF SessionsInv, ReplyOK, FetchOK, StoredOK,
       MailOK, FetchRegister, Answer, Alive, Event
<1> QED
    BY Undisturbed, <1>1, <1>2, <1>3, <1>4 DEF SessionsInv, FetchRegister

LEMMA FetchForwardSafe ==
    ASSUME SessionsInv, Alive, NEW f \in Fetches, FetchForward(f)
    PROVE  SessionsInv'
<1>1. FetchOK'
    BY SessionsAssumptions DEF SessionsInv, FetchOK, SessionIds, SuperOK, FetchForward,
       GiveBack, Alive, Event
<1>2. WaitOK'
    <2>1. \A g \in Fetches : fpc[g] \in Waits => fpc'[g] \in Waits
        BY DEF SessionsInv, FetchOK, Waits, FetchForward, GiveBack
    <2> QED
        BY <2>1 DEF SessionsInv, WaitOK, WaitersOwned, FetchForward
<1>3. AnswerOK'
    BY SessionsAssumptions DEF SessionsInv, AnswerOK, SessionIds, FetchOK, WaitOK,
       WaitersOwned, Waits, FetchForward, GiveBack, Alive, Event
<1>4. ReplyOK'
    BY SessionsAssumptions, ListedStays DEF SessionsInv, ReplyOK, FetchOK, StoredOK,
       MailOK, FetchForward, GiveBack, Alive, Event
<1> QED
    BY Undisturbed, <1>1, <1>2, <1>3, <1>4 DEF SessionsInv, FetchForward

LEMMA FetchAnsweredSafe ==
    ASSUME SessionsInv, Alive, NEW f \in Fetches, FetchAnswered(f)
    PROVE  SessionsInv'
<1>1. FetchOK'
    BY SessionsAssumptions DEF SessionsInv, FetchOK, SessionIds, SuperOK, FetchAnswered,
       GiveBack, Alive, Event
<1>2. WaitOK'
    BY SessionsAssumptions DEF SessionsInv, WaitOK, WaitersOwned, Waits, SessionIds,
       FetchOK, FetchAnswered, GiveBack, Alive, Event
<1>3. AnswerOK'
    BY SessionsAssumptions DEF SessionsInv, AnswerOK, SessionIds, FetchOK, WaitOK,
       WaitersOwned, Waits, FetchAnswered, GiveBack, Alive, Event
<1>4. ReplyOK'
    <2>1. reply'[f] = "list" => Listed(radio[f])
        BY DEF SessionsInv, MailOK, FetchOK, FetchAnswered, GiveBack, Listed
    <2> QED
        BY <2>1, ListedStays DEF SessionsInv, ReplyOK, FetchOK, FetchAnswered, GiveBack
<1> QED
    BY Undisturbed, <1>1, <1>2, <1>3, <1>4 DEF SessionsInv, FetchAnswered

LEMMA FetchTimeoutSafe ==
    ASSUME SessionsInv, Alive, NEW f \in Fetches, FetchTimeout(f)
    PROVE  SessionsInv'
<1>1. FetchOK'
    BY SessionsAssumptions DEF SessionsInv, FetchOK, SessionIds, SuperOK, FetchTimeout,
       GiveBack, Alive, Event
<1>2. WaitOK'
    BY SessionsAssumptions DEF SessionsInv, WaitOK, WaitersOwned, Waits, SessionIds,
       FetchOK, FetchTimeout, GiveBack, Alive, Event
<1>3. AnswerOK'
    BY SessionsAssumptions DEF SessionsInv, AnswerOK, SessionIds, FetchOK, WaitOK,
       WaitersOwned, Waits, FetchTimeout, GiveBack, Alive, Event
<1>4. ReplyOK'
    BY SessionsAssumptions, ListedStays DEF SessionsInv, ReplyOK, FetchOK, StoredOK,
       MailOK, FetchTimeout, GiveBack, Alive, Event
<1> QED
    BY Undisturbed, <1>1, <1>2, <1>3, <1>4 DEF SessionsInv, FetchTimeout

LEMMA UnregisterWaitSafe ==
    ASSUME SessionsInv, Alive, NEW f \in Fetches, UnregisterWait(f)
    PROVE  SessionsInv'
<1>1. FetchOK'
    BY SessionsAssumptions DEF SessionsInv, FetchOK, SessionIds, SuperOK,
       UnregisterWait, Alive, Event
<1>2. WaitOK'
    <2>1. radio[f] \in SessionIds
        BY SessionsAssumptions DEF SessionsInv, SuperOK, FetchOK, SessionIds, UnregisterWait
    <2>2. \A s \in SessionIds : waiters'[s] = IF s = radio[f] THEN waiters[s] \ {f} ELSE waiters[s]
        BY <2>1 DEF SessionsInv, WaitOK, UnregisterWait
    <2>3. waiters' \in [SessionIds -> SUBSET Fetches]
        BY <2>1 DEF SessionsInv, WaitOK, UnregisterWait
    <2>4. \A s \in SessionIds : \A g \in waiters'[s] : g \in waiters[s] /\ g # f
        BY <2>2, <2>3 DEF SessionsInv, WaitOK, WaitersOwned
    <2> QED
        BY <2>3, <2>4 DEF SessionsInv, WaitOK, WaitersOwned, FetchOK, UnregisterWait
<1>3. AnswerOK'
    BY SessionsAssumptions DEF SessionsInv, AnswerOK, SessionIds, FetchOK, WaitOK,
       WaitersOwned, Waits, UnregisterWait, Alive, Event
<1> QED
    BY Undisturbed, <1>1, <1>2, <1>3 DEF SessionsInv, UnregisterWait

LEMMA RadioAnswersSafe ==
    ASSUME SessionsInv, Alive, NEW s \in SessionIds, NEW f \in Fetches, NEW kind \in
       {"list", "empty"}, RadioAnswers(s, f, kind)
    PROVE  SessionsInv'
<1>1. BrokersOK'
    BY SessionsAssumptions DEF SessionsInv, BrokersOK, InSession, SessionIds, SuperOK,
       RadioAnswers, Alive, Event
<1>2. DescriptorsOK'
    BY SessionsAssumptions DEF SessionsInv, DescriptorsOK, NoLeakedDescriptor,
       SessionIds, SuperOK, BrokersOK, InSession, RadioAnswers, Alive, Event
<1>3. AnswerOK'
    BY SessionsAssumptions DEF SessionsInv, AnswerOK, SessionIds, FetchOK, WaitOK,
       WaitersOwned, Waits, RadioAnswers, Alive, Event
<1>4. StoredOK'
    BY SessionsAssumptions, ListedStays DEF SessionsInv, StoredOK, AnswerOK,
       RadioAnswers, Alive, Event
<1>5. MailOK'
    BY SessionsAssumptions DEF SessionsInv, MailOK, FetchOK, AnswerOK, RadioAnswers,
       Alive, Event
<1>6. ReplyOK'
    BY SessionsAssumptions, ListedStays DEF SessionsInv, ReplyOK, FetchOK, StoredOK,
       MailOK, RadioAnswers, Alive, Event
<1> QED
    BY Undisturbed, <1>1, <1>2, <1>3, <1>4, <1>5, <1>6 DEF SessionsInv, RadioAnswers

LEMMA LookupWaiterSafe ==
    ASSUME SessionsInv, Alive, NEW s \in SessionIds, LookupWaiter(s)
    PROVE  SessionsInv'
<1>1. BrokersOK'
    BY SessionsAssumptions DEF SessionsInv, BrokersOK, InSession, SessionIds, SuperOK,
       LookupWaiter, Waiting, Alive, Event
<1>2. DescriptorsOK'
    BY SessionsAssumptions DEF SessionsInv, DescriptorsOK, NoLeakedDescriptor,
       SessionIds, SuperOK, BrokersOK, InSession, LookupWaiter, Waiting, Alive, Event
<1>3. AnswerOK'
    <2>1. CASE rpc' = [rpc EXCEPT ![s] = "read"] /\ UNCHANGED answer
        BY <2>1 DEF SessionsInv, AnswerOK, BrokersOK, LookupWaiter
    <2>2. ASSUME NEW f \in Waiting(s), answer' = [answer EXCEPT ![s].id = f],
                 rpc' = [rpc EXCEPT ![s] = "deliver"]
          PROVE  AnswerOK'
        <3>1. f = answer[s].id /\ f \in Fetches /\ radio[f] = s /\ fpc[f] # "idle"
            BY <2>2 DEF SessionsInv, WaitOK, WaitersOwned, Waits, Waiting
        <3>2. answer' = answer
            BY <2>2, <3>1 DEF SessionsInv, AnswerOK
        <3> QED
            BY <2>2, <3>1, <3>2 DEF SessionsInv, AnswerOK, BrokersOK, LookupWaiter
    <2> QED
        BY <2>1, <2>2 DEF LookupWaiter
<1> QED
    BY Undisturbed, <1>1, <1>2, <1>3 DEF SessionsInv, LookupWaiter

LEMMA DeliverCannedSafe ==
    ASSUME SessionsInv, Alive, NEW s \in SessionIds, DeliverCanned(s)
    PROVE  SessionsInv'
<1>1. BrokersOK'
    BY SessionsAssumptions DEF SessionsInv, BrokersOK, InSession, SessionIds, SuperOK,
       DeliverCanned, Alive, Event
<1>2. DescriptorsOK'
    BY SessionsAssumptions DEF SessionsInv, DescriptorsOK, NoLeakedDescriptor,
       SessionIds, SuperOK, BrokersOK, InSession, DeliverCanned, Alive, Event
<1>3. FetchOK'
    <2>1. answer[s].id \in Fetches /\ answer[s].kind \in {"list", "empty"}
            /\ fpc[answer[s].id] # "idle"
        BY DEF SessionsInv, AnswerOK, DeliverCanned
    <2> QED
        BY <2>1 DEF SessionsInv, FetchOK, DeliverCanned
<1>4. AnswerOK'
    BY SessionsAssumptions DEF SessionsInv, AnswerOK, SessionIds, FetchOK, WaitOK,
       WaitersOwned, Waits, DeliverCanned, Alive, Event
<1>5. MailOK'
    BY SessionsAssumptions DEF SessionsInv, MailOK, FetchOK, AnswerOK, DeliverCanned,
       Alive, Event
<1> QED
    BY Undisturbed, <1>1, <1>2, <1>3, <1>4, <1>5 DEF SessionsInv, DeliverCanned

LEMMA StoreCannedSafe ==
    ASSUME SessionsInv, Alive, NEW s \in SessionIds, StoreCanned(s)
    PROVE  SessionsInv'
<1>1. BrokersOK'
    BY SessionsAssumptions DEF SessionsInv, BrokersOK, InSession, SessionIds, SuperOK,
       StoreCanned, Alive, Event
<1>2. DescriptorsOK'
    BY SessionsAssumptions DEF SessionsInv, DescriptorsOK, NoLeakedDescriptor,
       SessionIds, SuperOK, BrokersOK, InSession, StoreCanned, Alive, Event
<1>3. AnswerOK'
    BY SessionsAssumptions DEF SessionsInv, AnswerOK, SessionIds, FetchOK, WaitOK,
       WaitersOwned, Waits, StoreCanned, Alive, Event
<1>4. StoredOK'
    <2>1. canned'[s] # "none" => Listed(s)
        BY DEF SessionsInv, StoredOK, AnswerOK, StoreCanned, Listed
    <2> QED
        BY <2>1, ListedStays DEF SessionsInv, StoredOK, StoreCanned
<1> QED
    BY Undisturbed, <1>1, <1>2, <1>3, <1>4 DEF SessionsInv, StoreCanned

LEMMA CacheAgesSafe ==
    ASSUME SessionsInv, Alive, NEW s \in SessionIds, CacheAges(s)
    PROVE  SessionsInv'
<1>1. StoredOK'
    BY SessionsAssumptions, ListedStays DEF SessionsInv, StoredOK, AnswerOK, CacheAges,
       Alive, Event
<1> QED
    BY Undisturbed, <1>1 DEF SessionsInv, CacheAges

LEMMA UnplugSafe ==
    ASSUME SessionsInv, Alive, Unplug
    PROVE  SessionsInv'
<1>1. BrokersOK'
    BY SessionsAssumptions DEF SessionsInv, BrokersOK, InSession, SessionIds, SuperOK,
       Unplug, Alive, Event
<1>2. DescriptorsOK'
    BY SessionsAssumptions DEF SessionsInv, DescriptorsOK, NoLeakedDescriptor,
       SessionIds, SuperOK, BrokersOK, InSession, Unplug, Alive, Event
<1> QED
    BY Undisturbed, <1>1, <1>2 DEF SessionsInv, Unplug

LEMMA PlugSafe ==
    ASSUME SessionsInv, Alive, Plug
    PROVE  SessionsInv'
BY Undisturbed DEF SessionsInv, Plug

LEMMA CancelSafe ==
    ASSUME SessionsInv, Alive, Cancel
    PROVE  SessionsInv'
<1>1. OverOK'
    BY SessionsAssumptions DEF SessionsInv, OverOK, Over, Serving, SessionIds, SuperOK,
       InSession, ClientsOK, AcceptOK, BrokersOK, Cancel, Alive, Event
<1> QED
    BY Undisturbed, <1>1 DEF SessionsInv, Cancel

-----------------------------------------------------------------------------
(* The invariant, and the properties that follow from it *)

LEMMA InitSafe == Init => SessionsInv
<1> SUFFICES ASSUME Init PROVE SessionsInv
    OBVIOUS
<1>a. provider \in BOOLEAN /\ shown \in BOOLEAN /\ acceptErr \in BOOLEAN /\ ~acceptErr
    BY Zenon DEF Init
<1>b. SuperOK
    BY <1>a, SessionsAssumptions DEF Init, SuperOK, InSession
<1>c. CountOK
    BY SessionsAssumptions DEF Init, CountOK
<1>d. AcceptOK
    BY <1>a DEF Init, AcceptOK
<1>1. SuperOK /\ CountOK /\ AcceptOK
    BY <1>b, <1>c, <1>d
<1>2. ClientsOK /\ BrokersOK /\ DescriptorsOK
    BY DEF Init, ClientsOK, BrokersOK, DescriptorsOK, NoLeakedDescriptor
<1>3. FetchOK /\ WaitOK /\ AnswerOK
    BY DEF Init, FetchOK, WaitOK, WaitersOwned, AnswerOK
<1>4. StoredOK /\ MailOK /\ ReplyOK
    BY DEF Init, StoredOK, MailOK, ReplyOK
<1>5. OverOK
    BY DEF Init, OverOK, Over, SessionIds
<1> QED
    BY <1>1, <1>2, <1>3, <1>4, <1>5 DEF SessionsInv

LEMMA NextSafe == SessionsInv /\ [Next]_vars => SessionsInv'
<1> SUFFICES ASSUME SessionsInv, [Next]_vars PROVE SessionsInv'
    OBVIOUS
<1>1. CASE Alive /\ Supervise
    BY <1>1, DeviceFoundSafe, DeviceAbandonedSafe, OpenFailsSafe, OpenDeviceSafe,
       SetupFailsSafe, OpenWorksSafe, AnnounceSafe, InstallSafe, SessionEndsSafe,
       UnsetCurrentSafe, ShowDisconnectedSafe, ListClientsSafe, CloseNextSafe,
       ClosePublishSafe, CloseSerialSafe, JudgeSafe, SleepEndsSafe
    DEF Supervise
<1>2. CASE Alive /\ (AddConn \/ AcceptStops)
    BY <1>2, PickBrokerSafe, AddClientSafe, AcceptPublishSafe, AcceptStopsSafe DEF AddConn
<1>3. ASSUME Alive, NEW c \in Conns, Accept(c) \/ Client(c) \/ ClientGone(c) \/ ClientPacket(c)
      PROVE  SessionsInv'
    BY <1>3, AcceptSafe, LeaveSafe, LeavePublishSafe, ClientPacketSafe
    DEF Client, ClientStops, ClientGone
<1>4. ASSUME Alive, NEW s \in SessionIds,
             \/ ReaderStops(s) \/ ReaderFails(s) \/ RunEnds(s) \/ Deliver(s) \/ CacheAges(s)
             \/ \E f \in Fetches, kind \in {"list", "empty"} : RadioAnswers(s, f, kind)
      PROVE  SessionsInv'
    BY <1>4, ReaderStopsSafe, ReaderFailsSafe, RunEndsSafe, LookupWaiterSafe,
       DeliverCannedSafe, StoreCannedSafe, CacheAgesSafe, RadioAnswersSafe
    DEF Deliver
<1>5. ASSUME Alive, NEW f \in Fetches, FetchRadio(f) \/ Fetch(f)
      PROVE  SessionsInv'
    BY <1>5, FetchRadioSafe, FetchCachedSafe, FetchRegisterSafe, FetchForwardSafe,
       FetchAnsweredSafe, FetchTimeoutSafe, UnregisterWaitSafe
    DEF Fetch
<1>6. CASE Alive /\ (Unplug \/ Plug \/ Cancel)
    BY <1>6, UnplugSafe, PlugSafe, CancelSafe
<1>7. CASE UNCHANGED vars
    BY <1>7, Undisturbed DEF vars, SessionsInv
<1> QED
    BY <1>1, <1>2, <1>3, <1>4, <1>5, <1>6, <1>7 DEF Next

LEMMA Invariance == Spec => []SessionsInv
BY InitSafe, NextSafe, PTL DEF Spec

\* The supervisor, the accept loop and the handlers only index sessions that were
\* opened, for any number of sessions and connections.
THEOREM SessionsTypeCorrect == Spec => []SessionsTypeOK
<1>1. SessionsInv => SessionsTypeOK
    BY SessionsAssumptions
    DEF SessionsInv, SuperOK, CountOK, AcceptOK, ClientsOK, BrokersOK, DescriptorsOK, FetchOK,
        WaitOK, StoredOK, SessionsTypeOK
<1> QED
    BY <1>1, Invariance, PTL

\* The web UI never shows a disconnected radio while the provider hands one out.
THEOREM ShownCorrect == Spec => []ShownWhileInstalled
<1>1. SessionsInv => ShownWhileInstalled
    BY DEF SessionsInv, SuperOK, ShownWhileInstalled
<1> QED
    BY <1>1, Invariance, PTL

\* Run gives up exactly after maxRapidFails failures in a row, whatever the limit is.
THEOREM GivesUpCorrect == Spec => []GivesUpInTime
<1>1. SessionsInv => GivesUpInTime
    <2> SUFFICES ASSUME CountOK PROVE GivesUpInTime
        BY DEF SessionsInv
    <2>1. ASSUME err = "toomany" PROVE LastFailed(MaxRapidFails)
        BY <2>1, SessionsAssumptions DEF CountOK, LastFailed
    <2>2. ASSUME err # "toomany", LastFailed(MaxRapidFails) PROVE FALSE
        <3>1. rapid + 1 \in 1..MaxRapidFails /\ rapid < Len(outcomes)
            BY <2>2, SessionsAssumptions DEF CountOK, LastFailed
        <3>2. Len(outcomes) + 1 - (rapid + 1) = Len(outcomes) - rapid
            BY DEF CountOK
        <3> QED
            BY <2>2, <3>1, <3>2 DEF CountOK, LastFailed
    <2> QED
        BY <2>1, <2>2 DEF GivesUpInTime
<1> QED
    BY <1>1, Invariance, PTL

\* No waiter for canned messages outlives the handler that has to unregister it.
THEOREM WaitersCorrect == Spec => []WaitersOwned
<1>1. SessionsInv => WaitersOwned
    BY DEF SessionsInv, WaitOK
<1> QED
    BY <1>1, Invariance, PTL

\* A page is only ever given a list that the radio sent in the session it asked.
THEOREM CannedCorrect == Spec => []CannedAnswerReal
<1>1. SessionsInv => CannedAnswerReal
    BY DEF SessionsInv, MailOK, ReplyOK, Listed, CannedAnswerReal
<1> QED
    BY <1>1, Invariance, PTL

\* No number of failed attempts and ended sessions leaves a descriptor behind.
THEOREM DescriptorsCorrect == Spec => []NoLeakedDescriptor
<1>1. SessionsInv => NoLeakedDescriptor
    BY DEF SessionsInv, DescriptorsOK
<1> QED
    BY <1>1, Invariance, PTL

\* Whoever was added to a session that is over is closed or still bound to be.
THEOREM StraysCorrect == Spec => []NoStrayClient
<1>1. SessionsInv => NoStrayClient
    BY DEF SessionsInv, OverOK, ClientsOK, NoStrayClient
<1> QED
    BY <1>1, Invariance, PTL

-----------------------------------------------------------------------------
(* Every session implements Session *)

LEMMA Quiet ==
    ASSUME NEW s \in SessionIds,
           UNCHANGED <<members, home, shut, done, rpc, runErr, link, cancelled>>
    PROVE  UNCHANGED S(s)!vars
BY DEF S!vars, Reader

\* removeClient, whoever calls it: the client leaves its own session and is closed.
LEMMA RemovalSteps ==
    ASSUME SessionsInv, NEW s \in SessionIds, NEW c \in Conns, home[c] # 0, Unregister(c),
           shut' = shut \cup {c}, UNCHANGED <<home, done, rpc, runErr, link, cancelled>>
    PROVE  [S(s)!Next]_(S(s)!vars)
<1>1. home[c] \in SessionIds
    BY SessionsAssumptions DEF SessionsInv, SuperOK, ClientsOK, SessionIds
<1>2. CASE s # home[c]
    <2>1. members'[s] = members[s]
        BY <1>2 DEF SessionsInv, ClientsOK, Unregister
    <2>2. {d \in shut : home[d] = s}' = {d \in shut : home[d] = s}
        BY <1>2
    <2> QED
        BY <2>1, <2>2 DEF S!vars, Reader
<1>3. CASE s = home[c]
    <2>1. members'[s] = members[s] \ {c} /\ members[s] \subseteq Conns
        BY <1>1, <1>3 DEF SessionsInv, ClientsOK, Unregister
    <2>2. {d \in shut : home[d] = s}' = {d \in shut : home[d] = s} \cup {c}
        BY <1>3
    <2>3. \A d \in members[s] : d \notin shut
        BY SessionsAssumptions DEF SessionsInv, ClientsOK, SessionIds
    <2>4. S(s)!Remove
        BY <2>1, <2>2, <2>3 DEF S!Remove, Reader
    <2> QED
        BY <2>4 DEF S!Next
<1> QED
    BY <1>2, <1>3

\* Steps of the supervisor that a session sees: the device is opened or closed,
\* readSerial is started, CloseAll removes a client.
LEMMA SupervisorSteps ==
    ASSUME SessionsInv, NEW s \in SessionIds,
           OpenWorks \/ Install \/ CloseSerial \/ \E c \in todo : CloseNext(c)
    PROVE  [S(s)!Next]_(S(s)!vars)
<1>1. CASE OpenWorks
    <2>1. rpc[opened + 1] = "off"
        BY SessionsAssumptions, <1>1
        DEF SessionsInv, SuperOK, BrokersOK, SessionIds, OpenWorks
    <2>2. CASE s # opened + 1
        <3>1. link'[s] = link[s]
            BY <1>1, <2>2 DEF SessionsInv, BrokersOK, OpenWorks
        <3> QED
            BY <1>1, <3>1 DEF OpenWorks, S!vars, Reader
    <2>3. CASE s = opened + 1
        <3>1. S(s)!Environment
            BY <1>1, <2>1, <2>3 DEF OpenWorks, S!Environment, Reader
        <3> QED
            BY <3>1 DEF S!Next
    <2> QED
        BY <2>2, <2>3
<1>2. CASE Install
    <2>1. rpc[opened] = "off" /\ opened \in SessionIds
        BY SessionsAssumptions, <1>2
        DEF SessionsInv, SuperOK, BrokersOK, InSession, SessionIds, Install
    <2>2. CASE s # opened
        <3>1. rpc'[s] = rpc[s]
            BY <1>2, <2>2 DEF SessionsInv, BrokersOK, Install
        <3> QED
            BY <1>2, <3>1 DEF Install, S!vars, Reader
    <2>3. CASE s = opened
        <3>1. rpc'[s] = "read"
            BY <1>2, <2>1, <2>3 DEF SessionsInv, BrokersOK, Install
        <3>2. S(s)!Start
            BY <1>2, <2>1, <2>3, <3>1 DEF Install, S!Start, Reader
        <3> QED
            BY <3>2 DEF S!Next
    <2> QED
        BY <2>2, <2>3
<1>3. CASE CloseSerial
    <2>1. link'[s] = link[s] \/ link'[s] = "closed"
        BY <1>3 DEF SessionsInv, BrokersOK, CloseSerial
    <2>2. CASE link'[s] = link[s]
        BY <1>3, <2>2 DEF CloseSerial, S!vars, Reader
    <2>3. CASE link'[s] = "closed"
        <3>1. S(s)!Environment
            BY <1>3, <2>3 DEF CloseSerial, S!Environment, Reader
        <3> QED
            BY <3>1 DEF S!Next
    <2> QED
        BY <2>1, <2>2, <2>3
<1>4. ASSUME NEW c \in todo, CloseNext(c) PROVE [S(s)!Next]_(S(s)!vars)
    BY <1>4, RemovalSteps DEF SessionsInv, ClientsOK, CloseNext, SuperOK, InSession
<1> QED
    BY <1>1, <1>2, <1>3, <1>4

\* Steps of the accept loop and of a client's goroutines.
LEMMA ClientSteps ==
    ASSUME SessionsInv, NEW s \in SessionIds,
           PickBroker \/ AddClient \/ \E c \in Conns : Leave(c) \/ ClientPacket(c)
    PROVE  [S(s)!Next]_(S(s)!vars)
<1>1. CASE PickBroker
    <2>1. {d \in shut : home[d] = s}' = {d \in shut : home[d] = s}
        BY <1>1 DEF SessionsInv, AcceptOK, PickBroker, SessionIds
    <2> QED
        BY <1>1, <2>1 DEF PickBroker, S!vars, Reader
<1>2. CASE AddClient
    <2>1. conn \in Conns /\ home[conn] = 0 /\ conn \notin shut
        BY <1>2 DEF SessionsInv, AcceptOK, AddClient
    <2>2. {d \in shut : home[d] = s}' = {d \in shut : home[d] = s}
        BY <1>2, <2>1 DEF SessionsInv, ClientsOK, AddClient
    <2>3. CASE s # active
        <3>1. members'[s] = members[s]
            BY <1>2, <2>3 DEF SessionsInv, ClientsOK, AddClient
        <3> QED
            BY <1>2, <2>2, <3>1 DEF AddClient, S!vars, Reader
    <2>4. CASE s = active
        <3>1. members'[s] = members[s] \cup {conn} /\ conn \notin members[s]
            BY <1>2, <2>1, <2>4 DEF SessionsInv, ClientsOK, AddClient, SessionIds
        <3>2. S(s)!Join(conn)
            BY <1>2, <2>1, <2>2, <3>1 DEF AddClient, S!Join, Reader
        <3> QED
            BY <2>1, <3>2 DEF S!Next
    <2> QED
        BY <2>3, <2>4
<1>3. ASSUME NEW c \in Conns, Leave(c) PROVE [S(s)!Next]_(S(s)!vars)
    BY <1>3, RemovalSteps DEF SessionsInv, ClientsOK, Leave
<1>4. ASSUME NEW c \in Conns, ClientPacket(c) PROVE [S(s)!Next]_(S(s)!vars)
    <2>1. done'[s] = done[s] \/ (done'[s] = TRUE /\ link[s] # "up")
        <3>1. done \in [SessionIds -> BOOLEAN]
            BY DEF SessionsInv, BrokersOK
        <3>2. CASE s # home[c]
            BY <1>4, <3>1, <3>2, Zenon DEF ClientPacket
        <3>3. CASE s = home[c]
            <4>1. done'[s] = (done[s] \/ (~NilRadio /\ link[s] # "up"))
                BY <1>4, <3>1, <3>3, Zenon DEF ClientPacket
            <4>2. done[s] \in BOOLEAN
                BY <3>1
            <4> QED
                BY <4>1, <4>2, Zenon
        <3> QED
            BY <3>2, <3>3
    <2>2. CASE done'[s] = done[s]
        BY <1>4, <2>2 DEF ClientPacket, S!vars, Reader
    <2>3. CASE done'[s] = TRUE /\ link[s] # "up"
        <3>1. S(s)!WriteFails
            BY <1>4, <2>3 DEF ClientPacket, S!WriteFails, Reader
        <3> QED
            BY <3>1 DEF S!Next
    <2> QED
        BY <2>1, <2>2, <2>3
<1> QED
    BY <1>1, <1>2, <1>3, <1>4

\* Steps of Run and of readSerial, of session s itself or of another one.
LEMMA SerialSteps ==
    ASSUME SessionsInv, NEW s \in SessionIds, NEW u \in SessionIds,
           \/ ReaderStops(u) \/ ReaderFails(u) \/ RunEnds(u) \/ Deliver(u)
           \/ \E f \in Fetches, kind \in {"list", "empty"} : RadioAnswers(u, f, kind)
    PROVE  [S(s)!Next]_(S(s)!vars)
<1>1. CASE ReaderStops(u) \/ ReaderFails(u)
    <2>1. CASE s # u
        <3>1. rpc'[s] = rpc[s]
            BY <1>1, <2>1 DEF SessionsInv, BrokersOK, ReaderStops, ReaderFails
        <3> QED
            BY <1>1, <3>1 DEF ReaderStops, ReaderFails, S!vars, Reader
    <2>2. CASE s = u
        <3>1. /\ rpc[s] = "read"
              /\ \/ done[s] /\ rpc'[s] = "stopped"
                 \/ link[s] # "up" /\ rpc'[s] = "posted"
            BY <1>1, <2>2 DEF SessionsInv, BrokersOK, ReaderStops, ReaderFails
        <3>2. S(s)!ReaderEnds
            BY <1>1, <3>1 DEF ReaderStops, ReaderFails, S!ReaderEnds, Reader
        <3> QED
            BY <3>2 DEF S!Next
    <2> QED
        BY <2>1, <2>2
<1>2. CASE RunEnds(u)
    <2>1. CASE s # u
        <3>1. done'[s] = done[s] /\ runErr'[s] = runErr[s]
            BY <1>2, <2>1 DEF SessionsInv, BrokersOK, RunEnds
        <3> QED
            BY <1>2, <3>1 DEF RunEnds, S!vars, Reader
    <2>2. CASE s = u
        <3>1. /\ runErr[s] = "none" /\ runErr'[s] # "none" /\ done'[s] = TRUE
              /\ cancelled \/ rpc[s] = "posted"
            BY <1>2, <2>2 DEF SessionsInv, BrokersOK, RunEnds
        <3>2. S(s)!Return
            BY <1>2, <3>1 DEF RunEnds, S!Return, Reader
        <3> QED
            BY <3>2 DEF S!Next
    <2> QED
        BY <2>1, <2>2
<1>3. CASE \/ Deliver(u)
           \/ \E f \in Fetches, kind \in {"list", "empty"} : RadioAnswers(u, f, kind)
    <2>1. Reader(s)' = Reader(s)
        BY <1>3 DEF SessionsInv, BrokersOK, Deliver, LookupWaiter, DeliverCanned, StoreCanned,
           RadioAnswers, Reader
    <2> QED
        BY <1>3, <2>1 DEF Deliver, LookupWaiter, DeliverCanned, StoreCanned, RadioAnswers, S!vars
<1> QED
    BY <1>1, <1>2, <1>3

LEMMA EnvironmentSteps ==
    ASSUME SessionsInv, NEW s \in SessionIds, Unplug \/ Plug \/ Cancel
    PROVE  [S(s)!Next]_(S(s)!vars)
<1>1. CASE Unplug
    <2>1. link'[s] = link[s] \/ link'[s] = "lost"
        BY <1>1 DEF Unplug
    <2>2. CASE link'[s] = link[s]
        BY <1>1, <2>2 DEF Unplug, S!vars, Reader
    <2>3. CASE link'[s] = "lost"
        <3>1. S(s)!Environment
            BY <1>1, <2>3 DEF Unplug, S!Environment, Reader
        <3> QED
            BY <3>1 DEF S!Next
    <2> QED
        BY <2>1, <2>2, <2>3
<1>2. CASE Plug
    BY <1>2, Quiet DEF Plug
<1>3. CASE Cancel
    <2>1. S(s)!Environment
        BY <1>3 DEF Cancel, S!Environment, Reader
    <2> QED
        BY <2>1 DEF S!Next
<1> QED
    BY <1>1, <1>2, <1>3

LEMMA SessionSteps ==
    ASSUME SessionsInv, [Next]_vars, NEW s \in SessionIds
    PROVE  [S(s)!Next]_(S(s)!vars)
<1>1. CASE Supervise
    <2>1. CASE \/ DeviceFound \/ DeviceAbandoned \/ OpenFails \/ OpenDevice \/ SetupFails
               \/ Announce \/ SessionEnds \/ UnsetCurrent \/ ShowDisconnected \/ ListClients
               \/ ClosePublish \/ Judge \/ SleepEnds
        BY <2>1, Quiet
        DEF DeviceFound, DeviceAbandoned, OpenFails, OpenDevice, SetupFails, Announce,
            SessionEnds, UnsetCurrent, ShowDisconnected, ListClients, ClosePublish, Judge,
            SleepEnds
    <2> QED
        BY <1>1, <2>1, SupervisorSteps DEF Supervise
<1>2. CASE AddConn \/ AcceptStops
    BY <1>2, ClientSteps, Quiet DEF AddConn, AcceptPublish, AcceptStops
<1>3. ASSUME NEW c \in Conns, Accept(c) \/ Client(c) \/ ClientGone(c) \/ ClientPacket(c)
      PROVE  [S(s)!Next]_(S(s)!vars)
    BY <1>3, ClientSteps, Quiet
    DEF Accept, Client, ClientStops, ClientGone, LeavePublish
<1>4. ASSUME NEW u \in SessionIds,
             \/ ReaderStops(u) \/ ReaderFails(u) \/ RunEnds(u) \/ Deliver(u) \/ CacheAges(u)
             \/ \E f \in Fetches, kind \in {"list", "empty"} : RadioAnswers(u, f, kind)
      PROVE  [S(s)!Next]_(S(s)!vars)
    BY <1>4, SerialSteps, Quiet DEF CacheAges
<1>5. ASSUME NEW f \in Fetches, FetchRadio(f) \/ Fetch(f)
      PROVE  [S(s)!Next]_(S(s)!vars)
    BY <1>5, Quiet
    DEF Fetch, FetchRadio, FetchCached, FetchRegister, FetchForward, FetchAnswered,
        FetchTimeout, UnregisterWait
<1>6. CASE Unplug \/ Plug \/ Cancel
    BY <1>6, EnvironmentSteps
<1>7. CASE UNCHANGED vars
    BY <1>7, Quiet DEF vars
<1> QED
    BY <1>1, <1>2, <1>3, <1>4, <1>5, <1>6, <1>7 DEF Next

\* Every session of the supervisor, present or past, keeps the contract of module
\* Session, which module Broker implements too.
THEOREM SessionsRefine == Spec => EachSession
<1>1. Init => \A s \in SessionIds : S(s)!Init
    BY DEF Init, S!Init, Reader
<1>2. SessionsInv /\ [Next]_vars => [\A s \in SessionIds : [S(s)!Next]_(S(s)!vars)]_vars
    BY SessionSteps
<1> QED
    BY <1>1, <1>2, Invariance, PTL DEF Spec, EachSession
=============================================================================
