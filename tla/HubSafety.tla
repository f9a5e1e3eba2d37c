----------------------------- MODULE HubSafety -----------------------------
(***************************************************************************)
(* The safety properties of Hub, for any number of goroutines, pages and   *)
(* messages and every size of the logs, the window of the duplicate check, *)
(* the cache and the channels.  The properties relate what was logged to   *)
(* what goroutines still carry between two lock sections, so they rest on  *)
(* one invariant, HubInv, that says what a goroutine knows at each step.   *)
(***************************************************************************)
EXTENDS Hub, FiniteSetTheorems, SequenceTheorems, TLAPS

Values == Nat \cup Chats
Labels == {"idle", "node", "notifynodes", "nodesubs", "proto", "check", "append", "notifychat",
           "record", "send", "finish"}
Roles  == {"broker", "http", "direct"}
Stages == {"snapshot", "subscribe", "read", "delete", "close"}

\* The logs and the cache are within their limits.
LogOK ==
    /\ events \in Seq(Nat) /\ Len(events) <= MaxEvents
    /\ chats \in Seq(Chats) /\ Len(chats) <= MaxChat
    /\ nodes \in Nat
ProtoOK == protos \subseteq Packets \ Anon /\ IsFiniteSet(protos) /\ Cardinality(protos) <= MaxProtos

\* What a goroutine holds; one that is in RecordChat has a chat packet.
WorkOK ==
    /\ pc \in [Threads -> Labels]
    /\ item \in [Threads -> Packets \cup {"node", "other", "status", Nil}]
    /\ role \in [Threads -> Roles]
    /\ note \in [Threads -> [chan : Channels, what : SUBSET Values]]
    /\ rest \in [Threads -> SUBSET Pages]
    /\ \A t \in Threads :
          /\ pc[t] = "proto" => item[t] \in Packets
          /\ pc[t] \in {"check", "append", "notifychat"} => item[t] \in Chats
          /\ pc[t] = "idle" => role[t] # "direct"

\* A page is subscribed after its snapshot and until its channel is closed.
PageOK ==
    /\ subs \in [Channels -> SUBSET Pages]
    /\ ppc \in [Pages -> Stages \X (0..3)]
    /\ \A p \in Pages : ppc[p][1] = "close" => ppc[p][2] # 0 /\ p \notin subs[Steps[ppc[p][2]]]
    /\ \A p \in Pages, k \in Channels :
          /\ p \in subs[k] => ppc[p][1] # "snapshot"
          /\ <<p, k>> \in shut => ppc[p][1] \in {"delete", "close"} /\ p \notin subs[k]
QueueOK ==
    /\ queue \in [Pages -> [Channels -> Seq(SUBSET Values)]]
    /\ \A p \in Pages, k \in Channels : Len(queue[p][k]) <= Buffer

\* Events are numbered in the order in which they are logged.
Latest == IF events = <<>> THEN 0 ELSE events[Len(events)]
NumbersOK == \A i, j \in 1..Len(events) : i < j => events[i] < events[j]

\* A page has been given each event once, none of them from the future.
FeedOK ==
    /\ feed \in [Pages -> Seq(Nat)]
    /\ \A p \in Pages : /\ IsInjective(feed[p])
                        /\ \A i \in 1..Len(feed[p]) : feed[p][i] <= Latest

\* A goroutine in the loop of Record has an event of its own, which the pages it has
\* still to send it to have not been given, neither in a snapshot nor live.
Sending(t, k) == pc[t] = "send" /\ note[t].chan = k
Given(p, n) == \E i \in 1..Len(feed[p]) : feed[p][i] = n
SendOK == \A t \in Threads : Sending(t, "event") =>
    /\ \E n \in 1..Latest : note[t].what = {n}
    /\ \A p \in rest[t] : ppc[p][1] # "snapshot" /\ \A n \in note[t].what : ~Given(p, n)
    /\ \A u \in Threads \ {t} : Sending(u, "event") => note[u].what # note[t].what

\* Nothing is owed before a page subscribes; updates of nodes are counted.
OwedOK ==
    /\ owed \in [Pages -> [Channels -> SUBSET Values]]
    /\ missed \in [Pages -> [Channels -> SUBSET Values]]
    /\ \A p \in Pages :
          /\ owed[p]["node"] \subseteq 1..nodes
          /\ \A k \in Channels :
                p \notin subs[k] /\ ppc[p][1] \in {"snapshot", "subscribe"} => owed[p][k] = {}

\* The chat log is the end of what was appended.
ChatOK ==
    /\ appended \in Seq(Chats)
    /\ Len(chats) = IF Len(appended) > MaxChat THEN MaxChat ELSE Len(appended)
    /\ \A i \in 1..Len(chats) : chats[i] = appended[Len(appended) - Len(chats) + i]

\* Until its first observation is over a chat packet is with one goroutine only; a
\* handler of SendChat comes after that.
ItemOK ==
    /\ \A t, u \in Threads : t # u /\ item[t] = item[u] /\ item[t] \in Chats => item[t] \in known
    /\ \A t \in Threads : role[t] = "direct" => item[t] \in known
    /\ \A t \in Threads : item[t] \in Chats => item[t] \in begun
    /\ known \subseteq begun

\* Whoever is through RecordChat has logged the packet, or it was a repetition.
Logged(i) == i \in repeats \/ \E h \in 1..Len(appended) : appended[h] = i
Through(t) == \/ pc[t] \in {"notifychat", "record", "finish"}
              \/ Sending(t, "chat") \/ Sending(t, "event")
LoggedOK ==
    /\ \A i \in known \cap Chats : Logged(i)
    /\ \A t \in Threads : item[t] \in Chats /\ Through(t) => Logged(item[t])

\* Whoever is about to append a packet with an id again is far behind its first entry.
First(h) == \A g \in 1..(h - 1) : appended[g] # appended[h]
AppendOK == \A t \in Threads : pc[t] = "append" /\ item[t] \notin repeats \cup Anon =>
    \A h \in 1..Len(appended) : appended[h] = item[t] /\ First(h) => h + Window <= Len(appended)

HubInv ==
    /\ LogOK /\ ProtoOK /\ WorkOK /\ PageOK /\ QueueOK /\ NumbersOK /\ FeedOK /\ SendOK
    /\ OwedOK /\ UpdatesReachPages /\ ChatOK /\ ItemOK /\ LoggedOK /\ AppendOK
    /\ NoDuplicateChat

USE DEF logVars, chanVars, workVars, pageVars, copyVars

-----------------------------------------------------------------------------
(* What a step leaves alone *)

LEMMA Undisturbed ==
    ASSUME HubInv
    PROVE  /\ UNCHANGED <<events, chats, nodes>> => LogOK'
           /\ UNCHANGED protos => ProtoOK'
           /\ UNCHANGED <<pc, item, role, note, rest>> => WorkOK'
           /\ UNCHANGED <<subs, ppc, shut>> => PageOK'
           /\ UNCHANGED queue => QueueOK'
           /\ UNCHANGED events => NumbersOK'
           /\ UNCHANGED <<feed, events>> => FeedOK'
           /\ UNCHANGED <<pc, note, rest, ppc, feed, events>> => SendOK'
           /\ UNCHANGED <<owed, missed, nodes, subs, ppc>> => OwedOK'
           /\ UNCHANGED <<subs, owed, missed, shut, pc, rest, note, item>> => UpdatesReachPages'
           /\ UNCHANGED <<appended, chats>> => ChatOK'
           /\ UNCHANGED <<item, known, role, begun>> => ItemOK'
           /\ UNCHANGED <<known, repeats, appended, pc, item, note>> => LoggedOK'
           /\ UNCHANGED <<pc, item, repeats, appended>> => AppendOK'
           /\ UNCHANGED <<appended, repeats>> => NoDuplicateChat'
<1> USE DEF HubInv
<1>1. /\ UNCHANGED <<events, chats, nodes>> => LogOK'
      /\ UNCHANGED protos => ProtoOK'
      /\ UNCHANGED queue => QueueOK'
      /\ UNCHANGED events => NumbersOK'
    BY DEF LogOK, ProtoOK, QueueOK, NumbersOK
<1>2. UNCHANGED <<pc, item, role, note, rest>> => WorkOK'
    BY DEF WorkOK
<1>3. UNCHANGED <<subs, ppc, shut>> => PageOK'
    BY DEF PageOK
<1>4. /\ UNCHANGED <<feed, events>> => FeedOK'
      /\ UNCHANGED <<pc, note, rest, ppc, feed, events>> => SendOK'
    BY DEF FeedOK, SendOK, Latest, Sending, Given
<1>5. /\ UNCHANGED <<owed, missed, nodes, subs, ppc>> => OwedOK'
      /\ UNCHANGED <<subs, owed, missed, shut, pc, rest, note, item>> => UpdatesReachPages'
    BY DEF OwedOK, UpdatesReachPages, Pending, Lost
<1>6. /\ UNCHANGED <<appended, chats>> => ChatOK'
      /\ UNCHANGED <<item, known, role, begun>> => ItemOK'
    BY DEF ChatOK, ItemOK
<1>7. UNCHANGED <<known, repeats, appended, pc, item, note>> => LoggedOK'
    BY DEF LoggedOK, Logged, Through, Sending
<1>8. /\ UNCHANGED <<pc, item, repeats, appended>> => AppendOK'
      /\ UNCHANGED <<appended, repeats>> => NoDuplicateChat'
    BY DEF AppendOK, First, NoDuplicateChat
<1> QED
    BY <1>1, <1>2, <1>3, <1>4, <1>5, <1>6, <1>7, <1>8

\* A step of goroutine t leaves the others where they are, with what they hold.
Others(t) == \A u \in Threads \ {t} :
    pc'[u] = pc[u] /\ item'[u] = item[u] /\ note'[u] = note[u] /\ rest'[u] = rest[u]

\* Goroutine t is the one that still brings x to p on channel k.
Carries(t, p, k, x) ==
    \/ pc[t] = "send" /\ p \in rest[t] /\ note[t].chan = k /\ x \in note[t].what
    \/ k = "node" /\ pc[t] = "notifynodes"
    \/ k = "node" /\ pc[t] = "nodesubs" /\ x \in note[t].what
    \/ k = "chat" /\ pc[t] = "notifychat" /\ x = item[t]

LEMMA SomebodyCarries ==
    ASSUME NEW p, NEW k, NEW x
    PROVE  Pending(p, k, x) <=> \E t \in Threads : Carries(t, p, k, x)
BY DEF Pending, Carries

LEMMA SomebodyWillCarry ==
    ASSUME NEW p, NEW k, NEW x
    PROVE  Pending(p, k, x)' <=> \E t \in Threads : Carries(t, p, k, x)'
BY DEF Pending, Carries

\* What is pending stays pending, unless it was t that carried it.
LEMMA PendingStays ==
    ASSUME NEW t \in Threads, Others(t), NEW p, NEW k, NEW x,
           Pending(p, k, x), Carries(t, p, k, x) => Carries(t, p, k, x)'
    PROVE  Pending(p, k, x)'
<1>1. PICK u \in Threads : Carries(u, p, k, x)
    BY SomebodyCarries
<1>2. Carries(u, p, k, x)'
    BY <1>1 DEF Others, Carries
<1> QED
    BY <1>2, SomebodyWillCarry

LEMMA ReachStays ==
    ASSUME HubInv, NEW t \in Threads, Others(t), UNCHANGED <<subs, owed, missed, shut>>,
           \A k \in Channels : \A p \in subs[k] : \A x \in owed[p][k] :
              Carries(t, p, k, x) => Carries(t, p, k, x)'
    PROVE  UpdatesReachPages'
<1> SUFFICES ASSUME NEW k \in Channels, NEW p \in subs[k], NEW x \in owed[p][k]
             PROVE  Pending(p, k, x)' \/ Lost(p, k, x)'
    BY DEF UpdatesReachPages
<1>1. CASE Pending(p, k, x)
    BY <1>1, PendingStays
<1>2. CASE Lost(p, k, x)
    BY <1>2 DEF Lost
<1> QED
    BY <1>1, <1>2 DEF HubInv, UpdatesReachPages

LEMMA SendStays ==
    ASSUME HubInv, NEW t \in Threads, Others(t), UNCHANGED <<feed, events, ppc>>,
           ~Sending(t, "event")'
    PROVE  SendOK'
BY DEF HubInv, SendOK, Others, Sending, Given, Latest

LEMMA LoggedKept ==
    ASSUME HubInv, NEW t \in Threads, Others(t), UNCHANGED known,
           \A i : Logged(i) => Logged(i)', item'[t] \in Chats /\ Through(t)' => Logged(item[t])'
    PROVE  LoggedOK'
<1>2. \A u \in Threads \ {t} : Through(u)' = Through(u)
    BY DEF Others, Through, Sending
<1>3. \A i \in known' \cap Chats : Logged(i)'
    BY DEF HubInv, LoggedOK
<1>4. ASSUME NEW u \in Threads, item'[u] \in Chats, Through(u)' PROVE Logged(item[u])'
    <2>1. CASE u = t
        BY <1>4, <2>1
    <2>2. CASE u # t
        <3>1. item'[u] = item[u] /\ Logged(item[u])
            BY <1>2, <1>4, <2>2 DEF HubInv, LoggedOK, Others
        <3>2. Logged(item[u])' <=> (\E i \in {item[u]} : Logged(i)')
            BY <3>1 DEF Logged
        <3> QED
            BY <3>1, <3>2
    <2> QED
        BY <2>1, <2>2
<1> QED
    BY <1>3, <1>4 DEF LoggedOK

LEMMA LoggedStays ==
    ASSUME HubInv, NEW t \in Threads, Others(t), UNCHANGED <<known, appended>>,
           repeats \subseteq repeats', item'[t] \in Chats /\ Through(t)' => Logged(item[t])'
    PROVE  LoggedOK'
<1>1. \A i : Logged(i) => Logged(i)'
    BY DEF Logged
<1> QED
    BY <1>1, LoggedKept

LEMMA AppendStays ==
    ASSUME HubInv, NEW t \in Threads, Others(t), UNCHANGED appended, repeats \subseteq repeats',
           pc'[t] # "append"
    PROVE  AppendOK'
BY DEF HubInv, AppendOK, Others, First

-----------------------------------------------------------------------------
(* The operators of the model *)

LEMMA LastNTakesTheEnd ==
    ASSUME NEW S, NEW s \in Seq(S), NEW n \in Nat
    PROVE  /\ LastN(s, n) \in Seq(S)
           /\ Len(LastN(s, n)) = IF Len(s) > n THEN n ELSE Len(s)
           /\ \A i \in 1..Len(LastN(s, n)) : LastN(s, n)[i] = s[Len(s) - Len(LastN(s, n)) + i]
<1>1. CASE Len(s) > n
    <2>1. LastN(s, n) = SubSeq(s, Len(s) - n + 1, Len(s))
        BY <1>1 DEF LastN
    <2>2. \A i \in (Len(s) - n + 1)..Len(s) : s[i] \in S
        BY <1>1
    <2>3. /\ LastN(s, n) \in Seq(S) /\ Len(LastN(s, n)) = n
          /\ \A i \in 1..n : LastN(s, n)[i] = s[Len(s) - n + 1 + i - 1]
        BY <1>1, <2>1, <2>2, SubSeqProperties
    <2>4. \A i \in 1..n : Len(s) - n + 1 + i - 1 = Len(s) - n + i
        OBVIOUS
    <2> QED
        BY <1>1, <2>3, <2>4
<1>2. CASE ~(Len(s) > n)
    <2>1. LastN(s, n) = s
        BY <1>2, SubSeqFull DEF LastN
    <2>2. Len(s) - Len(s) = 0 /\ \A i \in 1..Len(s) : 0 + i = i
        OBVIOUS
    <2> QED
        BY <1>2, <2>1, <2>2
<1> QED
    BY <1>1, <1>2

LEMMA OneElementSequence == ASSUME NEW n PROVE SetToSeq({n}) = <<n>>
<1>1. Cardinality({n}) = 1
    BY FS_Singleton
<1>2. <<n>> \in [1..1 -> {n}] /\ IsInjective(<<n>>)
    BY DEF IsInjective
<1>3. \A f \in [1..1 -> {n}] : f = <<n>>
    OBVIOUS
<1> QED
    BY <1>1, <1>2, <1>3 DEF SetToSeq

\* The next event is numbered after all others.
LEMMA LatestIsLast ==
    ASSUME HubInv
    PROVE  /\ Latest \in Nat /\ Numbered = Latest + 1
           /\ \A i \in 1..Len(events) : events[i] <= Latest
BY DEF HubInv, LogOK, NumbersOK, Latest, Numbered

LEMMA LatestGrows ==
    ASSUME HubInv, events' = LastN(Append(events, Numbered), MaxEvents)
    PROVE  /\ Latest' = Latest + 1
           /\ events' \in Seq(Nat) /\ Len(events') <= MaxEvents
           /\ NumbersOK'
<1> DEFINE all == Append(events, Numbered)
<1>1. Latest \in Nat /\ Numbered = Latest + 1 /\ \A i \in 1..Len(events) : events[i] <= Latest
    BY LatestIsLast
<1>2. /\ all \in Seq(Nat) /\ Len(all) = Len(events) + 1 /\ all[Len(all)] = Latest + 1
      /\ \A i \in 1..Len(events) : all[i] = events[i]
    BY <1>1 DEF HubInv, LogOK
<1> HIDE DEF all
<1>3. ASSUME NEW i \in 1..Len(all), NEW j \in 1..Len(all), i < j PROVE all[i] < all[j]
    <2>1. i \in 1..Len(events) /\ all[i] = events[i] /\ events[i] \in Nat
        BY <1>2, <1>3 DEF HubInv, LogOK
    <2>2. CASE j \in 1..Len(events)
        BY <1>2, <1>3, <2>1, <2>2 DEF HubInv, NumbersOK
    <2>3. CASE j \notin 1..Len(events)
        <3>1. j = Len(all)
            BY <1>2, <2>3 DEF HubInv, LogOK
        <3>2. events[i] <= Latest
            BY <1>1, <2>1
        <3> QED
            BY <1>1, <1>2, <2>1, <3>1, <3>2
    <2> QED
        BY <2>2, <2>3
<1>4. /\ events' \in Seq(Nat) /\ Len(events') = IF Len(all) > MaxEvents THEN MaxEvents ELSE Len(all)
      /\ \A i \in 1..Len(events') : events'[i] = all[Len(all) - Len(events') + i]
    <2>1. MaxEvents \in Nat /\ events' = LastN(all, MaxEvents) /\ all \in Seq(Nat)
        BY <1>2, HubAssumptions DEF all
    <2> HIDE DEF LastN
    <2>2. /\ LastN(all, MaxEvents) \in Seq(Nat)
          /\ Len(LastN(all, MaxEvents)) = IF Len(all) > MaxEvents THEN MaxEvents ELSE Len(all)
          /\ \A i \in 1..Len(LastN(all, MaxEvents)) :
                LastN(all, MaxEvents)[i] = all[Len(all) - Len(LastN(all, MaxEvents)) + i]
        BY <2>1, LastNTakesTheEnd
    <2> QED
        BY <2>1, <2>2
<1>5. Len(events') \in 1..MaxEvents /\ Len(events') <= Len(all) /\ Len(all) \in Nat
    BY <1>2, <1>4, HubAssumptions DEF HubInv, LogOK
<1>6. events'[Len(events')] = all[Len(all)]
    <2>1. Len(all) - Len(events') + Len(events') = Len(all) /\ Len(events') \in 1..Len(events')
        BY <1>5
    <2> QED
        BY <1>4, <2>1
<1>7. NumbersOK'
    <2> SUFFICES ASSUME NEW i \in 1..Len(events'), NEW j \in 1..Len(events'), i < j
                 PROVE  events'[i] < events'[j]
        BY DEF NumbersOK
    <2> DEFINE from == Len(all) - Len(events')
    <2>1. from + i \in 1..Len(all) /\ from + j \in 1..Len(all) /\ from + i < from + j
        BY <1>5
    <2> QED
        BY <1>3, <1>4, <2>1
<1> QED
    BY <1>2, <1>4, <1>5, <1>6, <1>7 DEF Latest

\* The duplicate check sees at least the last Window messages that were appended.
LEMMA RecentIsTheEnd ==
    ASSUME LogOK, ChatOK
    PROVE  \A h \in 1..Len(appended) : h + Window > Len(appended) => appended[h] \in Recent
<1> SUFFICES ASSUME NEW h \in 1..Len(appended), h + Window > Len(appended)
             PROVE  appended[h] \in Recent
    OBVIOUS
<1> DEFINE end == LastN(chats, Window)
<1>1. /\ end \in Seq(Chats) /\ Len(end) = IF Len(chats) > Window THEN Window ELSE Len(chats)
      /\ \A i \in 1..Len(end) : end[i] = chats[Len(chats) - Len(end) + i]
    <2>1. Window \in Nat /\ chats \in Seq(Chats)
        BY HubAssumptions DEF LogOK
    <2> QED
        BY <2>1, LastNTakesTheEnd
<1> HIDE DEF end
<1>l. Len(end) \in Nat /\ Len(chats) \in Nat /\ Len(appended) \in Nat
    BY <1>1 DEF LogOK, ChatOK
<1>2. Len(appended) - h < Len(end) /\ Len(end) <= Len(chats) /\ Len(chats) <= Len(appended)
    BY <1>1, HubAssumptions DEF LogOK, ChatOK
<1>3. Len(end) - (Len(appended) - h) \in 1..Len(end)
    BY <1>1, <1>2, HubAssumptions DEF LogOK, ChatOK
<1>4. end[Len(end) - (Len(appended) - h)] = chats[Len(chats) - (Len(appended) - h)]
    <2>1. Len(chats) - Len(end) + (Len(end) - (Len(appended) - h))
             = Len(chats) - (Len(appended) - h)
        BY <1>l, <1>2
    <2> QED
        BY <1>1, <1>3, <2>1
<1>5. chats[Len(chats) - (Len(appended) - h)] = appended[h]
    <2>1. /\ Len(chats) - (Len(appended) - h) \in 1..Len(chats)
          /\ Len(appended) - Len(chats) + (Len(chats) - (Len(appended) - h)) = h
        BY <1>l, <1>2
    <2> QED
        BY <2>1 DEF ChatOK
<1> QED
    BY <1>1, <1>3, <1>4, <1>5 DEF Recent, ToSet, end

-----------------------------------------------------------------------------
(* What is owed to pages *)

LEMMA OweAdds ==
    ASSUME HubInv, NEW c \in Channels, NEW v \in Values, Owe(c, v)
    PROVE  /\ owed' \in [Pages -> [Channels -> SUBSET Values]]
           /\ \A p \in Pages, k \in Channels :
                 owed'[p][k] = IF p \in subs[k] /\ k = c THEN owed[p][k] \cup {v} ELSE owed[p][k]
<1>1. /\ owed \in [Pages -> [Channels -> SUBSET Values]]
      /\ owed' = [p \in Pages |->
            IF p \in subs[c] THEN [owed[p] EXCEPT ![c] = @ \cup {v}] ELSE owed[p]]
    BY DEF HubInv, OwedOK, Owe
<1>2. ASSUME NEW p \in Pages
      PROVE  /\ owed'[p] \in [Channels -> SUBSET Values]
             /\ \A k \in Channels :
                   owed'[p][k] = IF p \in subs[k] /\ k = c THEN owed[p][k] \cup {v} ELSE owed[p][k]
    <2>1. owed[p] \in [Channels -> SUBSET Values]
        BY <1>1
    <2>2. CASE p \in subs[c]
        <3>1. owed'[p] = [owed[p] EXCEPT ![c] = @ \cup {v}]
            BY <1>1, <2>2
        <3> QED
            BY <2>1, <2>2, <3>1
    <2>3. CASE p \notin subs[c]
        <3>1. owed'[p] = owed[p]
            BY <1>1, <2>3
        <3> QED
            BY <2>1, <2>3, <3>1
    <2> QED
        BY <2>2, <2>3
<1> QED
    BY <1>1, <1>2

\* What is owed anew is no longer counted as missed.
LEMMA OweForgives ==
    ASSUME HubInv, NEW c \in Channels, NEW v \in Values, Owe(c, v)
    PROVE  /\ missed' \in [Pages -> [Channels -> SUBSET Values]]
           /\ \A p \in Pages, k \in Channels : missed[p][k] \subseteq missed'[p][k] \cup {v}
           /\ \A p \in Pages, k \in Channels : k # c => missed'[p][k] = missed[p][k]
<1>1. /\ missed \in [Pages -> [Channels -> SUBSET Values]]
      /\ missed' = [p \in Pages |->
            IF p \in subs[c] THEN [missed[p] EXCEPT ![c] = @ \ {v}] ELSE missed[p]]
    BY DEF HubInv, OwedOK, Owe
<1>2. ASSUME NEW p \in Pages
      PROVE  /\ missed'[p] \in [Channels -> SUBSET Values]
             /\ \A k \in Channels : missed[p][k] \subseteq missed'[p][k] \cup {v}
             /\ \A k \in Channels : k # c => missed'[p][k] = missed[p][k]
    <2>1. missed[p] \in [Channels -> SUBSET Values]
        BY <1>1
    <2>2. CASE p \in subs[c]
        <3>1. missed'[p] = [missed[p] EXCEPT ![c] = @ \ {v}]
            BY <1>1, <2>2
        <3> QED
            BY <2>1, <3>1
    <2>3. CASE p \notin subs[c]
        <3>1. missed'[p] = missed[p]
            BY <1>1, <2>3
        <3> QED
            BY <2>1, <3>1
    <2> QED
        BY <2>2, <2>3
<1> QED
    BY <1>1, <1>2

LEMMA OweKeepsOwed ==
    ASSUME HubInv, NEW c \in Channels, NEW v \in Values, Owe(c, v), UNCHANGED <<subs, ppc>>,
           nodes' \in Nat, nodes <= nodes', c = "node" => v \in 1..nodes'
    PROVE  OwedOK'
<1>1. /\ owed' \in [Pages -> [Channels -> SUBSET Values]]
      /\ \A p \in Pages, k \in Channels :
            owed'[p][k] = IF p \in subs[k] /\ k = c THEN owed[p][k] \cup {v} ELSE owed[p][k]
    BY OweAdds
<1>2. \A p \in Pages : owed'[p]["node"] \subseteq 1..nodes'
    <2> SUFFICES ASSUME NEW p \in Pages, NEW x \in owed'[p]["node"] PROVE x \in 1..nodes'
        OBVIOUS
    <2>1. x \in owed[p]["node"] \/ (c = "node" /\ x = v)
        BY <1>1 DEF Channels
    <2>2. owed[p]["node"] \subseteq 1..nodes /\ nodes \in Nat
        BY DEF HubInv, OwedOK, LogOK
    <2> QED
        BY <2>1, <2>2
<1>3. \A p \in Pages, k \in Channels : p \notin subs'[k] => owed'[p][k] = owed[p][k]
    BY <1>1
<1>4. missed' \in [Pages -> [Channels -> SUBSET Values]]
    BY OweForgives
<1> QED
    BY <1>1, <1>2, <1>3, <1>4 DEF HubInv, OwedOK

\* Goroutine t, which carried nothing, owes v to the subscribers of c and carries it.
LEMMA OweReaches ==
    ASSUME HubInv, NEW t \in Threads, Others(t),
           NEW c \in Channels, NEW v \in Values, Owe(c, v), UNCHANGED <<subs, shut>>,
           \A p, k, x : ~Carries(t, p, k, x), \A p \in subs[c] : Carries(t, p, c, v)'
    PROVE  UpdatesReachPages'
<1> SUFFICES ASSUME NEW k \in Channels, NEW p \in subs[k], NEW x \in owed'[p][k]
             PROVE  Pending(p, k, x)' \/ Lost(p, k, x)'
    BY DEF UpdatesReachPages
<1>1. p \in Pages
    BY DEF HubInv, PageOK
<1>2. CASE k = c /\ x = v
    BY <1>2, SomebodyWillCarry
<1>3. CASE ~(k = c /\ x = v)
    <2>1. x \in owed[p][k]
        <3>1. \A q \in Pages, m \in Channels :
                 owed'[q][m] = IF q \in subs[m] /\ m = c THEN owed[q][m] \cup {v} ELSE owed[q][m]
            BY OweAdds
        <3> QED
            BY <1>1, <1>3, <3>1
    <2>2. CASE Pending(p, k, x)
        BY <2>2, PendingStays
    <2>3. CASE Lost(p, k, x)
        <3>1. x \in missed'[p][k]
            <4>1. /\ missed[p][k] \subseteq missed'[p][k] \cup {v}
                  /\ k # c => missed'[p][k] = missed[p][k]
                BY <1>1, OweForgives
            <4> QED
                BY <1>3, <2>3, <4>1 DEF Lost
        <3> QED
            BY <2>3, <3>1 DEF Lost
    <2> QED
        BY <2>1, <2>2, <2>3 DEF HubInv, UpdatesReachPages
<1> QED
    BY <1>2, <1>3

LEMMA PayingKeepsOwed ==
    ASSUME HubInv, UNCHANGED <<subs, ppc, nodes, missed>>,
           owed' \in [Pages -> [Channels -> SUBSET Values]],
           \A p \in Pages, k \in Channels : owed'[p][k] \subseteq owed[p][k]
    PROVE  OwedOK'
<1>1. \A p \in Pages : owed'[p]["node"] \subseteq owed[p]["node"]
    BY DEF Channels
<1>2. \A p \in Pages, k \in Channels : owed[p][k] = {} => owed'[p][k] = {}
    OBVIOUS
<1> QED
    BY <1>1, <1>2 DEF HubInv, OwedOK

\* What goroutine t has sent, it no longer has to bring.
LEMMA PayingReaches ==
    ASSUME HubInv, NEW t \in Threads, Others(t), UNCHANGED <<subs, missed, shut>>,
           \A p \in Pages, k \in Channels : owed'[p][k] \subseteq owed[p][k],
           \A p \in Pages, k \in Channels : \A x \in owed'[p][k] :
              Carries(t, p, k, x) => Carries(t, p, k, x)'
    PROVE  UpdatesReachPages'
<1> SUFFICES ASSUME NEW k \in Channels, NEW p \in subs[k], NEW x \in owed'[p][k]
             PROVE  Pending(p, k, x)' \/ Lost(p, k, x)'
    BY DEF UpdatesReachPages
<1>1. p \in Pages
    BY DEF HubInv, PageOK
<1>2. CASE Pending(p, k, x)
    BY <1>1, <1>2, PendingStays
<1>3. CASE Lost(p, k, x)
    BY <1>3 DEF Lost
<1> QED
    BY <1>1, <1>2, <1>3 DEF HubInv, UpdatesReachPages

LEMMA RecentIsLogged == ASSUME LogOK, ChatOK, NEW i \in Recent PROVE Logged(i)
<1>1. /\ LastN(chats, Window) \in Seq(Chats)
      /\ \A j \in 1..Len(LastN(chats, Window)) :
            LastN(chats, Window)[j] = chats[Len(chats) - Len(LastN(chats, Window)) + j]
      /\ Len(LastN(chats, Window)) <= Len(chats)
    BY LastNTakesTheEnd, HubAssumptions DEF LogOK
<1>2. PICK j \in 1..Len(LastN(chats, Window)) : LastN(chats, Window)[j] = i
    BY <1>1 DEF Recent, ToSet
<1>3. PICK m \in 1..Len(chats) : chats[m] = i
    <2> DEFINE m == Len(chats) - Len(LastN(chats, Window)) + j
    <2>1. m \in 1..Len(chats)
        BY <1>1, <1>2 DEF LogOK
    <2> QED
        BY <1>1, <1>2, <2>1
<1>4. Len(appended) - Len(chats) + m \in 1..Len(appended)
    BY <1>3, HubAssumptions DEF LogOK, ChatOK
<1> QED
    BY <1>3, <1>4 DEF ChatOK, Logged


-----------------------------------------------------------------------------
(* One lemma per action, one step per part that the action can disturb *)

LEMMA ObserveSafe ==
    ASSUME HubInv, NEW t \in Threads, NEW i \in Packets \cup {"node", "other"},
           NEW r \in {"broker", "http"}, Observe(t, i, r)
    PROVE  HubInv'
<1>o. Others(t)
    BY DEF HubInv, WorkOK, Others, Observe, Goto
<1>l. /\ pc'[t] \in {"record", "node", "proto"}
      /\ pc'[t] = "proto" => i \in Packets
      /\ i \in Chats => pc'[t] # "record"
      /\ \A u \in Threads \ {t} : item'[u] = item[u] /\ role'[u] = role[u]
      /\ item'[t] = i /\ role'[t] = r /\ pc[t] = "idle"
    BY HubAssumptions DEF HubInv, WorkOK, Observe, Goto
<1>1. WorkOK'
    <2>1. /\ pc' \in [Threads -> Labels] /\ role' \in [Threads -> Roles]
          /\ item' \in [Threads -> Packets \cup {"node", "other", "status", Nil}]
          /\ UNCHANGED <<note, rest>>
        BY DEF HubInv, WorkOK, Labels, Roles, Observe, Goto
    <2>2. \A u \in Threads \ {t} : pc'[u] = pc[u]
        BY <1>o DEF Others
    <2> QED
        BY <1>l, <2>1, <2>2 DEF HubInv, WorkOK
<1>2. SendOK'
    BY <1>o, <1>l, SendStays DEF Sending, Observe
<1>3. UpdatesReachPages'
    BY <1>o, <1>l, ReachStays DEF Carries, Observe
<1>4. ItemOK'
    <2>1. i \in Chats => i \in begun' /\ (i \in known \/ \A u \in Threads : item[u] # i)
        BY DEF HubInv, ItemOK, Observe, InOrder
    <2>2. begun \subseteq begun' /\ known' = known
        BY DEF Observe
    <2> QED
        BY <1>l, <2>1, <2>2 DEF HubInv, ItemOK
<1>5. LoggedOK'
    <2>1. item'[t] \in Chats => ~Through(t)'
        BY <1>l DEF Through, Sending
    <2> QED
        BY <1>o, <2>1, LoggedStays DEF Observe
<1>6. AppendOK'
    BY <1>o, <1>l, AppendStays DEF Observe
<1> QED
    BY Undisturbed, <1>1, <1>2, <1>3, <1>4, <1>5, <1>6 DEF HubInv, Observe

LEMMA SendChatSafe ==
    ASSUME HubInv, NEW t \in Threads, NEW i \in Chats, SendChat(t, i)
    PROVE  HubInv'
<1>o. Others(t)
    BY DEF HubInv, WorkOK, Others, SendChat, Goto
<1>1. WorkOK'
    BY HubAssumptions DEF HubInv, WorkOK, Labels, Roles, SendChat, Goto
<1>2. SendOK'
    BY <1>o, SendStays DEF HubInv, WorkOK, Sending, SendChat, Goto
<1>3. UpdatesReachPages'
    BY <1>o, ReachStays DEF HubInv, WorkOK, Carries, SendChat, Goto
<1>4. ItemOK'
    <2>1. /\ \A u \in Threads \ {t} : item'[u] = item[u] /\ role'[u] = role[u]
          /\ item'[t] = i /\ i \in known /\ UNCHANGED <<known, begun>>
        BY DEF HubInv, WorkOK, SendChat
    <2>2. i \in begun
        BY DEF HubInv, ItemOK, SendChat
    <2> QED
        BY <2>1, <2>2 DEF HubInv, ItemOK
<1>5. LoggedOK'
    BY <1>o, LoggedStays DEF HubInv, LoggedOK, WorkOK, Through, Sending, SendChat, Goto
<1>6. AppendOK'
    BY <1>o, AppendStays DEF HubInv, WorkOK, SendChat, Goto
<1> QED
    BY Undisturbed, <1>1, <1>2, <1>3, <1>4, <1>5, <1>6 DEF HubInv, SendChat

LEMMA TouchNodeSafe ==
    ASSUME HubInv, NEW t \in Threads, TouchNode(t)
    PROVE  HubInv'
<1>o. Others(t)
    BY DEF HubInv, WorkOK, Others, TouchNode, Goto
<1>1. LogOK'
    BY DEF HubInv, LogOK, TouchNode, Goto
<1>2. WorkOK'
    BY DEF HubInv, WorkOK, LogOK, Labels, Channels, Values, TouchNode, Goto
<1>3. SendOK'
    BY <1>o, SendStays DEF HubInv, WorkOK, Sending, TouchNode, Goto
<1>4. OwedOK'
    <2>1. nodes \in Nat /\ nodes + 1 \in Values /\ "node" \in Channels /\ Owe("node", nodes + 1)
        BY DEF HubInv, LogOK, Values, Channels, TouchNode
    <2> QED
        BY <2>1, OweKeepsOwed DEF HubInv, LogOK, TouchNode
<1>5. UpdatesReachPages'
    <2>1. nodes + 1 \in Values /\ "node" \in Channels /\ Owe("node", nodes + 1) /\ UNCHANGED <<subs, shut>>
        BY DEF HubInv, LogOK, WorkOK, Values, Channels, TouchNode
    <2>2. \A p, k, x : ~Carries(t, p, k, x)
        BY DEF TouchNode, Carries
    <2>3. \A p \in subs["node"], x \in {nodes + 1} : Carries(t, p, "node", x)'
        BY DEF HubInv, WorkOK, Carries, TouchNode, Goto
    <2> QED
        BY <1>o, <2>1, <2>2, <2>3, OweReaches
<1>6. LoggedOK'
    BY <1>o, LoggedStays DEF HubInv, LoggedOK, WorkOK, Through, Sending, TouchNode, Goto
<1>7. AppendOK'
    BY <1>o, AppendStays DEF HubInv, WorkOK, TouchNode, Goto
<1> QED
    BY Undisturbed, <1>1, <1>2, <1>3, <1>4, <1>5, <1>6, <1>7 DEF HubInv, TouchNode

LEMMA SetStatusSafe ==
    ASSUME HubInv, NEW t \in Threads, NEW r \in {"broker", "http"}, SetStatus(t, r)
    PROVE  HubInv'
<1>o. Others(t)
    BY DEF HubInv, WorkOK, Others, SetStatus, Goto
<1>1. LogOK'
    BY DEF HubInv, LogOK, SetStatus, Goto
<1>2. WorkOK'
    BY DEF HubInv, WorkOK, LogOK, Labels, Roles, Channels, Values, SetStatus, Goto
<1>3. SendOK'
    BY <1>o, SendStays DEF HubInv, WorkOK, Sending, SetStatus, Goto
<1>4. OwedOK'
    <2>1. nodes \in Nat /\ nodes + 1 \in Values /\ "node" \in Channels /\ Owe("node", nodes + 1)
        BY DEF HubInv, LogOK, Values, Channels, SetStatus
    <2> QED
        BY <2>1, OweKeepsOwed DEF HubInv, LogOK, SetStatus
<1>5. UpdatesReachPages'
    <2>1. nodes + 1 \in Values /\ "node" \in Channels /\ Owe("node", nodes + 1) /\ UNCHANGED <<subs, shut>>
        BY DEF HubInv, LogOK, WorkOK, Values, Channels, SetStatus
    <2>2. \A p, k, x : ~Carries(t, p, k, x)
        BY DEF SetStatus, Carries
    <2>3. \A p \in subs["node"], x \in {nodes + 1} : Carries(t, p, "node", x)'
        BY DEF HubInv, WorkOK, Carries, SetStatus, Goto
    <2> QED
        BY <1>o, <2>1, <2>2, <2>3, OweReaches
<1>6. ItemOK'
    <2>1. \A u \in Threads \ {t} : item'[u] = item[u] /\ role'[u] = role[u]
        BY DEF HubInv, WorkOK, SetStatus
    <2>2. item'[t] \notin Chats /\ role'[t] # "direct" /\ UNCHANGED <<known, begun>>
        BY HubAssumptions DEF HubInv, WorkOK, SetStatus
    <2> QED
        BY <2>1, <2>2 DEF HubInv, ItemOK
<1>7. LoggedOK'
    BY <1>o, LoggedStays DEF HubInv, LoggedOK, WorkOK, Through, Sending, SetStatus, Goto
<1>8. AppendOK'
    BY <1>o, AppendStays DEF HubInv, WorkOK, SetStatus, Goto
<1> QED
    BY Undisturbed, <1>1, <1>2, <1>3, <1>4, <1>5, <1>6, <1>7, <1>8 DEF HubInv, SetStatus

LEMMA NotifyNodesSafe ==
    ASSUME HubInv, NEW t \in Threads, NotifyNodes(t)
    PROVE  HubInv'
<1>o. Others(t)
    BY DEF HubInv, WorkOK, Others, NotifyNodes, Goto
<1>1. WorkOK'
    BY DEF HubInv, WorkOK, LogOK, Labels, Channels, Values, NotifyNodes, Goto
<1>2. SendOK'
    BY <1>o, SendStays DEF HubInv, WorkOK, Sending, NotifyNodes, Goto
<1>3. UpdatesReachPages'
    <2>1. \A p \in Pages : owed[p]["node"] \subseteq note'[t].what
        BY DEF HubInv, OwedOK, WorkOK, NotifyNodes
    <2>2. \A k \in Channels : \A p \in subs[k] : p \in Pages
        BY DEF HubInv, PageOK
    <2>3. pc'[t] = "nodesubs"
        BY DEF HubInv, WorkOK, NotifyNodes, Goto
    <2> QED
        BY <1>o, <2>1, <2>2, <2>3, ReachStays DEF NotifyNodes, Carries
<1>4. LoggedOK'
    BY <1>o, LoggedStays DEF HubInv, LoggedOK, WorkOK, Through, Sending, NotifyNodes,
       Goto
<1>5. AppendOK'
    BY <1>o, AppendStays DEF HubInv, WorkOK, NotifyNodes, Goto
<1> QED
    BY Undisturbed, <1>1, <1>2, <1>3, <1>4, <1>5 DEF HubInv, NotifyNodes

LEMMA NodeSubsSafe ==
    ASSUME HubInv, NEW t \in Threads, NodeSubs(t)
    PROVE  HubInv'
<1>o. Others(t)
    BY DEF HubInv, WorkOK, Others, NodeSubs, Notify, Goto
<1>1. WorkOK'
    <2>1. subs["node"] \subseteq Pages
        BY DEF HubInv, PageOK, Channels
    <2> QED
        BY <2>1 DEF HubInv, WorkOK, Labels, Channels, NodeSubs, Notify, Goto
<1>2. SendOK'
    BY <1>o, SendStays DEF HubInv, WorkOK, Sending, NodeSubs, Notify, Goto
<1>3. UpdatesReachPages'
    BY <1>o, ReachStays DEF HubInv, WorkOK, Carries, NodeSubs, Notify, Goto
<1>4. LoggedOK'
    BY <1>o, LoggedStays DEF HubInv, LoggedOK, WorkOK, Through, Sending, NodeSubs,
       Notify, Goto
<1>5. AppendOK'
    BY <1>o, AppendStays DEF HubInv, WorkOK, NodeSubs, Notify, Goto
<1> QED
    BY Undisturbed, <1>1, <1>2, <1>3, <1>4, <1>5 DEF HubInv, NodeSubs

LEMMA CacheProtoSafe ==
    ASSUME HubInv, NEW t \in Threads, CacheProto(t)
    PROVE  HubInv'
<1>o. Others(t)
    BY DEF HubInv, WorkOK, Others, CacheProto, Goto, AfterProto
<1>1. ProtoOK'
    <2> DEFINE all == protos \cup ({item[t]} \ Anon)
    <2>1. all \subseteq Packets \ Anon /\ IsFiniteSet(all)
        <3>1. IsFiniteSet({item[t]} \ Anon)
            BY FS_Singleton, FS_Subset
        <3> QED
            BY <3>1, FS_Union DEF HubInv, ProtoOK, WorkOK, CacheProto
    <2>2. CASE Cardinality(all) <= MaxProtos /\ protos' = all
        BY <2>1, <2>2 DEF ProtoOK
    <2>3. ASSUME NEW keep \in SUBSET all, Cardinality(keep) = MaxProtos \div 2, protos' = keep
          PROVE  ProtoOK'
        <3>1. IsFiniteSet(keep) /\ keep \subseteq Packets \ Anon
            BY <2>1, FS_Subset
        <3>2. MaxProtos \div 2 <= MaxProtos
            BY HubAssumptions
        <3> QED
            BY <2>3, <3>1, <3>2 DEF ProtoOK
    <2> QED
        BY <2>2, <2>3 DEF CacheProto
<1>2. WorkOK'
    BY DEF HubInv, WorkOK, LogOK, Labels, Channels, Values, CacheProto, Goto, AfterProto
<1>3. SendOK'
    BY <1>o, SendStays DEF HubInv, WorkOK, Sending, CacheProto, Goto, AfterProto
<1>4. UpdatesReachPages'
    BY <1>o, ReachStays DEF HubInv, WorkOK, Carries, CacheProto, Goto, AfterProto
<1>5. LoggedOK'
    BY <1>o, LoggedStays DEF HubInv, LoggedOK, WorkOK, Through, Sending, CacheProto,
       Goto, AfterProto
<1>6. AppendOK'
    BY <1>o, AppendStays DEF HubInv, WorkOK, CacheProto, Goto, AfterProto
<1> QED
    BY Undisturbed, <1>1, <1>2, <1>3, <1>4, <1>5, <1>6 DEF HubInv, CacheProto

LEMMA CheckDuplicateSafe ==
    ASSUME HubInv, NEW t \in Threads, CheckDuplicate(t)
    PROVE  HubInv'
<1>o. Others(t)
    BY DEF HubInv, WorkOK, Others, CheckDuplicate, Goto, AfterChat
<1>1. WorkOK'
    BY DEF HubInv, WorkOK, LogOK, Labels, Channels, Values, CheckDuplicate, Goto,
       AfterChat
<1>2. SendOK'
    BY <1>o, SendStays DEF HubInv, WorkOK, Sending, CheckDuplicate, Goto, AfterChat
<1>3. UpdatesReachPages'
    BY <1>o, ReachStays DEF HubInv, WorkOK, Carries, CheckDuplicate, Goto, AfterChat
<1>4. LoggedOK'
    <2>1. /\ item'[t] = item[t] /\ item[t] \in Chats /\ repeats \subseteq repeats'
          /\ UNCHANGED <<known, appended>>
        BY DEF HubInv, WorkOK, CheckDuplicate
    <2>2. CASE pc'[t] = "append"
        BY <1>o, <2>1, <2>2, LoggedStays DEF Through, Sending
    <2>3. CASE pc'[t] # "append"
        <3>1. SamePacket(item[t]) \/ item[t] \in repeats'
            BY <2>3 DEF HubInv, WorkOK, CheckDuplicate, Goto
        <3>2. SamePacket(item[t]) => Logged(item[t])
            BY RecentIsLogged DEF HubInv, SamePacket
        <3>3. Logged(item[t])'
            BY <2>1, <3>1, <3>2 DEF Logged
        <3> QED
            BY <1>o, <2>1, <3>3, LoggedStays
    <2> QED
        BY <2>2, <2>3
<1>5. AppendOK'
    <2>1. CASE pc'[t] # "append"
        BY <1>o, <2>1, AppendStays DEF CheckDuplicate
    <2>2. CASE pc'[t] = "append"
        <3>1. ~SamePacket(item[t]) /\ UNCHANGED <<item, appended, repeats>>
            BY <2>2 DEF HubInv, WorkOK, CheckDuplicate, AfterChat, Goto
        <3>2. item[t] \in Anon \/ \A h \in 1..Len(appended) :
                 appended[h] = item[t] => ~(h + Window > Len(appended))
            BY <3>1, RecentIsTheEnd DEF HubInv, SamePacket
        <3>3. item[t] \in Anon \/ \A h \in 1..Len(appended) :
                 appended[h] = item[t] => h + Window <= Len(appended)
            BY <3>2, HubAssumptions DEF HubInv, ChatOK
        <3> QED
            BY <1>o, <3>1, <3>3 DEF HubInv, AppendOK, Others, First
    <2> QED
        BY <2>1, <2>2
<1>6. NoDuplicateChat'
    BY DEF HubInv, NoDuplicateChat, CheckDuplicate, Goto, AfterChat
<1> QED
    BY Undisturbed, <1>1, <1>2, <1>3, <1>4, <1>5, <1>6 DEF HubInv, CheckDuplicate

LEMMA AppendChatSafe ==
    ASSUME HubInv, NEW t \in Threads, AppendChat(t)
    PROVE  HubInv'
<1>o. Others(t)
    BY DEF HubInv, WorkOK, Others, AppendChat, Goto
<1>a. /\ item[t] \in Chats /\ appended' \in Seq(Chats) /\ Len(appended') = Len(appended) + 1
      /\ appended'[Len(appended) + 1] = item[t]
      /\ \A h \in 1..Len(appended) : appended'[h] = appended[h]
    BY DEF HubInv, WorkOK, ChatOK, AppendChat
<1>b. Len(appended) \in Nat /\ Len(chats) \in Nat /\ MaxChat \in Nat \ {0}
    BY HubAssumptions DEF HubInv, LogOK, ChatOK
<1>l. /\ chats' \in Seq(Chats) /\ Len(chats') <= MaxChat
      /\ Len(chats') = IF Len(chats) + 1 > MaxChat THEN MaxChat ELSE Len(chats) + 1
      /\ \A h \in 1..Len(chats') :
            chats'[h] = Append(chats, item[t])[Len(chats) + 1 - Len(chats') + h]
    <2> DEFINE all == Append(chats, item[t])
    <2>1. all \in Seq(Chats) /\ Len(all) = Len(chats) + 1 /\ chats' = LastN(all, MaxChat)
        BY <1>a DEF HubInv, LogOK, AppendChat
    <2> HIDE DEF all
    <2>2. /\ chats' \in Seq(Chats) /\ Len(chats') = IF Len(all) > MaxChat THEN MaxChat ELSE Len(all)
          /\ \A h \in 1..Len(chats') : chats'[h] = all[Len(all) - Len(chats') + h]
        BY <1>b, <2>1, LastNTakesTheEnd
    <2>3. Len(chats') <= MaxChat
        BY <1>b, <2>1, <2>2
    <2>4. Append(chats, item[t]) = all
        BY DEF all
    <2>5. Len(chats') = IF Len(chats) + 1 > MaxChat THEN MaxChat ELSE Len(chats) + 1
        BY <2>1, <2>2
    <2>6. ASSUME NEW h \in 1..Len(chats')
          PROVE  chats'[h] = Append(chats, item[t])[Len(chats) + 1 - Len(chats') + h]
        BY <2>1, <2>2, <2>4
    <2> QED
        BY <2>2, <2>3, <2>5, <2>6
<1>m. Len(chats') \in 1..(Len(chats) + 1) /\ Len(appended') \in Nat
    BY <1>a, <1>b, <1>l
<1>1. LogOK'
    BY <1>l DEF HubInv, LogOK, AppendChat
<1>2. WorkOK'
    BY DEF HubInv, WorkOK, LogOK, Labels, Channels, Values, AppendChat, Goto
<1>3. SendOK'
    BY <1>o, SendStays DEF HubInv, WorkOK, Sending, AppendChat, Goto
<1>4. OwedOK'
    <2>1. item[t] \in Values /\ "chat" \in Channels /\ Owe("chat", item[t])
        BY DEF HubInv, WorkOK, Values, Channels, AppendChat
    <2> QED
        BY <2>1, OweKeepsOwed DEF HubInv, LogOK, AppendChat
<1>5. UpdatesReachPages'
    <2>1. item[t] \in Values /\ "chat" \in Channels /\ Owe("chat", item[t]) /\ UNCHANGED <<subs, shut>>
        BY DEF HubInv, LogOK, WorkOK, Values, Channels, AppendChat
    <2>2. \A p, k, x : ~Carries(t, p, k, x)
        BY DEF AppendChat, Carries
    <2>3. \A p \in subs["chat"], x \in {item[t]} : Carries(t, p, "chat", x)'
        BY DEF HubInv, WorkOK, Carries, AppendChat, Goto
    <2> QED
        BY <1>o, <2>1, <2>2, <2>3, OweReaches
<1>6. ChatOK'
    <2>1. Len(chats') = IF Len(appended') > MaxChat THEN MaxChat ELSE Len(appended')
        BY <1>a, <1>b, <1>l DEF HubInv, ChatOK
    <2>2. ASSUME NEW h \in 1..Len(chats')
          PROVE  chats'[h] = appended'[Len(appended') - Len(chats') + h]
        <3> DEFINE g == Len(chats) + 1 - Len(chats') + h
        <3>a. chats'[h] = Append(chats, item[t])[g]
            BY <1>l
        <3>b. g \in 1..(Len(chats) + 1)
            BY <1>b, <1>m
        <3>1. chats'[h] = Append(chats, item[t])[g] /\ g \in 1..(Len(chats) + 1)
            BY <3>a, <3>b
        <3>2. CASE g = Len(chats) + 1
            <4>1. Len(appended') - Len(chats') + h = Len(appended) + 1
                BY <1>a, <1>b, <1>m, <3>2
            <4>2. Append(chats, item[t])[Len(chats) + 1] = item[t]
                BY <1>a DEF HubInv, LogOK
            <4> QED
                BY <1>a, <3>1, <3>2, <4>1, <4>2
        <3>3. CASE g \in 1..Len(chats)
            <4>1. Append(chats, item[t])[g] = chats[g]
                BY <1>a, <3>3 DEF HubInv, LogOK
            <4>2. chats[g] = appended[Len(appended) - Len(chats) + g]
                BY <3>3 DEF HubInv, ChatOK
            <4>3. /\ Len(appended) - Len(chats) + g = Len(appended') - Len(chats') + h
                  /\ Len(appended) - Len(chats) + g \in 1..Len(appended)
                <5>1. Len(chats) <= Len(appended)
                    BY <1>b DEF HubInv, ChatOK
                <5> QED
                    BY <1>a, <1>b, <1>m, <3>3, <5>1
            <4> QED
                BY <1>a, <3>1, <4>1, <4>2, <4>3
        <3> QED
            BY <1>b, <3>1, <3>2, <3>3
    <2> QED
        BY <1>a, <2>1, <2>2 DEF ChatOK
<1>7. LoggedOK'
    <2>1. \A i : Logged(i) => Logged(i)'
        BY <1>a, <1>b DEF Logged, AppendChat
    <2>2. Logged(item[t])'
        BY <1>a, <1>b DEF Logged, AppendChat
    <2> QED
        BY <1>o, <2>1, <2>2, LoggedKept DEF AppendChat
<1>8. AppendOK'
    <2> SUFFICES ASSUME NEW u \in Threads, pc'[u] = "append", item[u] \notin repeats \cup Anon,
                        NEW h \in 1..Len(appended'), appended'[h] = item[u],
                        \A g \in 1..(h - 1) : appended'[g] # appended'[h]
                 PROVE  h + Window <= Len(appended')
        BY DEF AppendOK, First, AppendChat
    <2>1. u # t /\ pc[u] = "append"
        BY <1>o DEF HubInv, WorkOK, Others, AppendChat, Goto
    <2>2. CASE h \in 1..Len(appended)
        <3>1. appended[h] = item[u] /\ First(h)
            BY <1>a, <1>b, <2>2 DEF First
        <3>2. h + Window <= Len(appended)
            BY <2>1, <2>2, <3>1 DEF HubInv, AppendOK
        <3> QED
            BY <1>a, <1>b, <3>2, HubAssumptions
    <2>3. CASE h = Len(appended) + 1
        <3>1. item[u] = item[t]
            BY <1>a, <2>3
        <3>2. ~Logged(item[u])
            BY <1>a, <1>b, <2>3 DEF Logged
        <3> QED
            BY <1>a, <2>1, <3>1, <3>2 DEF HubInv, ItemOK, LoggedOK
    <2> QED
        BY <1>a, <1>b, <2>2, <2>3
<1>9. NoDuplicateChat'
    <2> SUFFICES ASSUME NEW i \in 1..Len(appended'), NEW j \in 1..Len(appended'), i < j,
                        appended'[i] = appended'[j], appended'[i] \notin repeats \cup Anon,
                        \A h \in 1..(i - 1) : appended'[h] # appended'[i]
                 PROVE  j - i > Window
        BY DEF NoDuplicateChat, AppendChat
    <2>1. i \in 1..Len(appended) /\ appended'[i] = appended[i] /\ First(i)
        BY <1>a, <1>b DEF First
    <2>2. CASE j \in 1..Len(appended)
        BY <1>a, <2>1, <2>2 DEF HubInv, NoDuplicateChat, First
    <2>3. CASE j = Len(appended) + 1
        <3>1. appended[i] = item[t]
            BY <1>a, <2>1, <2>3
        <3>2. i + Window <= Len(appended)
            BY <2>1, <3>1 DEF HubInv, AppendOK, AppendChat
        <3> QED
            BY <1>b, <2>1, <2>3, <3>2, HubAssumptions
    <2> QED
        BY <1>a, <1>b, <2>2, <2>3
<1> QED
    BY Undisturbed, <1>1, <1>2, <1>3, <1>4, <1>5, <1>6, <1>7, <1>8, <1>9 DEF HubInv,
       AppendChat

LEMMA NotifyChatSafe ==
    ASSUME HubInv, NEW t \in Threads, NotifyChat(t)
    PROVE  HubInv'
<1>o. Others(t)
    BY DEF HubInv, WorkOK, Others, NotifyChat, Notify, Goto
<1>1. WorkOK'
    <2>1. subs["chat"] \subseteq Pages
        BY DEF HubInv, PageOK, Channels
    <2> QED
        BY <2>1 DEF HubInv, WorkOK, Labels, Channels, Values, NotifyChat, Notify, Goto
<1>2. SendOK'
    BY <1>o, SendStays DEF HubInv, WorkOK, Sending, NotifyChat, Notify, Goto
<1>3. UpdatesReachPages'
    BY <1>o, ReachStays DEF HubInv, WorkOK, Carries, NotifyChat, Notify, Goto
<1>4. LoggedOK'
    <2>1. item'[t] = item[t] /\ Through(t) /\ item[t] \in Chats
        BY DEF HubInv, WorkOK, Through, NotifyChat
    <2>2. Logged(item[t])' = Logged(item[t])
        BY DEF Logged, NotifyChat
    <2> QED
        BY <1>o, <2>1, <2>2, LoggedStays DEF HubInv, LoggedOK, NotifyChat
<1>5. AppendOK'
    BY <1>o, AppendStays DEF HubInv, WorkOK, NotifyChat, Notify, Goto
<1> QED
    BY Undisturbed, <1>1, <1>2, <1>3, <1>4, <1>5 DEF HubInv, NotifyChat

LEMMA RecordEventSafe ==
    ASSUME HubInv, NEW t \in Threads, RecordEvent(t)
    PROVE  HubInv'
<1>o. Others(t)
    BY DEF HubInv, WorkOK, Others, RecordEvent, Notify, Goto
<1>a. /\ Latest \in Nat /\ Numbered = Latest + 1 /\ Latest' = Latest + 1
      /\ events' \in Seq(Nat) /\ Len(events') <= MaxEvents /\ NumbersOK'
    BY LatestIsLast, LatestGrows DEF RecordEvent
<1>b. /\ pc'[t] = "send" /\ note'[t] = [chan |-> "event", what |-> {Latest + 1}]
      /\ rest'[t] = subs["event"] /\ subs["event"] \subseteq Pages
    BY <1>a DEF HubInv, WorkOK, PageOK, Channels, RecordEvent, Notify, Goto
<1>1. LogOK'
    BY <1>a DEF HubInv, LogOK, RecordEvent
<1>2. WorkOK'
    BY <1>a, <1>b
    DEF HubInv, WorkOK, Labels, Channels, Values, RecordEvent, Notify, Goto
<1>3. NumbersOK'
    BY <1>a
<1>4. FeedOK'
    <2>1. \A p \in Pages : \A i \in 1..Len(feed[p]) : feed[p][i] \in Nat
        BY DEF HubInv, FeedOK
    <2> QED
        BY <1>a, <2>1 DEF HubInv, FeedOK, RecordEvent
<1>5. SendOK'
    <2>1. \A p \in Pages : ~Given(p, Latest + 1)
        BY <1>a DEF HubInv, FeedOK, Given
    <2>2. \A p \in subs["event"] : ppc[p][1] # "snapshot"
        BY <1>b DEF HubInv, PageOK, Channels
    <2>3. \A u \in Threads \ {t} : Sending(u, "event") => \E n \in 1..Latest : note[u].what = {n}
        BY DEF HubInv, SendOK
    <2>4. \A u \in Threads \ {t} : Sending(u, "event")' = Sending(u, "event")
        BY <1>o DEF Others, Sending
    <2> SUFFICES ASSUME NEW u \in Threads, Sending(u, "event")'
                 PROVE  /\ \E n \in 1..Latest' : note'[u].what = {n}
                        /\ \A p \in rest'[u] : /\ ppc'[p][1] # "snapshot"
                                               /\ \A n \in note'[u].what : ~Given(p, n)'
                        /\ \A v \in Threads \ {u} : Sending(v, "event")' =>
                              note'[v].what # note'[u].what
        BY DEF SendOK
    <2>5. \A p, n : Given(p, n)' = Given(p, n)
        BY DEF Given, RecordEvent
    <2>6. CASE u = t
        <3>1. \A v \in Threads \ {t} : Sending(v, "event")' => note'[v].what # {Latest + 1}
            BY <1>a, <1>o, <2>3, <2>4 DEF Others
        <3>2. /\ note'[u].what = {Latest + 1} /\ Latest + 1 \in 1..Latest'
              /\ rest'[u] = subs["event"] /\ ppc' = ppc
            BY <1>a, <1>b, <2>6 DEF RecordEvent
        <3> QED
            BY <1>b, <2>1, <2>2, <2>5, <2>6, <3>1, <3>2
    <2>7. CASE u # t
        <3>1. Sending(u, "event") /\ note'[u] = note[u] /\ rest'[u] = rest[u]
            BY <1>o, <2>4, <2>7 DEF Others
        <3>2. PICK n \in 1..Latest : note[u].what = {n}
            BY <3>1 DEF HubInv, SendOK
        <3>3. n \in 1..Latest' /\ n # Latest + 1
            BY <1>a, <3>2
        <3>4. \A v \in Threads \ {u} : Sending(v, "event")' => note'[v].what # note'[u].what
            <4> SUFFICES ASSUME NEW v \in Threads \ {u}, Sending(v, "event")'
                         PROVE  note'[v].what # note'[u].what
                OBVIOUS
            <4>1. CASE v = t
                BY <1>b, <3>1, <3>2, <3>3, <4>1
            <4>2. CASE v # t
                BY <1>o, <2>4, <3>1, <4>2 DEF HubInv, SendOK, Others
            <4> QED
                BY <4>1, <4>2
        <3>5. \A p \in rest[u] : ppc[p][1] # "snapshot" /\ \A m \in note[u].what : ~Given(p, m)
            BY <3>1 DEF HubInv, SendOK
        <3>6. ppc' = ppc
            BY DEF RecordEvent
        <3> QED
            BY <2>5, <3>1, <3>2, <3>3, <3>4, <3>5, <3>6
    <2> QED
        BY <2>6, <2>7
<1>6. OwedOK'
    <2>1. Numbered \in Values /\ "event" \in Channels /\ Owe("event", Numbered)
        BY <1>a DEF Values, Channels, RecordEvent
    <2> QED
        BY <2>1, OweKeepsOwed DEF HubInv, LogOK, RecordEvent
<1>7. UpdatesReachPages'
    <2>1. Latest + 1 \in Values /\ "event" \in Channels /\ Owe("event", Latest + 1)
        BY <1>a DEF Values, Channels, RecordEvent
    <2>2. \A p, k, x : ~Carries(t, p, k, x)
        BY DEF Carries, RecordEvent
    <2>3. \A p \in subs["event"], x \in {Latest + 1} : Carries(t, p, "event", x)'
        BY <1>b DEF Carries
    <2> QED
        BY <1>o, <2>1, <2>2, <2>3, OweReaches DEF RecordEvent
<1>8. LoggedOK'
    <2>1. item'[t] = item[t] /\ Through(t) /\ UNCHANGED <<known, appended, repeats>>
        BY DEF Through, RecordEvent
    <2>2. item[t] \in Chats => Logged(item[t])
        BY <2>1 DEF HubInv, LoggedOK
    <2>3. Logged(item[t])' = Logged(item[t])
        BY <2>1 DEF Logged
    <2> QED
        BY <1>o, <2>1, <2>2, <2>3, LoggedStays
<1>9. AppendOK'
    BY <1>o, AppendStays DEF HubInv, WorkOK, RecordEvent, Notify, Goto
<1> QED
    BY Undisturbed, <1>1, <1>2, <1>3, <1>4, <1>5, <1>6, <1>7, <1>8, <1>9 DEF HubInv,
       RecordEvent

LEMMA SendSafe ==
    ASSUME HubInv, NEW t \in Threads, NEW p \in Pages, Send(t, p)
    PROVE  HubInv'
<1>o. Others(t)
    BY DEF HubInv, WorkOK, Others, Send
<1>a. /\ note[t].chan \in Channels /\ note[t].what \subseteq Values
      /\ pc[t] = "send" /\ p \in rest[t]
      /\ UNCHANGED <<pc, note, item, ppc, subs, nodes, events, missed, shut>>
      /\ rest' = [rest EXCEPT ![t] = @ \ {p}]
    BY DEF HubInv, WorkOK, Send
<1>b. /\ owed' \in [Pages -> [Channels -> SUBSET Values]]
      /\ \A q \in Pages, k \in Channels : owed'[q][k] = IF q = p /\ k = note[t].chan
            THEN owed[q][k] \ note[t].what ELSE owed[q][k]
    <2>1. owed \in [Pages -> [Channels -> SUBSET Values]]
        BY DEF HubInv, OwedOK
    <2>2. owed' = [owed EXCEPT ![p][note[t].chan] = @ \ note[t].what]
        BY DEF Send, Put, Skip, Paid
    <2>3. owed' = [owed EXCEPT ![p] = [owed[p] EXCEPT ![note[t].chan] = @ \ note[t].what]]
        BY <2>2
    <2> QED
        BY <1>a, <2>1, <2>3
<1>c. \/ feed' = feed
      \/ \E n \in 1..Latest : /\ Sending(t, "event") /\ note[t].what = {n} /\ ~Given(p, n)
                              /\ feed' = [feed EXCEPT ![p] = @ \o <<n>>]
    <2>1. CASE Skip(t, p) \/ note[t].chan # "event"
        BY <2>1 DEF HubInv, FeedOK, Send, Put, Skip
    <2>2. CASE Put(t, p) /\ note[t].chan = "event"
        <3>1. PICK n \in 1..Latest : note[t].what = {n}
            BY <1>a, <2>2 DEF HubInv, SendOK, Sending
        <3>2. ~Given(p, n)
            BY <1>a, <2>2, <3>1 DEF HubInv, SendOK, Sending
        <3>3. feed' = [feed EXCEPT ![p] = @ \o SetToSeq({n})]
            BY <2>2, <3>1 DEF Put
        <3>4. SetToSeq({n}) = <<n>>
            BY OneElementSequence
        <3> QED
            BY <1>a, <2>2, <3>1, <3>2, <3>3, <3>4 DEF Sending
    <2> QED
        BY <2>1, <2>2 DEF Send
<1>d. ASSUME NEW n \in 1..Latest, feed' = [feed EXCEPT ![p] = @ \o <<n>>]
      PROVE  /\ feed' \in [Pages -> Seq(Nat)] /\ Len(feed'[p]) = Len(feed[p]) + 1
             /\ feed'[p][Len(feed[p]) + 1] = n
             /\ \A i \in 1..Len(feed[p]) : feed'[p][i] = feed[p][i]
             /\ \A q \in Pages \ {p} : feed'[q] = feed[q]
    <2>1. feed \in [Pages -> Seq(Nat)] /\ n \in Nat
        BY LatestIsLast DEF HubInv, FeedOK
    <2>2. feed'[p] = feed[p] \o <<n>> /\ \A q \in Pages \ {p} : feed'[q] = feed[q]
        BY <1>d, <2>1
    <2>3. feed[p] \o <<n>> \in Seq(Nat) /\ Len(feed[p] \o <<n>>) = Len(feed[p]) + 1
        BY <2>1
    <2>4. /\ (feed[p] \o <<n>>)[Len(feed[p]) + 1] = n
          /\ \A i \in 1..Len(feed[p]) : (feed[p] \o <<n>>)[i] = feed[p][i]
        BY <2>1
    <2>5. feed' \in [Pages -> Seq(Nat)]
        BY <1>d, <2>1, <2>3
    <2> QED
        BY <2>2, <2>3, <2>4, <2>5
<1>1. WorkOK'
    BY DEF HubInv, WorkOK, LogOK, Labels, Channels, Values, Send
<1>2. QueueOK'
    <2>1. CASE Skip(t, p)
        BY <2>1, Undisturbed DEF Skip
    <2>2. CASE Put(t, p)
        <3>1. queue \in [Pages -> [Channels -> Seq(SUBSET Values)]]
            BY DEF HubInv, QueueOK
        <3>2. queue' = [queue EXCEPT ![p] =
                  [queue[p] EXCEPT ![note[t].chan] = Append(@, note[t].what)]]
            BY <2>2 DEF Put
        <3>3. /\ Append(queue[p][note[t].chan], note[t].what) \in Seq(SUBSET Values)
              /\ Len(Append(queue[p][note[t].chan], note[t].what)) <= Buffer
            BY <1>a, <2>2, <3>1, HubAssumptions DEF Put, HasRoom
        <3>4. queue' \in [Pages -> [Channels -> Seq(SUBSET Values)]]
            BY <1>a, <3>1, <3>2, <3>3
        <3>5. \A q \in Pages, k \in Channels : queue'[q][k] =
                 IF q = p /\ k = note[t].chan
                 THEN Append(queue[p][note[t].chan], note[t].what) ELSE queue[q][k]
            BY <1>a, <3>1, <3>2
        <3> QED
            BY <3>3, <3>4, <3>5 DEF HubInv, QueueOK
    <2> QED
        BY <2>1, <2>2 DEF Send
<1>3. FeedOK'
    <2>1. CASE feed' = feed
        BY <1>a, <2>1, Undisturbed
    <2>2. ASSUME NEW n \in 1..Latest, ~Given(p, n), feed' = [feed EXCEPT ![p] = @ \o <<n>>]
          PROVE  FeedOK'
        <3> SUFFICES ASSUME NEW q \in Pages
                     PROVE  /\ IsInjective(feed'[q])
                            /\ \A i \in 1..Len(feed'[q]) : feed'[q][i] <= Latest
            BY <1>a, <1>d, <2>2 DEF FeedOK, Latest
        <3>1. CASE q # p
            BY <1>d, <2>2, <3>1 DEF HubInv, FeedOK
        <3>2. CASE q = p
            <4>1. feed[p] \in Seq(Nat) /\ feed'[p] \in Seq(Nat) /\ Len(feed[p]) \in Nat
                BY <1>d, <2>2 DEF HubInv, FeedOK
            <4>2. ASSUME NEW i \in 1..Len(feed'[p]), NEW j \in 1..Len(feed'[p]),
                         feed'[p][i] = feed'[p][j]
                  PROVE  i = j
                <5>1. \A m \in 1..Len(feed[p]) : feed'[p][m] # n
                    BY <1>d, <2>2 DEF Given
                <5>2. CASE i \in 1..Len(feed[p]) /\ j \in 1..Len(feed[p])
                    <6>1. feed[p][i] = feed[p][j]
                        BY <1>d, <2>2, <4>2, <5>2
                    <6> QED
                        BY <4>1, <5>2, <6>1 DEF HubInv, FeedOK, IsInjective
                <5>3. CASE ~(i \in 1..Len(feed[p]) /\ j \in 1..Len(feed[p]))
                    BY <1>d, <2>2, <4>1, <4>2, <5>1, <5>3
                <5> QED
                    BY <5>2, <5>3
            <4>3. DOMAIN feed'[p] = 1..Len(feed'[p])
                BY <4>1
            <4>4. IsInjective(feed'[p])
                BY <4>2, <4>3 DEF IsInjective
            <4>5. ASSUME NEW i \in 1..Len(feed'[p]) PROVE feed'[p][i] <= Latest
                <5>1. CASE i \in 1..Len(feed[p])
                    BY <1>d, <2>2, <5>1 DEF HubInv, FeedOK
                <5>2. CASE i = Len(feed[p]) + 1
                    BY <1>d, <2>2, <5>2
                <5> QED
                    BY <1>d, <2>2, <4>1, <5>1, <5>2
            <4> QED
                BY <3>2, <4>4, <4>5
        <3> QED
            BY <3>1, <3>2
    <2> QED
        BY <1>c, <2>1, <2>2
<1>4. SendOK'
    <2>1. \A u \in Threads : rest'[u] \subseteq rest[u] /\ (u = t => p \notin rest'[u])
        BY <1>a DEF HubInv, WorkOK
    <2>2. \A u \in Threads : Sending(u, "event")' = Sending(u, "event")
        BY <1>a DEF Sending
    <2>3. Latest' = Latest
        BY <1>a DEF Latest
    <2>4. CASE feed' = feed
        <3>1. \A q, n : Given(q, n)' = Given(q, n)
            BY <2>4 DEF Given
        <3> QED
            BY <1>a, <2>1, <2>2, <2>3, <3>1 DEF HubInv, SendOK
    <2>5. ASSUME NEW n \in 1..Latest, Sending(t, "event"), note[t].what = {n},
                 feed' = [feed EXCEPT ![p] = @ \o <<n>>]
          PROVE  SendOK'
        <3>1. ASSUME NEW q \in Pages, NEW m, Given(q, m)' PROVE Given(q, m) \/ (q = p /\ m = n)
            <4>1. Len(feed[q]) \in Nat
                BY DEF HubInv, FeedOK
            <4> QED
                BY <1>d, <2>5, <3>1, <4>1 DEF Given
        <3>2. ASSUME NEW u \in Threads, Sending(u, "event"), NEW q \in rest'[u],
                     NEW m \in note[u].what
              PROVE  ~Given(q, m)'
            <4>1. q \in Pages /\ q \in rest[u] /\ ~Given(q, m)
                BY <2>1, <3>2 DEF HubInv, WorkOK, SendOK
            <4>2. ~(q = p /\ m = n)
                BY <2>1, <2>5, <3>2 DEF HubInv, SendOK
            <4> QED
                BY <3>1, <4>1, <4>2
        <3> QED
            BY <1>a, <2>1, <2>2, <2>3, <3>2 DEF HubInv, SendOK
    <2> QED
        BY <1>c, <2>4, <2>5
<1>5. OwedOK'
    BY <1>a, <1>b, PayingKeepsOwed
<1>6. UpdatesReachPages'
    <2>1. \A q \in Pages, k \in Channels : \A x \in owed'[q][k] :
             Carries(t, q, k, x) => Carries(t, q, k, x)'
        BY <1>a, <1>b DEF HubInv, WorkOK, Carries
    <2> QED
        BY <1>a, <1>b, <1>o, <2>1, PayingReaches
<1> QED
    BY Undisturbed, <1>1, <1>2, <1>3, <1>4, <1>5, <1>6 DEF HubInv, Send

LEMMA SendPanicsSafe ==
    ASSUME HubInv, NEW t \in Threads, NEW p \in Pages, SendPanics(t, p)
    PROVE  HubInv'
<1>o. Others(t)
    BY DEF HubInv, WorkOK, Others, SendPanics, Leave, Goto
<1>a. /\ note[t].chan \in Channels /\ note[t].what \subseteq Values /\ rest[t] \subseteq Pages
      /\ missed \in [Pages -> [Channels -> SUBSET Values]]
      /\ missed' = [q \in Pages |-> IF q \in rest[t]
                THEN [missed[q] EXCEPT ![note[t].chan] = @ \cup note[t].what] ELSE missed[q]]
      /\ UNCHANGED <<owed, subs, shut, ppc, nodes, known, begun, appended, repeats>>
    BY DEF HubInv, WorkOK, OwedOK, SendPanics
<1>b. ASSUME NEW q \in Pages
      PROVE  /\ missed'[q] \in [Channels -> SUBSET Values]
             /\ \A k \in Channels : missed'[q][k] = IF q \in rest[t] /\ k = note[t].chan
                   THEN missed[q][k] \cup note[t].what ELSE missed[q][k]
    <2>1. missed[q] \in [Channels -> SUBSET Values]
        BY <1>a
    <2>2. CASE q \in rest[t]
        BY <1>a, <2>1, <2>2
    <2>3. CASE q \notin rest[t]
        BY <1>a, <2>1, <2>3
    <2> QED
        BY <2>2, <2>3
<1>c. /\ pc'[t] = "idle" /\ item'[t] = Nil /\ role'[t] = "broker"
      /\ \A u \in Threads \ {t} : item'[u] = item[u] /\ role'[u] = role[u]
    BY DEF HubInv, WorkOK, SendPanics, Leave, Goto
<1>1. WorkOK'
    BY DEF HubInv, WorkOK, Labels, Roles, Channels, SendPanics, Leave, Goto, Nothing
<1>2. SendOK'
    BY <1>o, <1>c, SendStays DEF Sending, SendPanics
<1>3. OwedOK'
    <2>1. missed' \in [Pages -> [Channels -> SUBSET Values]]
        BY <1>a, <1>b
    <2> QED
        BY <1>a, <2>1 DEF HubInv, OwedOK
<1>4. UpdatesReachPages'
    <2> SUFFICES ASSUME NEW k \in Channels, NEW q \in subs[k], NEW x \in owed[q][k]
                 PROVE  Pending(q, k, x)' \/ Lost(q, k, x)'
        BY <1>a DEF UpdatesReachPages
    <2>0. q \in Pages
        BY DEF HubInv, PageOK
    <2>1. CASE Pending(q, k, x) /\ ~Carries(t, q, k, x)
        BY <1>o, <2>1, PendingStays
    <2>2. CASE Carries(t, q, k, x)
        <3>1. k = note[t].chan /\ q \in rest[t] /\ x \in note[t].what /\ <<p, k>> \in shut
            BY <2>2 DEF Carries, SendPanics
        <3>2. p # q
            BY <3>1 DEF HubInv, PageOK
        <3>3. x \in missed'[q][k]
            BY <1>b, <2>0, <3>1
        <3> QED
            BY <1>a, <3>1, <3>2, <3>3 DEF Lost
    <2>3. CASE Lost(q, k, x)
        <3>1. x \in missed'[q][k]
            BY <1>b, <2>0, <2>3 DEF Lost
        <3> QED
            BY <1>a, <2>3, <3>1 DEF Lost
    <2> QED
        BY <2>1, <2>2, <2>3 DEF HubInv, UpdatesReachPages
<1>5. ItemOK'
    BY <1>a, <1>c, HubAssumptions DEF HubInv, ItemOK
<1>6. LoggedOK'
    BY <1>a, <1>c, <1>o, LoggedStays, HubAssumptions
<1>7. AppendOK'
    BY <1>a, <1>c, <1>o, AppendStays
<1> QED
    BY Undisturbed, <1>1, <1>2, <1>3, <1>4, <1>5, <1>6, <1>7 DEF HubInv, SendPanics

LEMMA SendDoneSafe ==
    ASSUME HubInv, NEW t \in Threads, SendDone(t)
    PROVE  HubInv'
<1>o. Others(t)
    BY DEF HubInv, WorkOK, Others, SendDone, Goto, AfterChat, Nothing
<1>1. WorkOK'
    BY DEF HubInv, WorkOK, LogOK, Labels, Channels, Values, SendDone, Goto, AfterChat,
       Nothing
<1>2. SendOK'
    BY <1>o, SendStays DEF HubInv, WorkOK, Sending, SendDone, Goto, AfterChat, Nothing
<1>3. UpdatesReachPages'
    BY <1>o, ReachStays DEF HubInv, WorkOK, Carries, SendDone, Goto, AfterChat, Nothing
<1>4. LoggedOK'
    <2>1. item'[t] = item[t] /\ UNCHANGED <<known, appended, repeats>>
        BY DEF SendDone
    <2>2. CASE note[t].chan = "node"
        <3>1. item[t] \in Chats => pc'[t] = "proto"
            BY <2>2, HubAssumptions DEF HubInv, WorkOK, SendDone, Goto
        <3> QED
            BY <1>o, <2>1, <3>1, LoggedStays DEF Through, Sending
    <2>3. CASE note[t].chan # "node"
        <3>1. Through(t)
            BY <2>3 DEF HubInv, WorkOK, Channels, Through, Sending, SendDone
        <3>2. item[t] \in Chats => Logged(item[t])
            BY <3>1 DEF HubInv, LoggedOK
        <3>3. Logged(item[t])' = Logged(item[t])
            BY <2>1 DEF Logged
        <3> QED
            BY <1>o, <2>1, <3>2, <3>3, LoggedStays
    <2> QED
        BY <2>2, <2>3
<1>5. AppendOK'
    BY <1>o, AppendStays DEF HubInv, WorkOK, SendDone, Goto, AfterChat, Nothing
<1> QED
    BY Undisturbed, <1>1, <1>2, <1>3, <1>4, <1>5 DEF HubInv, SendDone

LEMMA FinishSafe ==
    ASSUME HubInv, NEW t \in Threads, Finish(t)
    PROVE  HubInv'
<1>o. Others(t)
    BY DEF HubInv, WorkOK, Others, Finish, Leave, Goto, Nothing
<1>1. WorkOK'
    BY DEF HubInv, WorkOK, LogOK, Labels, Roles, Channels, Values, Finish, Leave, Goto, Nothing
<1>2. SendOK'
    BY <1>o, SendStays DEF HubInv, WorkOK, Sending, Finish, Leave, Goto, Nothing
<1>3. UpdatesReachPages'
    BY <1>o, ReachStays DEF HubInv, WorkOK, Carries, Finish, Leave, Goto, Nothing
<1>4. ItemOK'
    BY HubAssumptions DEF HubInv, ItemOK, WorkOK, Finish, Leave, Goto, Nothing
<1>5. LoggedOK'
    <2>1. /\ Through(t) /\ UNCHANGED <<appended, repeats>>
          /\ known' \cap Chats \subseteq known \cup ({item[t]} \cap Chats)
        BY DEF Through, Finish
    <2>2. \A i : Logged(i)' = Logged(i)
        BY <2>1 DEF Logged
    <2>3. \A i \in known' \cap Chats : Logged(i)
        BY <2>1 DEF HubInv, LoggedOK
    <2>4. ~Through(t)' /\ \A u \in Threads \ {t} : Through(u)' = Through(u)
        BY <1>o DEF HubInv, WorkOK, Others, Through, Sending, Finish, Leave, Goto
    <2>5. ASSUME NEW u \in Threads, item'[u] \in Chats, Through(u)' PROVE Logged(item[u])'
        <3>1. u # t /\ item'[u] = item[u] /\ Logged(item[u])
            BY <1>o, <2>4, <2>5 DEF HubInv, LoggedOK, Others
        <3> QED
            BY <2>1, <3>1 DEF Logged
    <2> QED
        BY <2>2, <2>3, <2>5 DEF LoggedOK
<1>6. AppendOK'
    BY <1>o, AppendStays DEF HubInv, WorkOK, Finish, Leave, Goto, Nothing
<1> QED
    BY Undisturbed, <1>1, <1>2, <1>3, <1>4, <1>5, <1>6 DEF HubInv, Finish

LEMMA SnapshotSafe ==
    ASSUME HubInv, NEW p \in Pages, Snapshot(p)
    PROVE  HubInv'
<1>1. PageOK'
    BY DEF HubInv, PageOK, Stages, Steps, Channels, Snapshot
<1>2. FeedOK'
    <2>1. /\ feed' = [feed EXCEPT ![p] = events] /\ UNCHANGED events /\ events \in Seq(Nat)
          /\ IsInjective(events) /\ \A i \in 1..Len(events) : events[i] <= Latest
        <3>1. \A i, j \in 1..Len(events) : events[i] = events[j] => i = j
            BY DEF HubInv, LogOK, NumbersOK
        <3> QED
            BY <3>1, LatestIsLast DEF HubInv, LogOK, IsInjective, Snapshot
    <2> QED
        BY <2>1 DEF HubInv, FeedOK, Latest
<1>3. SendOK'
    BY DEF HubInv, SendOK, PageOK, Sending, Given, Latest, Snapshot
<1>4. OwedOK'
    BY DEF HubInv, OwedOK, LogOK, PageOK, Values, Channels, Snapshot
<1> QED
    BY Undisturbed, <1>1, <1>2, <1>3, <1>4 DEF HubInv, Snapshot

LEMMA SubscribeSafe ==
    ASSUME HubInv, NEW p \in Pages, Subscribe(p)
    PROVE  HubInv'
<1>1. PageOK'
    BY DEF HubInv, PageOK, Stages, Steps, Channels, Subscribe
<1>2. SendOK'
    BY DEF HubInv, SendOK, PageOK, Sending, Given, Latest, Subscribe
<1>3. OwedOK'
    BY DEF HubInv, OwedOK, LogOK, PageOK, Values, Channels, Subscribe
<1>4. UpdatesReachPages'
    <2>1. PICK n \in 1..3 : /\ ppc[p] = <<"subscribe", n>>
                            /\ subs' = [subs EXCEPT ![Steps[n]] = @ \cup {p}]
        BY DEF Subscribe
    <2>2. \A k \in Channels : \A q \in subs'[k] : q \in subs[k] \/ (q = p /\ owed[q][k] = {})
        BY <2>1 DEF HubInv, PageOK, OwedOK, Steps, Channels
    <2> QED
        BY <2>2 DEF HubInv, UpdatesReachPages, Pending, Lost, Subscribe
<1> QED
    BY Undisturbed, <1>1, <1>2, <1>3, <1>4 DEF HubInv, Subscribe

LEMMA ReceiveSafe ==
    ASSUME HubInv, NEW p \in Pages, Receive(p)
    PROVE  HubInv'
<1>1. QueueOK'
    BY HubAssumptions DEF HubInv, QueueOK, WorkOK, Receive
<1> QED
    BY Undisturbed, <1>1 DEF HubInv, Receive

LEMMA PageLeavesSafe ==
    ASSUME HubInv, NEW p \in Pages, PageLeaves(p)
    PROVE  HubInv'
<1>1. PageOK'
    BY DEF HubInv, PageOK, Stages, Steps, Channels, PageLeaves
<1>2. SendOK'
    BY DEF HubInv, SendOK, PageOK, Sending, Given, Latest, PageLeaves
<1>3. OwedOK'
    BY DEF HubInv, OwedOK, LogOK, PageOK, Values, Channels, PageLeaves
<1> QED
    BY Undisturbed, <1>1, <1>2, <1>3 DEF HubInv, PageLeaves

LEMMA UnsubscribeSafe ==
    ASSUME HubInv, NEW p \in Pages, Unsubscribe(p)
    PROVE  HubInv'
<1>1. PageOK'
    BY DEF HubInv, PageOK, Stages, Steps, Channels, Unsubscribe
<1>2. SendOK'
    BY DEF HubInv, SendOK, PageOK, Sending, Given, Latest, Unsubscribe
<1>3. OwedOK'
    BY DEF HubInv, OwedOK, LogOK, PageOK, Values, Channels, Unsubscribe
<1>4. UpdatesReachPages'
    <2>1. \A k \in Channels : subs'[k] \subseteq subs[k]
        BY DEF HubInv, PageOK, Channels, Unsubscribe
    <2> QED
        BY <2>1 DEF HubInv, UpdatesReachPages, Pending, Lost, Unsubscribe
<1> QED
    BY Undisturbed, <1>1, <1>2, <1>3, <1>4 DEF HubInv, Unsubscribe

LEMMA CloseChannelSafe ==
    ASSUME HubInv, NEW p \in Pages, CloseChannel(p)
    PROVE  HubInv'
<1>1. PageOK'
    BY DEF HubInv, PageOK, Stages, Steps, Channels, CloseChannel
<1>2. SendOK'
    BY DEF HubInv, SendOK, PageOK, Sending, Given, Latest, CloseChannel
<1>3. OwedOK'
    BY DEF HubInv, OwedOK, LogOK, PageOK, Values, Channels, CloseChannel
<1>4. UpdatesReachPages'
    <2>1. shut \subseteq shut' /\ UNCHANGED <<subs, owed, missed, pc, rest, note, item>>
        BY DEF CloseChannel
    <2> QED
        BY <2>1 DEF HubInv, UpdatesReachPages, Pending, Lost
<1> QED
    BY Undisturbed, <1>1, <1>2, <1>3, <1>4 DEF HubInv, CloseChannel

-----------------------------------------------------------------------------
(* The theorems *)

LEMMA InitSafe == Init => HubInv
<1> SUFFICES ASSUME Init PROVE HubInv
    OBVIOUS
<1>1. LogOK /\ QueueOK /\ NumbersOK /\ FeedOK /\ ChatOK
    BY HubAssumptions DEF Init, LogOK, QueueOK, NumbersOK, FeedOK, ChatOK, IsInjective
<1>2. ProtoOK
    BY FS_EmptySet, HubAssumptions DEF Init, ProtoOK
<1>3. WorkOK
    BY DEF Init, WorkOK, Labels, Roles, Channels, Nothing
<1>4. PageOK
    BY HubAssumptions DEF Init, PageOK, Stages, Channels
<1>5. SendOK /\ OwedOK /\ UpdatesReachPages
    BY DEF Init, SendOK, Sending, OwedOK, UpdatesReachPages, Channels
<1>6. ItemOK /\ LoggedOK
    BY HubAssumptions DEF Init, ItemOK, LoggedOK, Through, Sending
<1>7. AppendOK /\ NoDuplicateChat
    BY DEF Init, AppendOK, NoDuplicateChat
<1> QED
    BY <1>1, <1>2, <1>3, <1>4, <1>5, <1>6, <1>7 DEF HubInv

LEMMA NextSafe == HubInv /\ [Next]_vars => HubInv'
<1> SUFFICES ASSUME HubInv, [Next]_vars PROVE HubInv'
    OBVIOUS
<1>1. ASSUME NEW t \in Threads,
             \/ \E r \in {"broker", "http"} :
                   \/ \E i \in Packets \cup {"node", "other"} : Observe(t, i, r)
                   \/ SetStatus(t, r)
             \/ \E i \in Chats : SendChat(t, i)
             \/ Work(t)
      PROVE  HubInv'
    BY <1>1, ObserveSafe, SetStatusSafe, SendChatSafe, TouchNodeSafe, NotifyNodesSafe,
       NodeSubsSafe, CacheProtoSafe, CheckDuplicateSafe, AppendChatSafe, NotifyChatSafe,
       RecordEventSafe, SendSafe, SendPanicsSafe, SendDoneSafe, FinishSafe
    DEF Work
<1>2. ASSUME NEW p \in Pages,
             \/ Snapshot(p) \/ Subscribe(p) \/ Receive(p)
             \/ PageLeaves(p) \/ Unsubscribe(p) \/ CloseChannel(p)
      PROVE  HubInv'
    BY <1>2, SnapshotSafe, SubscribeSafe, ReceiveSafe, PageLeavesSafe, UnsubscribeSafe,
       CloseChannelSafe
<1>3. CASE UNCHANGED vars
    BY <1>3, Undisturbed DEF HubInv, vars
<1> QED
    BY <1>1, <1>2, <1>3 DEF Next

LEMMA Invariance == Spec => []HubInv
BY InitSafe, NextSafe, PTL DEF Spec

\* The logs, the cache of packet texts and every subscriber's channel stay within
\* their limits, and a closed channel has left the registry, whatever the limits are.
THEOREM HubTypeCorrect == Spec => []HubTypeOK
<1>1. HubInv => HubTypeOK
    BY DEF HubInv, LogOK, ProtoOK, WorkOK, PageOK, QueueOK, HubTypeOK
<1> QED
    BY <1>1, Invariance, PTL

\* Nobody who was subscribed when something was logged is left out, for any number of
\* goroutines that log and send at the same time.
THEOREM UpdatesCorrect == Spec => []UpdatesReachPages
<1>1. HubInv => UpdatesReachPages
    BY DEF HubInv
<1> QED
    BY <1>1, Invariance, PTL

\* No page is given an event twice, in its snapshot and live or live twice.
THEOREM EventsOnceCorrect == Spec => []EventsOnce
<1>1. HubInv => EventsOnce
    BY DEF HubInv, FeedOK, EventsOnce
<1> QED
    BY <1>1, Invariance, PTL

\* A message is not logged again within the window after its first entry, for every
\* window that the chat log is at least as long as.
THEOREM NoDuplicateCorrect == Spec => []NoDuplicateChat
<1>1. HubInv => NoDuplicateChat
    BY DEF HubInv
<1> QED
    BY <1>1, Invariance, PTL

-----------------------------------------------------------------------------
(* A goroutine in the hub can always go on *)

\* Whoever updates the list of nodes does so for a packet, a node or a status, and
\* goes on accordingly once the pages have it.
NodeItemOK == \A t \in Threads :
    pc[t] \in {"node", "notifynodes", "nodesubs"} \/ Sending(t, "node") =>
        item[t] \in Packets \cup {"node", "status"}

\* What t may do next.  It gives every variable one value, so nothing that others do or
\* leave undone can stand in its way.
Addressee(t) == CHOOSE p \in rest[t] : TRUE
Panics(t) == pc[t] = "send" /\ rest[t] # {} /\ <<Addressee(t), note[t].chan>> \in shut
Sends(t) == pc[t] = "send" /\ rest[t] # {} /\ ~Panics(t)
Leaves(t) == pc[t] = "finish" \/ Panics(t)
Kept(all) == IF Cardinality(all) <= MaxProtos THEN all
             ELSE CHOOSE keep \in SUBSET all : Cardinality(keep) = MaxProtos \div 2
AfterSend(t) ==
    IF note[t].chan = "chat" THEN AfterChat(t)
    ELSE IF note[t].chan = "event" \/ item[t] = "status" THEN "finish"
    ELSE IF item[t] = "node" THEN "record" ELSE "proto"
Follows(t) == CASE pc[t] = "node"        -> "notifynodes"
                [] pc[t] = "notifynodes" -> "nodesubs"
                [] pc[t] = "nodesubs"    -> "send"
                [] pc[t] = "proto"       -> AfterProto(t)
                [] pc[t] = "check"       -> IF SamePacket(item[t]) THEN AfterChat(t) ELSE "append"
                [] pc[t] = "append"      -> "notifychat"
                [] pc[t] = "notifychat"  -> "send"
                [] pc[t] = "record"      -> "send"
                [] pc[t] = "send"        -> AfterSend(t)
                [] pc[t] = "finish"      -> "idle"
NoteNext(t) == CASE pc[t] = "notifynodes" -> [chan |-> "node", what |-> 1..nodes]
                 [] pc[t] = "nodesubs"    -> [chan |-> "node", what |-> note[t].what]
                 [] pc[t] = "notifychat"  -> [chan |-> "chat", what |-> {item[t]}]
                 [] pc[t] = "record"      -> [chan |-> "event", what |-> {Numbered}]
                 [] OTHER                 -> Nothing
OwedBy(k, v) == [p \in Pages |->
    IF p \in subs[k] THEN [owed[p] EXCEPT ![k] = @ \cup {v}] ELSE owed[p]]
Forgiven(k, v) == [p \in Pages |->
    IF p \in subs[k] THEN [missed[p] EXCEPT ![k] = @ \ {v}] ELSE missed[p]]

GoesOn(t) ==
    /\ events' = IF pc[t] = "record" THEN LastN(Append(events, Numbered), MaxEvents) ELSE events
    /\ chats' = IF pc[t] = "append" THEN LastN(Append(chats, item[t]), MaxChat) ELSE chats
    /\ appended' = IF pc[t] = "append" THEN Append(appended, item[t]) ELSE appended
    /\ protos' = IF pc[t] = "proto" THEN Kept(protos \cup ({item[t]} \ Anon)) ELSE protos
    /\ nodes' = IF pc[t] = "node" THEN nodes + 1 ELSE nodes
    /\ pc' = IF Sends(t) THEN pc
             ELSE [pc EXCEPT ![t] = IF Panics(t) THEN "idle" ELSE Follows(t)]
    /\ item' = IF Leaves(t) THEN [item EXCEPT ![t] = Nil] ELSE item
    /\ role' = IF Leaves(t) THEN [role EXCEPT ![t] = "broker"] ELSE role
    /\ note' = IF \/ pc[t] \in {"notifynodes", "nodesubs", "notifychat", "record"} \/ Leaves(t)
                  \/ pc[t] = "send" /\ rest[t] = {}
                 THEN [note EXCEPT ![t] = NoteNext(t)] ELSE note
    /\ rest' = CASE pc[t] = "nodesubs"   -> [rest EXCEPT ![t] = subs["node"]]
                 [] pc[t] = "notifychat" -> [rest EXCEPT ![t] = subs["chat"]]
                 [] pc[t] = "record"     -> [rest EXCEPT ![t] = subs["event"]]
                 [] Sends(t)             -> [rest EXCEPT ![t] = @ \ {Addressee(t)}]
                 [] Panics(t)            -> [rest EXCEPT ![t] = {}]
                 [] OTHER                -> rest
    /\ queue' = IF Sends(t) /\ HasRoom(Addressee(t), note[t].chan)
                  THEN [queue EXCEPT ![Addressee(t)][note[t].chan] = Append(@, note[t].what)]
                  ELSE queue
    /\ feed' = IF Sends(t) /\ HasRoom(Addressee(t), note[t].chan)
                 THEN [feed EXCEPT ![Addressee(t)] =
                          IF note[t].chan = "event" THEN @ \o SetToSeq(note[t].what) ELSE @]
                 ELSE feed
    /\ owed' = CASE pc[t] = "node"   -> OwedBy("node", nodes + 1)
                 [] pc[t] = "append" -> OwedBy("chat", item[t])
                 [] pc[t] = "record" -> OwedBy("event", Numbered)
                 [] Sends(t)  -> [owed EXCEPT ![Addressee(t)][note[t].chan] = @ \ note[t].what]
                 [] OTHER -> owed
    /\ missed' = CASE pc[t] = "node"   -> Forgiven("node", nodes + 1)
                   [] pc[t] = "append" -> Forgiven("chat", item[t])
                   [] pc[t] = "record" -> Forgiven("event", Numbered)
                   [] Panics(t) -> [q \in Pages |-> IF q \in rest[t]
                        THEN [missed[q] EXCEPT ![note[t].chan] = @ \cup note[t].what]
                        ELSE missed[q]]
                   [] OTHER -> missed
    /\ known' = IF pc[t] = "finish" THEN known \cup ({item[t]} \cap Chats) ELSE known
    /\ posting' = IF Panics(t) THEN posting \ {item[t]} ELSE posting
    /\ crashed' = IF Panics(t) THEN role[t] = "broker" ELSE crashed
    /\ UNCHANGED <<repeats, subs, shut, ppc, shown, begun>>

LEMMA NextNodeItem ==
    ASSUME HubInv, NodeItemOK, [Next]_vars PROVE NodeItemOK'
<1>0. WorkOK
    BY DEF HubInv
<1>1. CASE UNCHANGED workVars
    BY <1>1 DEF NodeItemOK, Sending
<1>2. ASSUME NEW t \in Threads, NEW l \in Labels, Goto(t, l),
             UNCHANGED item, \A u \in Threads \ {t} : note'[u] = note[u],
             \/ l \in {"proto", "check", "append", "notifychat", "record", "finish"}
             \/ l \in {"notifynodes", "nodesubs"} /\ pc[t] \in {"node", "notifynodes"}
             \/ l = "send" /\ (pc[t] = "nodesubs" \/ note'[t].chan # "node")
      PROVE  NodeItemOK'
    BY <1>0, <1>2 DEF WorkOK, NodeItemOK, Sending, Goto
<1>3. ASSUME NEW t \in Threads, NEW i \in Packets \cup {"node", "other"},
             NEW r \in {"broker", "http"}, Observe(t, i, r)
      PROVE  NodeItemOK'
    BY <1>0, <1>3, HubAssumptions DEF WorkOK, NodeItemOK, Sending, Goto, Observe
<1>4. ASSUME NEW t \in Threads, NEW r \in {"broker", "http"}, SetStatus(t, r) PROVE NodeItemOK'
    BY <1>0, <1>4 DEF WorkOK, NodeItemOK, Sending, Goto, SetStatus
<1>5. ASSUME NEW t \in Threads, NEW i \in Chats, SendChat(t, i) PROVE NodeItemOK'
    BY <1>0, <1>5 DEF WorkOK, NodeItemOK, Sending, Goto, SendChat
<1>6. ASSUME NEW t \in Threads, Work(t) PROVE NodeItemOK'
    <2>1. CASE TouchNode(t)
        BY <1>2, <2>1 DEF TouchNode, Labels
    <2>2. CASE NotifyNodes(t)
        BY <1>0, <1>2, <2>2 DEF NotifyNodes, Labels, WorkOK
    <2>3. CASE NodeSubs(t)
        BY <1>0, <1>2, <2>3 DEF NodeSubs, Notify, Labels, WorkOK
    <2>4. CASE CacheProto(t)
        BY <1>2, <2>4 DEF CacheProto, AfterProto, Labels
    <2>5. CASE CheckDuplicate(t)
        BY <1>2, <2>5 DEF CheckDuplicate, AfterChat, Labels
    <2>6. CASE AppendChat(t)
        BY <1>2, <2>6 DEF AppendChat, Labels
    <2>7. CASE NotifyChat(t) \/ RecordEvent(t)
        BY <1>0, <1>2, <2>7 DEF NotifyChat, RecordEvent, Notify, Labels, WorkOK
    <2>8. ASSUME NEW p \in Pages, Send(t, p) PROVE NodeItemOK'
        BY <2>8 DEF Send, NodeItemOK, Sending
    <2>9. ASSUME NEW p \in Pages, SendPanics(t, p) PROVE NodeItemOK'
        BY <1>0, <2>9 DEF WorkOK, NodeItemOK, Sending, Goto, SendPanics, Leave
    <2>10. CASE SendDone(t)
        BY <1>0, <1>2, <2>10 DEF SendDone, AfterChat, Labels, WorkOK
    <2>11. CASE Finish(t)
        BY <1>0, <2>11 DEF WorkOK, NodeItemOK, Sending, Goto, Finish, Leave
    <2> QED
        BY <1>6, <2>1, <2>2, <2>3, <2>4, <2>5, <2>6, <2>7, <2>8, <2>9, <2>10, <2>11 DEF Work
<1>7. ASSUME NEW p \in Pages,
             \/ Snapshot(p) \/ Subscribe(p) \/ Receive(p)
             \/ PageLeaves(p) \/ Unsubscribe(p) \/ CloseChannel(p)
      PROVE  UNCHANGED workVars
    BY <1>7 DEF Snapshot, Subscribe, Receive, PageLeaves, Unsubscribe, CloseChannel
<1> QED
    BY <1>1, <1>3, <1>4, <1>5, <1>6, <1>7 DEF Next, vars

\* A finite set has subsets of every size up to its own.
LEMMA SubsetOfSize ==
    ASSUME NEW S, IsFiniteSet(S), NEW m \in Nat, m <= Cardinality(S)
    PROVE  \E T \in SUBSET S : Cardinality(T) = m
<1>1. Cardinality(S) \in Nat /\ ExistsBijection(1..Cardinality(S), S)
    BY FS_CardinalityType
<1>2. PICK n \in Nat : n = Cardinality(S)
    BY <1>1
<1>3. PICK f \in Bijection(1..n, S) : TRUE
    BY <1>1, <1>2 DEF ExistsBijection
<1>4. \A i \in 1..m : i \in 1..n
    BY <1>2
<1>5. f \in [1..n -> S] /\ \A i, j \in 1..n : f[i] = f[j] => i = j
    BY <1>3 DEF Bijection, Injection, IsInjective
<1> DEFINE T == {f[i] : i \in 1..m}
           g == [i \in 1..m |-> f[i]]
<1>6. g \in Bijection(1..m, T)
    BY <1>4, <1>5 DEF Bijection, Injection, Surjection, IsInjective
<1>7. ExistsBijection(1..m, T)
    BY <1>6 DEF ExistsBijection
<1>8. Cardinality(T) = m
    BY <1>7, FS_CountingElements
<1>9. T \in SUBSET S
    BY <1>4, <1>5
<1> QED
    BY <1>8, <1>9

LEMMA NodeItemInvariant == Spec => [](HubInv /\ NodeItemOK)
<1>1. Init => NodeItemOK
    BY DEF Init, NodeItemOK, Sending
<1>2. HubInv /\ NodeItemOK /\ [Next]_vars => NodeItemOK'
    BY NextNodeItem
<1> QED
    BY <1>1, <1>2, Invariance, PTL DEF Spec

\* A goroutine of the broker or a handler is never held up in the hub, for any number of
\* pages that never read and channels of any size: wherever it is in a reachable state
\* (NodeItemInvariant), the step that GoesOn describes is one of its own.
THEOREM NeverHeldUpCorrect ==
    ASSUME HubInv, NodeItemOK, NEW t \in Threads, pc[t] # "idle", GoesOn(t)
    PROVE  Work(t)
<1>0. WorkOK /\ ProtoOK /\ pc[t] \in Labels
    BY DEF HubInv, WorkOK
<1>1. ASSUME pc[t] # "send"
      PROVE  /\ UNCHANGED <<queue, feed, crashed>>
             /\ pc' = [pc EXCEPT ![t] = Follows(t)]
             /\ UNCHANGED <<repeats, subs, shut, ppc, shown, begun, posting>>
    BY <1>1 DEF GoesOn, Sends, Panics
<1>2. CASE pc[t] = "node"
    <2>1. TouchNode(t)
        BY <1>1, <1>2
           DEF TouchNode, GoesOn, Sends, Leaves, Panics, Follows, Goto, Owe, OwedBy, Forgiven
    <2> QED
        BY <2>1 DEF Work
<1>3. CASE pc[t] = "notifynodes"
    <2>1. NotifyNodes(t)
        BY <1>1, <1>3
           DEF NotifyNodes, GoesOn, Sends, Leaves, Panics, Follows, NoteNext, Goto
    <2> QED
        BY <2>1 DEF Work
<1>4. CASE pc[t] = "nodesubs"
    <2>1. NodeSubs(t)
        BY <1>1, <1>4
           DEF NodeSubs, Notify, GoesOn, Sends, Leaves, Panics, Follows, NoteNext, Goto
    <2> QED
        BY <2>1 DEF Work
<1>5. CASE pc[t] = "proto"
    <2>0. PICK all : all = protos \cup ({item[t]} \ Anon)
        OBVIOUS
    <2>1. \/ Cardinality(all) <= MaxProtos /\ protos' = all
          \/ /\ Cardinality(all) > MaxProtos
             /\ \E keep \in SUBSET all : Cardinality(keep) = MaxProtos \div 2 /\ protos' = keep
        <3>1. protos' = Kept(all)
            BY <1>5, <2>0 DEF GoesOn
        <3>2. IsFiniteSet(all) /\ Cardinality(all) \in Nat /\ MaxProtos \in Nat
            <4>1. IsFiniteSet({item[t]} \ Anon)
                BY FS_Singleton, FS_Subset
            <4> QED
                BY <1>0, <2>0, <4>1, FS_Union, FS_CardinalityType, HubAssumptions DEF ProtoOK
        <3>3. CASE Cardinality(all) <= MaxProtos
            BY <3>1, <3>3 DEF Kept
        <3>4. CASE Cardinality(all) > MaxProtos
            <4>1. MaxProtos \div 2 \in Nat /\ MaxProtos \div 2 <= Cardinality(all)
                BY <3>2, <3>4
            <4>2. \E keep \in SUBSET all : Cardinality(keep) = MaxProtos \div 2
                BY <3>2, <4>1, SubsetOfSize
            <4>3. ~(Cardinality(all) <= MaxProtos)
                BY <3>2, <3>4
            <4> QED
                BY <3>1, <3>4, <4>2, <4>3 DEF Kept
        <3> QED
            BY <3>2, <3>3, <3>4
    <2>2. CacheProto(t)
        BY <1>1, <1>5, <2>0, <2>1
           DEF CacheProto, GoesOn, Sends, Leaves, Panics, Follows, Goto
    <2> QED
        BY <2>2 DEF Work
<1>6. CASE pc[t] = "check"
    <2>1. CheckDuplicate(t)
        BY <1>1, <1>6
           DEF CheckDuplicate, GoesOn, Sends, Leaves, Panics, Follows, Goto
    <2> QED
        BY <2>1 DEF Work
<1>7. CASE pc[t] = "append"
    <2>1. AppendChat(t)
        BY <1>1, <1>7
           DEF AppendChat, GoesOn, Sends, Leaves, Panics, Follows, Goto, Owe, OwedBy, Forgiven
    <2> QED
        BY <2>1 DEF Work
<1>8. CASE pc[t] = "notifychat"
    <2>1. NotifyChat(t)
        BY <1>1, <1>8
           DEF NotifyChat, Notify, GoesOn, Sends, Leaves, Panics, Follows, NoteNext, Goto
    <2> QED
        BY <2>1 DEF Work
<1>9. CASE pc[t] = "record"
    <2>1. RecordEvent(t)
        BY <1>1, <1>9
           DEF RecordEvent, Notify, GoesOn, Sends, Leaves, Panics, Follows, NoteNext, Goto, Owe,
               OwedBy, Forgiven
    <2> QED
        BY <2>1 DEF Work
<1>10. CASE pc[t] = "finish"
    <2>1. Finish(t)
        BY <1>1, <1>10
           DEF Finish, Leave, GoesOn, Sends, Leaves, Panics, Follows, NoteNext, Goto
    <2> QED
        BY <2>1 DEF Work
<1>11. CASE pc[t] = "send" /\ rest[t] # {}
    <2>0. PICK p \in Pages : p = Addressee(t) /\ p \in rest[t]
        BY <1>0, <1>11 DEF Addressee, WorkOK
    <2>1. CASE Panics(t)
        <3>1. SendPanics(t, p)
            BY <1>11, <2>0, <2>1
               DEF SendPanics, Leave, GoesOn, Sends, Leaves, Panics, NoteNext, Goto
        <3> QED
            BY <3>1 DEF Work
    <2>2. CASE ~Panics(t)
        <3>1. Send(t, p)
            BY <1>11, <2>0, <2>2 DEF Send, Put, Skip, Paid, GoesOn, Sends, Leaves, Panics
        <3> QED
            BY <3>1 DEF Work
    <2> QED
        BY <2>1, <2>2
<1>12. CASE pc[t] = "send" /\ rest[t] = {}
    <2>1. SendDone(t)
        <3>1. note[t].chan \in Channels
            BY <1>0 DEF WorkOK
        <3>2. note[t].chan = "node" => item[t] \in Packets \cup {"node", "status"}
            BY <1>12 DEF NodeItemOK, Sending
        <3>3. /\ Follows(t) = AfterSend(t) /\ NoteNext(t) = Nothing
            BY <1>12 DEF Follows, NoteNext
        <3>4. /\ pc' = [pc EXCEPT ![t] = AfterSend(t)]
              /\ note' = [note EXCEPT ![t] = Nothing]
              /\ UNCHANGED <<logVars, subs, chanVars, item, role, rest, pageVars, shown,
                             copyVars, crashed>>
            BY <1>12, <3>3 DEF GoesOn, Sends, Leaves, Panics
        <3>5. \A i \in Packets : i \notin {"node", "status"}
            BY HubAssumptions
        <3> QED
            BY <1>12, <3>1, <3>2, <3>4, <3>5 DEF SendDone, AfterSend, Channels, Goto
    <2> QED
        BY <2>1 DEF Work
<1> QED
    BY <1>0, <1>2, <1>3, <1>4, <1>5, <1>6, <1>7, <1>8, <1>9, <1>10, <1>11, <1>12
       DEF Labels
=============================================================================
