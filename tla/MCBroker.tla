------------------------------ MODULE MCBroker ------------------------------
(***************************************************************************)
(* Instances of Broker for TLC: replay and dump orders, event budgets, and *)
(* the symmetry of clients and nonces (for runs without liveness).         *)
(***************************************************************************)
EXTENDS Broker, TLC

CONSTANTS my, ch    \* two slots: my_info and one more, say a channel

Perms == Permutations(Clients) \cup Permutations(Nonces)

\* my_info is replayed first and dumped first.
Rank1 == my :> 0
Dump1 == <<my>>
Rank2 == (my :> 0) @@ (ch :> 1)
Dump2 == <<my, ch>>

\* Budgets: the events in b as often as it says, the others never.
Only(b) == [e \in Events |-> IF e \in DOMAIN b THEN b[e] ELSE 0]

HandshakeBudget == Only([msg |-> 2, reboot |-> 1, update |-> 1])
MembersBudget   == Only([msg |-> 2, hangup |-> 1, glitch |-> 1, update |-> 1])
TrafficBudget   == Only([msg |-> 2, expire |-> 1, hangup |-> 1])
AnswerBudget    == Only([msg |-> 1, reboot |-> 1, hangup |-> 1, web |-> 1])
ShutdownBudget  == Only([mesh |-> 3, drain |-> 1, cancel |-> 1, linkfail |-> 1,
                         acceptfail |-> 1])
PartialBudget   == Only([msg |-> 2])
FailureBudget   == Only([msg |-> 1, linkfail |-> 1])

\* Environments: all events of the budget, or all but those in one of the sets of
\* alternatives, which are then explored one after the other instead of together.
All == {Only(<<>>)}
Without(alternatives) == {[e \in Events |-> IF e \in a THEN Budget[e] ELSE 0] : a \in alternatives}
MembersSpent == Without({{"update"}, {"hangup", "glitch"}})
TrafficSpent == {Only([hangup |-> 1, expire |-> 1]), Only([msg |-> 1])}
AnswerSpent  == Without({{"hangup", "web"}, {"msg", "reboot"}})
=============================================================================
