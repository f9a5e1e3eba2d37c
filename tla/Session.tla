------------------------------ MODULE Session ------------------------------
(***************************************************************************)
(* One session as its callers see it: the contract between the broker and  *)
(* the supervisor.  Module Broker, which has the inside of a session, and  *)
(* module Sessions, which has many of them from the outside, both          *)
(* implement it.                                                           *)
(***************************************************************************)
CONSTANT Conns    \* TCP connections

VARIABLES
    members,    \* registered clients
    gone,       \* connections that have been closed
    done,       \* Broker.done is closed
    reader,     \* readSerial: "off", "reading", "posted" or "stopped"
    returned,   \* Run has returned
    line,       \* the serial device can be used
    cancelled   \* the process context is done

vars == <<members, gone, done, reader, returned, line, cancelled>>

Init ==
    /\ members \subseteq Conns /\ gone = {}
    /\ ~done /\ ~returned /\ ~cancelled
    /\ reader \in {"off", "reading"} /\ line \in BOOLEAN

\* AddClient takes any new connection, also after done; a closed one never comes back.
Join(c) ==
    /\ c \notin members \cup gone
    /\ members' = members \cup {c}
    /\ UNCHANGED <<gone, done, reader, returned, line, cancelled>>

\* removeClient: out of the registry first, closed then or later.
Remove ==
    /\ members' \in SUBSET members
    /\ gone' \in {gone} \cup {gone \cup {c} : c \in Conns}
    /\ gone' \cap members' = {}
    /\ UNCHANGED <<done, reader, returned, line, cancelled>>

Start ==
    /\ reader = "off" /\ reader' = "reading"
    /\ UNCHANGED <<members, gone, done, returned, line, cancelled>>

\* A failed write closes done, for good, and leaves it to readSerial to notice.
WriteFails ==
    /\ ~line /\ done' = TRUE
    /\ UNCHANGED <<members, gone, reader, returned, line, cancelled>>

\* readSerial leaves an error for Run, or finds done closed and says nothing.
ReaderEnds ==
    /\ reader = "reading"
    /\ \/ ~line /\ reader' = "posted"
       \/ done /\ reader' = "stopped"
    /\ UNCHANGED <<members, gone, done, returned, line, cancelled>>

\* Run returns after a posted error or a cancelled context, and done is closed then.
Return ==
    /\ ~returned /\ returned' = TRUE
    /\ cancelled \/ reader = "posted"
    /\ done' = TRUE
    /\ UNCHANGED <<members, gone, reader, line, cancelled>>

Environment ==
    /\ \/ line' \in BOOLEAN /\ (reader # "off" => ~line') /\ UNCHANGED cancelled
       \/ cancelled' = TRUE /\ UNCHANGED line
    /\ UNCHANGED <<members, gone, done, reader, returned>>

Next == \/ \E c \in Conns : Join(c)
        \/ Remove \/ Start \/ WriteFails \/ ReaderEnds \/ Return \/ Environment

Spec == Init /\ [][Next]_vars
=============================================================================
