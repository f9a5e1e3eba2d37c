----------------------------- MODULE Handshake -----------------------------
(***************************************************************************)
(* What the broker promises of the config handshake, whatever happens to   *)
(* the radio: every WantConfigId has one life.  It is open from the moment *)
(* it is read until it is answered or dropped, both of which are final; an *)
(* answer goes to the client that asked, and the radio's own answer comes  *)
(* only after the whole dump.  Module Broker implements this.              *)
(***************************************************************************)
EXTENDS Naturals

CONSTANTS
    Clients,    \* TCP connections
    Slots,      \* parts of the configuration
    Dump        \* the parts the radio dumps

VARIABLES
    joined,     \* clients that are registered
    asked,      \* asked[c]: how many messages c has sent; a request id is <<c, number>>
    open,       \* requests somebody is still working on
    sent,       \* sent[c]: how many frames have been queued for c
    known,      \* known[c]: slots that have been queued for c
    answers     \* answers[c]: which of these frames answers which request, and by whom

vars == <<joined, asked, open, sent, known, answers>>

Init ==
    /\ joined \subseteq Clients
    /\ asked = [c \in Clients |-> 0]
    /\ open = {}
    /\ sent = [c \in Clients |-> 0]
    /\ known = [c \in Clients |-> {}]
    /\ answers = [c \in Clients |-> {}]

Join(c) == /\ c \notin joined
           /\ joined' = joined \cup {c}
           /\ UNCHANGED <<asked, open, sent, known, answers>>

Leave(c) == /\ c \in joined
            /\ joined' = joined \ {c}
            /\ UNCHANGED <<asked, open, sent, known, answers>>

\* A message is a request, which is now open, or something else.
Ask(c) == /\ asked' = [asked EXCEPT ![c] = @ + 1]
          /\ open' \in {open, open \cup {<<c, asked[c] + 1>>}}
          /\ UNCHANGED <<joined, sent, known, answers>>

\* A frame is queued for c: a slot, or one that is no part of the handshake.
Queue(c) == sent' = [sent EXCEPT ![c] = @ + 1]

Learn(c, s) == /\ Queue(c)
               /\ known' = [known EXCEPT ![c] = @ \cup {s}]
               /\ UNCHANGED <<joined, asked, open, answers>>

Hear(c) == Queue(c) /\ UNCHANGED <<joined, asked, open, known, answers>>

\* An open request is answered, once, to the client that made it.
Answer(c, i, via) ==
    /\ i \in open /\ i[1] = c
    /\ via = "radio" /\ c \in joined => Dump \subseteq known[c]
    /\ open' = open \ {i}
    /\ Queue(c)
    /\ answers' = [answers EXCEPT ![c] = @ \cup {[at |-> sent[c] + 1, id |-> i, via |-> via]}]
    /\ UNCHANGED <<joined, asked, known>>

\* The client has gone, has asked again or was too slow, or the session is over.
Drop == /\ open' \in SUBSET open
        /\ UNCHANGED <<joined, asked, sent, known, answers>>

Next == \/ Drop
        \/ \E c \in Clients :
              \/ Join(c) \/ Leave(c) \/ Ask(c) \/ Hear(c)
              \/ \E s \in Slots : Learn(c, s)
              \/ \E i \in open, via \in {"radio", "cache"} : Answer(c, i, via)

Spec == Init /\ [][Next]_vars
=============================================================================
