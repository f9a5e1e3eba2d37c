------------------------------- MODULE MCHub -------------------------------
(***************************************************************************)
(* Instances of Hub for TLC: goroutines are interchangeable, and so are    *)
(* pages.                                                                  *)
(***************************************************************************)
EXTENDS Hub

Perms == Permutations(Threads) \cup Permutations(Pages)

\* Two pages come and go while a payload is shown, one does while two are, or there
\* is no page and many payloads follow each other.
PagesOrMany == {[open |-> ps, shown |-> MaxShown - 3 + Cardinality(ps)] : ps \in (SUBSET Pages) \ {{}}}
                   \cup {[open |-> {}, shown |-> 0]}
OnePayload  == {[open |-> Pages, shown |-> MaxShown - 1]}
=============================================================================
