------------------------------ MODULE MCFrame ------------------------------
(***************************************************************************)
(* Instances of Frame for TLC: the payloads include one that looks like a  *)
(* header, one of MaxSize and one that is too large, the noise every way   *)
(* to meet Magic0 outside a frame.                                         *)
(***************************************************************************)
EXTENDS Frame

SmallPayloads == {<<7>>, <<Magic0, Magic1>>, <<7, 7, 7>>}
LineNoise == {<<Magic1>>, Header(0), <<Magic0>>, <<Magic0, Magic1, 0>>, Header(1), Header(3)}
Perms == Permutations(Writers)
=============================================================================
