---- MODULE MCIncremental ----
(* Two ids, so that an appended id can come before or after the base's or equal   *)
(* one of them, and two vectors; 0 is an id, a vector and a position, and the      *)
(* value of a cell never written. Four positions: an id can stand at three. With   *)
(* and without room to grow, and with room in the rows but none in the graph.     *)
EXTENDS VVIncremental

TwoIds == {0, 1}
TwoVectors == {0, 1}
NoneOrHalf == {0, 50}
====
