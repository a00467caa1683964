------------------------------ MODULE MCReplay ------------------------------
(* Replay for TLC: two moves, interchangeable for the safety properties.   *)
EXTENDS Replay
=============================================================================
