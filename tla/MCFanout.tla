------------------------------ MODULE MCFanout ------------------------------
(* Instances of Fanout for TLC: a cfg gives its constants model values.     *)
EXTENDS Fanout
=============================================================================
