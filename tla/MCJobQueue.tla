----------------------------- MODULE MCJobQueue -----------------------------
(* Instances of JobQueue for TLC: a cfg gives its constants model values.   *)
EXTENDS JobQueue
=============================================================================
