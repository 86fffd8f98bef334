---------------------------- MODULE MCStreamAdapter ------------------------
(* The instance of StreamAdapter that TLC explores. *)
EXTENDS StreamAdapter

AllMarks == {"opens", "closes", "whole", "think tag"}

============================================================================
