------------------------------- MODULE MCOutput ------------------------------
(* Two viewers, one session object; a dropped one comes back as a new one.     *)
EXTENDS CsoOutput
=============================================================================
