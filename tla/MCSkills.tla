------------------------------- MODULE MCSkills -------------------------------
(* Small instances of Skills for TLC. *)
EXTENDS Skills

CONSTANTS weather, e1, e2, night, tool, fetch, better
==============================================================================
