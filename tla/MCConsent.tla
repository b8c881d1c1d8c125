------------------------------- MODULE MCConsent -------------------------------
(* Small instances of Consent for TLC. *)
EXTENDS Consent

CONSTANTS print, s1, r1, r2, r3

OfOne == [r \in Requests |-> s1]
==============================================================================
