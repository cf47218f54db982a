---------------------------- MODULE MCAuthMockup ----------------------------
(* Constants for the run of AuthMockup. *)
EXTENDS AuthMockup

CONSTANTS s1, s2, c1, c2, c3

MCStates    == {s1, s2}
MCCallbacks == {c1, c2, c3}
=============================================================================
