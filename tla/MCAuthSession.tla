---------------------------- MODULE MCAuthSession ----------------------------
(* Bounded instances of AuthSession.                                        *)
EXTENDS AuthSession, TLC

CONSTANTS a, b, ada, bob, new
==============================================================================
