-------------------------- MODULE MCParserLimiter --------------------------
(* An instance of ParserLimiter for TLC: two anonymous requests, enough to *)
(* fill a pool of two on their own were they allowed to, and two signed-in *)
(* requests that compete with them.                                        *)
EXTENDS ParserLimiter

CONSTANTS a1, a2, s1, s2

AllRequests == {a1, a2, s1, s2}
AllAnonymous == {a1, a2}
=============================================================================
