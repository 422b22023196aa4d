------------------------- MODULE MCAccountSettings -------------------------
(* An instance of AccountSettings for TLC. *)
EXTENDS AccountSettings, TLC

CONSTANTS r1, r2, k1, k2

BothLanguages == <<"FI", "ET">>

\* One language, sent twice, and a list that is refused.
SentLists == {<<"FI", "FI">>, <<"other">>}

\* Requests are interchangeable, and so are tokens (safety runs only).
Interchangeable == Permutations({r1, r2}) \cup Permutations({k1, k2})
=============================================================================
