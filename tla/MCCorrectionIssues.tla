------------------------ MODULE MCCorrectionIssues ------------------------
(* Instances of CorrectionIssues for TLC.  A surface is written out with its *)
(* key: "Aani" stands for a form that SQLite's ASCII lower() leaves alone    *)
(* and Go's ToLower does not.                                                *)
EXTENDS CorrectionIssues, TLC

CONSTANTS u1, u2, r1, r2, a1, a2, s1

TwoUsers == {u1, u2}
TwoRequests == {r1, r2}
TwoAdmins == {a1, a2}
OneSense == {s1}
Umlaut == {"Aani"}
Norm == "Aani" :> "aani"
Lower == "Aani" :> "Aani"

Symmetry == Permutations(TwoUsers) \cup Permutations(TwoRequests) \cup Permutations(TwoAdmins)
=============================================================================
