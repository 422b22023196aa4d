--------------------------- MODULE MCLearnerViews ---------------------------
(* An instance of LearnerViews for TLC: one deck of an administrator and a  *)
(* learner who may add it.  In its text l1 and l2 are homonyms at one      *)
(* position (a sentence-initial form) and l2 stands alone at another.      *)
EXTENDS LearnerViews

CONSTANTS admin, learner, d1, cap, lower, word, l1, l2, nobody

Forms == {cap, lower, word}
Fold == [s \in Forms |-> IF s = cap THEN lower ELSE s]
LemmaForm == [l \in {l1, l2} |-> IF l = l1 THEN lower ELSE word]
Homonyms == {{<<cap, l1>>, <<cap, l2>>, <<word, l2>>}}
=============================================================================
