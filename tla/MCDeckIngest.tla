---------------------------- MODULE MCDeckIngest ----------------------------
(* An instance of DeckIngest: a Finnish word with two meanings and two     *)
(* casings, one with a capital lemma, and one the dictionary lacks.        *)
EXTENDS DeckIngest, TLC

F(word, cap) == [word |-> word, cap |-> cap]
kuusi == F("kuusi", FALSE)
Kuusi == F("kuusi", TRUE)
on == F("on", FALSE)
xyz == F("xyz", FALSE)
n12 == Number(<<<<1, 2>>>>)
n345 == Number(<<<<3, 4, 5>>>>)
spruce == <<kuusi, "NOUN">>
six == <<kuusi, "NUM">>
be == <<F("olla", FALSE), "VERB">>

Reading(key, label, feats) == [lemma |-> key[1], pos |-> key[2], label |-> label, feats |-> feats]
PicksOf(r, capital) == (kuusi :> r) @@ (Kuusi :> capital) @@ (on :> Reading(be, "none", "Person=3"))
Meaning == {spruce, six}

\* An accepted correction turns the number into the tree and hides one meaning.
Before1 == [pick |-> [basic |-> PicksOf(Reading(spruce, "none", "Case=Nom"), Reading(spruce, "none", "Case=Nom")),
                      custom |-> PicksOf(Reading(six, "nominative", "Case=Nom"), Reading(six, "nominative", "Case=Nom"))],
            all |-> (kuusi :> Meaning) @@ (Kuusi :> Meaning) @@ (on :> {be}),
            gloss |-> (spruce :> "english") @@ (six :> "form of") @@ (be :> "english"),
            meanings |-> (kuusi :> Meaning) @@ (Kuusi :> Meaning), states |-> spruce :> "known"]
After1 == [pick |-> [Before1.pick EXCEPT !.custom = PicksOf(Reading(spruce, "none", "Case=Nom"),
                                                            Reading(six, "nominative", "Case=Nom"))],
           all |-> Before1.all,
           gloss |-> (spruce :> "english") @@ (be :> "definition"),
           meanings |-> (Kuusi :> Meaning), states |-> six :> "ignored"]

MCUsers == {"learner"}
CONSTANTS r1, r2
MCRequests == {r1, r2}
MCSymmetry == Permutations(MCRequests)
MCDictionaries == <<Before1, After1>>
MCUploads == {[kind |-> "epub", chapters |-> <<<<Kuusi, n12, n345>>, <<Kuusi, xyz>>>>],
              [kind |-> "epub", chapters |-> <<<<kuusi, on, Stop, n12>>, <<n345, kuusi, on, Stop>>>>],
              [kind |-> "text", chapters |-> <<<<>>>>]}
MCPayloads == {[kind |-> "chapters", chapters |-> <<<<Break>>, <<Kuusi>>, <<xyz>>>>]}
Sense(s, k) == [surface |-> s, key |-> k]
MCSelections == {{}, {Sense(Kuusi, spruce), Sense(kuusi, six)}}
=============================================================================
