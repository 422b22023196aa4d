---------------------------- MODULE MCDictionary ----------------------------
(***************************************************************************)
(* Two spellings, w the headword and v an inflected form; w is a noun, a   *)
(* verb, and a headword of unknown part of speech.                         *)
(***************************************************************************)
EXTENDS Dictionary

CONSTANTS r1, r2, r3

Noun == [lemma |-> "w", pos |-> "NOUN"]
Verb == [lemma |-> "w", pos |-> "VERB"]
Unknown == [lemma |-> "w", pos |-> "X"]

MCSenses == {Noun, Verb, Unknown}

Text(t) == [text |-> t]

Entry(sense, glosses, feats) ==
    [sense |-> sense, glosses |-> glosses,
     forms |-> <<[form |-> "v", feats |-> feats, possessive |-> FALSE]>>]

\* The first dump has two etymologies of the noun; the second lacks one meaning.
MCKaikkiDumps ==
    {<<Entry(Noun, <<Text("k1"), Text("k2")>>, "Gen"), Entry(Noun, <<Text("s1"), Text("k3")>>, "Par")>>,
     <<Entry(Noun, <<Text("k3")>>, "Gen")>>}

MCStructural == {Text("s1")}

MCLearnerGloss == [s \in {Verb} |-> <<Text("l1")>>]

MCGlossFiles == {<<[sense |-> Noun, gloss |-> Text("c1")]>>}

Meaning(pos, en, et) == [pos |-> pos, en |-> en, et |-> et]
Line(code) == [lemma |-> "w", form |-> "v", code |-> code]

\* The second drop lost the translations of the noun and a reading of its form.
MCEkilexDrops ==
    {[entries |-> <<[lemma |-> "w", class |-> "NOUN", meanings |->
                       <<Meaning({}, <<[key |-> "e1", upper |-> FALSE]>>, <<"d1">>),
                         Meaning({"VERB"}, <<>>, <<"d2">>)>>]>>,
      lines |-> <<Line([name |-> "SgG", class |-> "nominal", feats |-> "Gen"]),
                  Line([name |-> "SgN", class |-> "nominal", feats |-> "Nom"])>>],
     [entries |-> <<[lemma |-> "w", class |-> "NOUN", meanings |-> <<>>]>>,
      lines |-> <<Line([name |-> "SgP", class |-> "nominal", feats |-> "Par"])>>]}

MCSmokeImports ==
    {<<[value |-> "w", class |-> "", forms |-> {"v"}, lexemes |->
          <<[lang |-> "est", lemma |-> "w", pos |-> "NOUN", gloss |-> <<Text("a1")>>],
            [lang |-> "", lemma |-> "", pos |-> "", gloss |-> <<>>],
            [lang |-> "eng", lemma |-> "w", pos |-> "VERB", gloss |-> <<Text("a2")>>]>>],
       [value |-> "w", class |-> "VERB", forms |-> {}, lexemes |-> <<>>]>>}

\* Homonyms on two lines, the second without a class; a line with two, and one with
\* a label nobody mapped; a line without a headword.
KotusLine(word, labels, classes) == [lemma |-> word, labels |-> labels, classes |-> classes]
MCwordClassMap == [substantiivi |-> "NOUN", verbi |-> "VERB"]
MCKotusLists ==
    {<<KotusLine("w", {"substantiivi"}, <<"38">>),
       KotusLine("w", {"substantiivi", "verbi"}, <<>>),
       KotusLine("", {"verbi"}, <<"53-C">>)>>,
     <<KotusLine("w", {"verbi"}, <<"53-C", "77">>), KotusLine("w", {"erisnimi"}, <<"5">>)>>}

\* Three reports by two learners: the first learner's are alike, the third is flag-only.
MCReporterOf == [r \in {r1, r2, r3} |-> IF r = r3 THEN "bea" ELSE "ann"]
MCSurfaceOf == [r \in {r1, r2, r3} |-> "v"]
MCProposalOf ==
    [r \in {r1, r2, r3} |-> [sense |-> IF r = r3 THEN NoSense ELSE Verb, feats |-> "none"]]
MCSymmetry == Permutations({r1, r2})
MCFormOf == [s \in {"v"} |-> "v"]

\* No gold data, or two occurrences of the form as the noun.
MCGoldSets ==
    {[k \in {"w", "v"} \X MCSenses |-> IF k = <<"v", Noun>> THEN n ELSE 0] : n \in {0, 2}}

\* A correction whose reporters have closed their accounts.
MCPromoted == [k \in {<<"w", Noun>>} |-> 2]
=============================================================================
