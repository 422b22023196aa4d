---- MODULE MCDictLookup ----
EXTENDS DictLookup

T(word, c) == [word |-> word, case |-> c]
Low(word) == T(word, "lower")

MCMorphSize == [tarjoa |-> 6, ma |-> 2, maan |-> 4, ta |-> 2, TA |-> 2, norja |-> 5, n |-> 1,
                rongi |-> 5, rong |-> 4, soit |-> 4, ssa |-> 3, ni |-> 2, talo |-> 4,
                peatu |-> 5, s |-> 1, menna |-> 5, kseen |-> 5, yo |-> 2]
MCMorphBytes == [MCMorphSize EXCEPT !.yo = 3]
MCMaCase == [maan |-> "Ill"]
MCALong == {"kseen"}
MCPossessive == <<"ni">>
MCCaseSuffixes == [FI |-> <<[suffix |-> "ssa", label |-> "Ine"], [suffix |-> "n", label |-> "Gen"]>>,
                   ET |-> <<[suffix |-> "s", label |-> "Ine"]>>]
MCStemLemmas == (<<"peatu">> :> <<<<"peatu", "ma">>>>)
MCBadLemmas == {Low(<<"ta">>)}
MCBadPairs == {<<<<"norja", "n">>, Low(<<"norja">>)>>}
MCOverlay == (<<"FI", T(<<"norja", "n">>, "title")>> :>
                 [lemma |-> T(<<"norja">>, "title"), pos |-> "PROPN", label |-> "Gen", feats |-> NoFeats])
\* In the order of their bytes: capitals come first.
MCLemmas == <<<<"menna">>, <<"menna", "kseen">>, <<"norja">>, <<"peatu">>, <<"peatu", "ma">>, <<"peatu", "s">>,
              <<"ta">>, <<"tarjoa">>, <<"tarjoa", "ma">>>>
MCLemmaOrder == [t \in {T(MCLemmas[i], c) : i \in DOMAIN MCLemmas, c \in {"caps", "title", "lower"}} |->
                    (CHOOSE i \in DOMAIN MCLemmas : MCLemmas[i] = t.word) + (CASE t.case = "caps" -> 0 [] t.case = "title" -> 10 [] OTHER -> 20)]
MCNameOrder == [custom_overrides |-> 1, ekilex |-> 2, kaikki |-> 3, legacy |-> 4,
                ADV |-> 1, NOUN |-> 2, PROPN |-> 3, VERB |-> 4]

Row(lemma, pos, source, priority, feats) ==
    [lemma |-> lemma, pos |-> pos, source |-> source, priority |-> priority, feats |-> feats]
An(lemma, pos, label, feats) == [lemma |-> lemma, pos |-> pos, label |-> label, feats |-> feats]

R(word, c) == Row(T(word, c), "NOUN", "kaikki", 10, NoFeats)
MCLexicon == (<<"rongi">> :> <<R(<<"rong">>, "lower")>>) @@ (<<"soit">> :> <<R(<<"soit">>, "lower")>>)
             @@ (<<"talo">> :> <<R(<<"talo">>, "lower")>>) @@ (<<"talo", "ssa">> :> <<R(<<"talo">>, "lower")>>)
MCLemmaTable == (<<"talo">> :> <<[lemma |-> Low(<<"talo">>), pos |-> "NOUN"]>>) @@
                (<<"yo">> :> <<[lemma |-> Low(<<"yo">>), pos |-> "NOUN"]>>) @@
                (<<"tarjoa">> :> <<[lemma |-> Low(<<"tarjoa">>), pos |-> "VERB"]>>) @@
                (<<"peatu", "ma">> :> <<[lemma |-> Low(<<"peatu", "ma">>), pos |-> "VERB"]>>)

Ill == [Case |-> "Ill", Number |-> "Sing", Person |-> "3"]
Fin == [Person |-> "3"]
Long == [VerbForm |-> "Inf", InfForm |-> "1"] @@ [x \in {"Person[psor]"} |-> "3"]

\* Per surface: the rows and analyses that may meet, in any order.
Worlds == {
    [surface |-> <<"tarjoa", "maan">>, cases |-> {"lower", "title"}, lang |-> "FI",
     rows |-> {Row(Low(<<"tarjoa", "ma">>), "VERB", "kaikki", 10, Ill),
               Row(Low(<<"tarjoa", "ma">>), "NOUN", "legacy", 0, NoFeats),
               Row(Low(<<"tarjoa">>), "VERB", "kaikki", 10, NoFeats),
               Row(Low(<<"tarjoa">>), "NOUN", "kaikki", 10, NoFeats)},
     analyses |-> {An(Low(<<"tarjoa">>), "VERB", "Ill", Ill),
                   An(Low(<<"tarjoa">>), "VERB", "Ine", [Case |-> "Ine"]),
                   An(Low(<<"tarjoa", "ma">>), "NOUN", "Ill", NoFeats)}],
    [surface |-> <<"menna", "kseen">>, cases |-> {"lower"}, lang |-> "FI",
     rows |-> {Row(Low(<<"menna", "kseen">>), "ADV", "kaikki", 10, NoFeats),
               Row(Low(<<"menna">>), "NOUN", "kaikki", 10, NoFeats),
               Row(Low(<<"menna">>), "VERB", "legacy", 0, NoFeats)},
     analyses |-> {An(Low(<<"menna">>), "VERB", NoLabel, Long),
                   An(Low(<<"menna">>), "NOUN", "Tra", NoFeats),
                   An(Low(<<"menna">>), "NOUN", "Tra", [Case |-> "Tra", Number |-> "Sing"])}],
    [surface |-> <<"norja", "n">>, cases |-> {"lower", "title"}, lang |-> "FI",
     rows |-> {Row(T(<<"norja">>, "title"), "PROPN", "custom_overrides", 1000, NoFeats),
               Row(T(<<"peatu">>, "title"), "PROPN", "custom_overrides", 1000, NoFeats),
               Row(Low(<<"norja">>), "NOUN", "kaikki", 10, NoFeats),
               Row(Low(<<"norja">>), "ADV", "kaikki", 10, NoFeats),
               Row(Low(<<"peatu">>), "NOUN", "ekilex", 20, NoFeats)},
     analyses |-> {An(T(<<"norja">>, "title"), "PROPN", "Gen", NoFeats),
                   An(Low(<<"norja">>), "ADV", "Gen", NoFeats)}],
    [surface |-> <<"peatu", "s">>, cases |-> {"lower"}, lang |-> "ET",
     rows |-> {Row(Low(<<"peatu", "s">>), "NOUN", "ekilex", 20, [Case |-> "Nom"]),
               Row(Low(<<"peatu", "ma">>), "VERB", "ekilex", 20, Fin),
               Row(Low(<<"peatu", "ma">>), "NOUN", "kaikki", 10, NoFeats)},
     analyses |-> {An(Low(<<"peatu">>), "NOUN", "Ine", NoFeats),
                   An(Low(<<"peatu", "ma">>), "VERB", NoLabel, Fin)}],
    [surface |-> <<"ta">>, cases |-> {"lower", "title", "caps"}, lang |-> "FI",
     rows |-> {Row(T(<<"ta">>, "caps"), "NOUN", "kaikki", 10, [Case |-> "Gen"]),
               Row(Low(<<"ta">>), "NOUN", "kaikki", 10, NoFeats)},
     analyses |-> {An(Low(<<"ta">>), "NOUN", NoLabel, NoFeats),
                   An(T(<<"ta">>, "caps"), "NOUN", "Gen", NoFeats)}],
    [surface |-> <<"ta", "n">>, cases |-> {"lower", "caps", "capsStem"}, lang |-> "FI",
     rows |-> {Row(T(<<"ta">>, "caps"), "NOUN", "kaikki", 10, [Case |-> "Gen"])},
     analyses |-> {An(T(<<"ta">>, "caps"), "NOUN", "Gen", NoFeats),
                   An(Low(<<"ta">>), "NOUN", NoLabel, NoFeats)}],
    [surface |-> <<"yo", "n">>, cases |-> {"lower"}, lang |-> "FI", rows |-> {}, analyses |-> {}],
    [surface |-> <<"rongi", "soit">>, cases |-> {"lower"}, lang |-> "ET",
     rows |-> {}, analyses |-> {An(Low(<<"peatu">>), "NOUN", "Ine", NoFeats)}],
    [surface |-> <<"talo", "soit">>, cases |-> {"lower", "title"}, lang |-> "FI",
     rows |-> {}, analyses |-> {}],
    [surface |-> <<"talo", "ssa", "ni">>, cases |-> {"lower"}, lang |-> "FI", rows |-> {}, analyses |-> {}],
    [surface |-> <<"tarjoa", "n">>, cases |-> {"lower"}, lang |-> "FI",
     rows |-> {Row(Low(<<"tarjoa">>), "VERB", "kaikki", 10, NoFeats)}, analyses |-> {}] }

\* One row per reading: the primary key of forms.
Lists(S, n) == {s \in UNION {[1..k -> S] : k \in 0..n} :
                   \A i, j \in DOMAIN s : i # j => Reading(s[i]) # Reading(s[j])}
MCQueries ==
    UNION {[surface : {T(w.surface, c) : c \in w.cases}, lang : {w.lang}, mode : {"custom", "basic"},
            rows : Lists(w.rows, 3), analyses : UNION {[1..k -> w.analyses] : k \in 0..2},
            issues : {{}} \cup {{[word |-> w.surface, sense |-> {Reading(r)}]} : r \in {x \in w.rows : x.pos = "VERB"}}
                     \cup (IF w.lang = "ET" THEN {{[word |-> w.surface, sense |-> {}]}} ELSE {})] : w \in Worlds}
====
