----------------------------- MODULE DictLookup -----------------------------
(***************************************************************************)
(* How a surface is resolved to a reading: BatchLookupForms (one reading    *)
(* per surface) and BatchLookupAllForms with SurfaceCandidates (all the     *)
(* readings offered to a learner), internal/store/dict.go.                  *)
(*                                                                         *)
(* A word is a sequence of morphs of so many runes and bytes each; the code *)
(* tries every split, and halves that are not morphs are in no table.  A   *)
(* text is a word with its casing: lower, title (Tallinn), caps (EURO),    *)
(* capsStem (EUROn, its first morph in capitals) or mixed (a capital       *)
(* elsewhere in the first morph).  FEATS are functions from attributes to  *)
(* values.  A lookup reads the tables once; the query fixes what it reads. *)
(***************************************************************************)
EXTENDS Integers, Sequences, SequencesExt, FiniteSets, FiniteSetsExt, Lists

CONSTANTS
    Queries,       \* [surface, lang, mode, rows, analyses, issues] to be answered, the issues being the
                   \* quarantined ones: [word, sense] with a sense or, for a flagged surface, none
    Lexicon,       \* rows of the other forms: a function from words to sequences of rows
    LemmaTable,    \* rows of lemmas by word: sequences of [lemma, pos]
    MorphSize,     \* runes of each morph
    MorphBytes,    \* bytes of each morph
    MaCase,        \* the case of each MA-infinitive ending (maan |-> Ill, ...)
    ALongEndings,  \* endings of the long A-infinitive
    PossessiveSuffixes, \* in the order they are tried
    CaseSuffixes,  \* per language: sequences of [suffix, label]
    StemLemmas,    \* lemma spellings an Estonian stem may stand for, besides itself
    BadLemmas,     \* never the right Finnish lemma
    BadPairs,      \* surface and reading that never go together
    Overlay,       \* curated readings: a function from <<lang, text>>
    NameOrder,     \* alphabetic position of sources and parts of speech
    LemmaOrder     \* alphabetic position of lemmas

ASSUME DictLookupAssumption ==
    \A m \in DOMAIN MorphSize : MorphSize[m] \in Nat \ {0} /\ MorphBytes[m] \in Nat /\ MorphBytes[m] >= MorphSize[m]

VARIABLES
    query,    \* the surface looked up and the tables it is looked up in
    picked,   \* BatchLookupForms: a sequence of at most one resolution
    offered   \* BatchLookupAllForms

lookupVars == <<query, picked, offered>>

OverridePriority == 1000
NoFeats == <<>>
NoLabel == "none"
Plain(word) == [word |-> word, case |-> "lower"]
Upper(t) == t.case \in {"title", "caps", "capsStem"}   \* startsUpper
Special(t) == t.case \in {"mixed", "caps", "capsStem"} \* hasSpecialCapitalization
Same(t, u) == t.word = u.word              \* strings.EqualFold
Runes(word) == FoldSeq(LAMBDA m, n : MorphSize[m] + n, 0, word)
Bytes(word) == FoldSeq(LAMBDA m, n : MorphBytes[m] + n, 0, word) \* len
EndsIn(word, endings) == word # <<>> /\ Last(word) \in endings
MaSurface(t) == EndsIn(t.word, DOMAIN MaCase)   \* IsMaInfinitiveSurface
ALongSurface(t) == EndsIn(t.word, ALongEndings) \* IsAInfLongSurface
Reading(r) == <<r.lemma, r.pos>>

QueryFields == {"surface", "lang", "mode", "rows", "analyses", "issues"}

\* The rows of a form have different lemmas or parts of speech, its primary key, and names
\* in the same alphabetic position are the same name.
QueriesOK == \A q \in Queries :
    /\ q = [f \in QueryFields |-> q[f]]
    /\ q.rows \in Seq(Distinct(q.rows)) /\ q.analyses \in Seq(Distinct(q.analyses))
    /\ \A i, j \in DOMAIN q.rows : i # j => Reading(q.rows[i]) # Reading(q.rows[j])
    /\ \A r \in Distinct(q.rows) :
          {r.priority, NameOrder[r.source], NameOrder[r.pos], LemmaOrder[r.lemma]} \subseteq Int
    /\ \A r, s \in Distinct(q.rows) :
          /\ LemmaOrder[r.lemma] = LemmaOrder[s.lemma] => r.lemma = s.lemma
          /\ NameOrder[r.pos] = NameOrder[s.pos] => r.pos = s.pos

ASSUME QueriesAssumption == QueriesOK

-----------------------------------------------------------------------------
(* Which readings are considered at all.                                   *)

\* strings.HasPrefix, of texts with inner capitals: EURO begins EUROn.
BeginsWith(t, u) ==
    /\ IsPrefix(u.word, t.word)
    /\ \/ u.case = t.case
       \/ t.case = "capsStem" /\ u.case = "caps" /\ Len(u.word) = 1

\* candidateCaseCompatible: inner capitals must be matched exactly.
CaseCompatible(surface, lemma) ==
    IF Same(surface, lemma)
    THEN Special(surface) \/ Special(lemma) => surface = lemma
    ELSE Special(surface) /\ Special(lemma) => BeginsWith(surface, lemma)

\* isBadDictCandidate
BadCandidate(lang, word, lemma, pos) ==
    \/ lang = "FI" /\ (lemma \in BadLemmas \/ <<word, lemma>> \in BadPairs)
    \/ lang = "ET" /\ <<word, lemma, pos>> \in BadPairs

\* LookupFI, LookupET: an exact entry, else the entry of the lower-case text.
OverlayOf(lang, t) ==
    IF <<lang, t>> \in DOMAIN Overlay THEN <<Overlay[<<lang, t>>]>>
    ELSE IF <<lang, Plain(t.word)>> \in DOMAIN Overlay THEN <<Overlay[<<lang, Plain(t.word)>>]>>
    ELSE <<>>

\* Lemmatize, always asked about the lower-case form
Analyses(q) ==
    LET curated == OverlayOf(q.lang, Plain(q.surface.word))
    IN  IF curated # <<>> THEN curated ELSE q.analyses

\* lookupFormCandidates, filterCaseCompatibleCandidates
Considered(q, r) == /\ ~BadCandidate(q.lang, q.surface.word, r.lemma, r.pos)
                    /\ CaseCompatible(q.surface, r.lemma)
Candidates(q) == Taken(q.rows, {k \in DOMAIN q.rows : Considered(q, q.rows[k])})

-----------------------------------------------------------------------------
(* FEATS.                                                                  *)

Has(feats, attribute, value) == attribute \in DOMAIN feats /\ feats[attribute] = value
Without(feats, attributes) == [a \in DOMAIN feats \ attributes |-> feats[a]]
With(feats, more) == [a \in DOMAIN feats \cup DOMAIN more |->
                         IF a \in DOMAIN more THEN more[a] ELSE feats[a]]
CaseLabels == {"Gen", "Par", "Ill", "Ine", "Tra", "Ade"}

\* caseFromFeats: Nom stays implicit.
LabelOf(feats) ==
    IF "Case" \in DOMAIN feats /\ feats["Case"] # "Nom" THEN feats["Case"] ELSE NoLabel

\* featsFromCaseLabel: "genitive plural" and the like name no UD case.
FeatsOfLabel(label) == IF label \in CaseLabels THEN [Case |-> label] ELSE NoFeats

\* isNominalCaseOnlyFeats
CaseOnly(feats) == "Case" \in DOMAIN feats /\ DOMAIN feats \subseteq {"Case", "Number"}

\* sanitizeDictFeats
Sanitized(surface, r) ==
    IF r.pos = "VERB" /\ Same(surface, r.lemma) /\ Has(r.feats, "Case", "Ill")
                      /\ Has(r.feats, "VerbForm", "Sup")
    THEN [VerbForm |-> "Inf"]
    ELSE IF surface = r.lemma /\ Special(r.lemma) /\ CaseOnly(r.feats)
    THEN [Case |-> "Nom", Number |-> "Sing"]
    ELSE IF r.pos \in {"ADV", "ADP", "CCONJ", "SCONJ", "INTJ", "PART", "X"} /\ Same(surface, r.lemma) /\ CaseOnly(r.feats)
    THEN NoFeats
    ELSE r.feats

\* NormalizeMaInfinitive: a verb's FEATS read as those of the noun in -ma.
MaNormalized(surface, pos, feats) ==
    IF /\ pos = "VERB" /\ "Case" \in DOMAIN feats
       /\ ~(Has(feats, "VerbForm", "Inf") /\ Has(feats, "InfForm", "Ma"))
       /\ MaSurface(surface)
       /\ MaCase[Last(surface.word)] = feats["Case"]
    THEN With(Without(feats, (IF Has(feats, "Person", "3") THEN {"Person"} ELSE {})
                             \cup (IF Has(feats, "Number", "Sing") THEN {"Number"} ELSE {})),
              With([VerbForm |-> "Inf", InfForm |-> "Ma"],
                   IF "Voice" \in DOMAIN feats THEN NoFeats ELSE [Voice |-> "Act"]))
    ELSE feats

Resolution(r, feats, label, source) ==
    [lemma |-> r.lemma, pos |-> r.pos, feats |-> feats, label |-> label, source |-> source]

\* formResolutionFromCandidate
FromRow(surface, r) ==
    LET feats == MaNormalized(surface, r.pos, Sanitized(surface, r))
    IN  Resolution(r, feats, LabelOf(feats), {"dict"})

\* featsFromFSTAnalysis, formResolutionFromFSTAnalysis
FromAnalysis(surface, a, source) ==
    LET own == IF a.feats # NoFeats THEN a.feats ELSE FeatsOfLabel(a.label)
        feats == MaNormalized(surface, a.pos, own)
    IN  Resolution(a, feats, IF LabelOf(feats) # NoLabel \/ a.label = "Nom"
                             THEN LabelOf(feats) ELSE a.label, {source})

Morphology(res) == IF res.label # NoLabel \/ res.feats # NoFeats THEN 1 ELSE 0

-----------------------------------------------------------------------------
(* Dictionary rows and analyses as candidates of one ranking.              *)

\* enrichResolutionWithFST, undone when a later analysis of the reading differs
Enriched(res, found) ==
    IF Cardinality({<<f.label, f.feats>> : f \in found}) # 1 THEN res
    ELSE LET f == CHOOSE x \in found : TRUE
         IN  IF res.feats = NoFeats /\ f.feats # NoFeats
             THEN [res EXCEPT !.feats = f.feats, !.label = f.label, !.source = @ \cup {"fst"}]
             ELSE IF res.label = NoLabel /\ f.label # NoLabel
             THEN [res EXCEPT !.label = f.label, !.source = @ \cup {"fst"}]
             ELSE res

\* mergeAndRankDictFSTCandidates: analyses of a row's reading support that row, the
\* others stand for themselves, in the analyser's order and before the rows.
Merged(q) ==
    LET considered == {k \in DOMAIN q.rows : Considered(q, q.rows[k])}
        readings == Analyses(q)
        n == Len(readings)
        of(r) == {i \in 1..n : Reading(readings[i]) = Reading(r)}
        found(r) == {FromAnalysis(q.surface, readings[i], "fst") : i \in of(r)}
        known == {Reading(q.rows[k]) : k \in considered}
    IN  {[res |-> Enriched(FromRow(q.surface, q.rows[k]), found(q.rows[k])),
          priority |-> q.rows[k].priority, dict |-> TRUE, fst |-> of(q.rows[k]) # {},
          order |-> Min(of(q.rows[k]) \cup {n + k})] : k \in considered}
        \cup
        {[res |-> FromAnalysis(q.surface, readings[i], "fst"), priority |-> 0,
          dict |-> FALSE, fst |-> TRUE, order |-> i] :
            i \in {j \in 1..n : Reading(readings[j]) \notin known}}

CaseMatch(surface, lemma) == IF ~Upper(surface) /\ Upper(lemma) THEN 0 ELSE 1
POSSanity(surface, pos) == IF ~Upper(surface) /\ pos = "PROPN" THEN 0 ELSE 1

\* maInfinitiveBias
MaBias(surface, res) ==
    IF ~MaSurface(surface) \/ res.pos # "VERB" THEN 0
    ELSE IF EndsIn(res.lemma.word, {"ma"}) THEN -1
    ELSE IF Has(res.feats, "InfForm", "Ma") THEN 1 ELSE 0

\* aInfLongBias
ALongBias(surface, res) ==
    IF ~ALongSurface(surface) THEN 0
    ELSE IF Same(res.lemma, surface) THEN -1
    ELSE IF res.pos = "VERB" /\ Has(res.feats, "InfForm", "1")
                             /\ "Person[psor]" \in DOMAIN res.feats THEN 1 ELSE 0

\* maxNonVerbCitationPriority, etVerbInflectionBias
VerbBias(q, all, c) ==
    LET citations == {d.priority : d \in {x \in all : /\ x.res.pos # "VERB"
                                                      /\ Same(x.res.lemma, q.surface)}}
    IN  IF /\ q.lang = "ET" /\ citations # {} /\ Max(citations) >= 0 /\ c.res.pos = "VERB"
           /\ "Person" \in DOMAIN c.res.feats /\ c.priority >= Max(citations)
        THEN 1 ELSE 0

\* Mutant of FstBeatsWeakDict: any row without morphology counts as weak.
FstBeatsBareDict(c, d) ==
    /\ c.fst /\ ~c.dict /\ Morphology(c.res) > 0
    /\ d.dict /\ ~d.fst /\ Morphology(d.res) = 0

FstBeatsWeakDict(c, d) ==
    /\ c.fst /\ ~c.dict /\ Morphology(c.res) > 0
    /\ d.dict /\ ~d.fst /\ d.priority <= 0 /\ Morphology(d.res) = 0

\* supportScore
Support(c) == (IF c.dict THEN 3 ELSE 1) + (IF c.fst THEN 1 ELSE 0)

\* Comparison of two rows of keys, the first that differs decides.
Above(k, l) == \E i \in DOMAIN k : k[i] > l[i] /\ \A j \in 1..(i - 1) : k[j] = l[j]

\* The comparator of pickBestResolutionCandidate.
Precedes(q, all, c, d) ==
    LET form(x) == <<CaseMatch(q.surface, x.res.lemma), POSSanity(q.surface, x.res.pos),
                     MaBias(q.surface, x.res), ALongBias(q.surface, x.res),
                     VerbBias(q, all, x)>>
        worth(x) == <<x.priority, Support(x), Morphology(x.res), -x.order>>
    IN  \/ Above(form(c), form(d))
        \/ /\ form(c) = form(d)
           /\ \/ FstBeatsWeakDict(c, d)
              \/ ~FstBeatsWeakDict(d, c) /\ Above(worth(c), worth(d))

\* sort.SliceStable, first element
BestMerged(q) ==
    LET all == Merged(q)
    IN  (CHOOSE c \in all : \A d \in all : ~Precedes(q, all, d, c)).res

-----------------------------------------------------------------------------
(* The rankings of dictionary rows alone and of analyses alone.            *)

\* Mutant of RowKeys: ties between parts of speech stay as they come.
RowKeysWithoutPOS(surface, r) ==
    <<CaseMatch(surface, r.lemma), POSSanity(surface, r.pos), r.priority,
      -NameOrder[r.source], -LemmaOrder[r.lemma]>>

\* pickBestFormCandidate
RowKeys(surface, r) ==
    <<CaseMatch(surface, r.lemma), POSSanity(surface, r.pos), r.priority,
      -NameOrder[r.source], -LemmaOrder[r.lemma], -NameOrder[r.pos]>>

\* pickBestFSTAnalysis, pickBestVFSTAnalysis
AnalysisKeys(surface, a) ==
    <<CaseMatch(surface, a.lemma), POSSanity(surface, a.pos),
      IF Upper(surface) = Upper(a.lemma) THEN 1 ELSE 0,
      -LemmaOrder[a.lemma], -NameOrder[a.pos]>>

\* The first of a sequence none of the others is above.
FirstBest(seq, keys(_)) ==
    seq[Min({i \in DOMAIN seq : \A j \in DOMAIN seq : ~Above(keys(seq[j]), keys(seq[i]))})]

BestRow(surface, rows) == FirstBest(rows, LAMBDA r : RowKeys(surface, r))

\* tryFSTAnalyze: the analysis is judged against the lower-case form.
BestAnalysis(q) ==
    LET lower == Plain(q.surface.word)
    IN  FromAnalysis(lower, FirstBest(Analyses(q), LAMBDA a : AnalysisKeys(lower, a)), "fst")

-----------------------------------------------------------------------------
(* The fallbacks of the custom mode.  Each is a sequence of at most one     *)
(* resolution, the first in the order the code tries.                      *)

RowsOf(word) == IF word \in DOMAIN Lexicon THEN Lexicon[word] ELSE <<>>
LemmasOf(word) == IF word \in DOMAIN LemmaTable THEN LemmaTable[word] ELSE <<>>
FirstOf(seqs) == LET found == SelectSeq(seqs, LAMBDA s : s # <<>>)
                 IN  IF found = <<>> THEN <<>> ELSE <<Head(Head(found))>>
Found(r, label, feats, source) == <<Resolution(r, feats, label, {source})>>

\* tryStripPossessive
Stripped(word) ==
    FirstOf([k \in DOMAIN PossessiveSuffixes |->
        IF EndsIn(word, {PossessiveSuffixes[k]}) /\ Bytes(Front(word)) >= 2
           /\ RowsOf(Front(word)) # <<>>
        THEN Found(Head(RowsOf(Front(word))), NoLabel, NoFeats, "possessive")
        ELSE <<>>])

Glued(left, t) == [word |-> left \o t.word,
                   case |-> IF t.case = "lower" THEN "lower" ELSE "mixed"]

\* Splits with both halves of 3 runes and more and a row, the longest left first.
Splits(word) ==
    LET n == Len(word)
        cuts == [i \in 1..(n - 1) |-> [left |-> SubSeq(word, 1, n - i),
                                       right |-> SubSeq(word, n - i + 1, n)]]
    IN  IF Runes(word) < 6 \/ Runes(word) > 30 \/ n < 2 THEN <<>>
        ELSE SelectSeq(cuts, LAMBDA s : /\ Runes(s.left) >= 3 /\ Runes(s.right) >= 3
                                        /\ RowsOf(s.left) # <<>> /\ RowsOf(s.right) # <<>>)

CompoundOf(s) ==
    LET right == Head(RowsOf(s.right))
    IN  <<Resolution([lemma |-> Glued(s.left, right.lemma), pos |-> right.pos],
                     NoFeats, NoLabel, {"compound"})>>

\* tryCompoundSplit: a left half that is its own lemma, else a right half that is.
Compound(word) ==
    LET nominative == SelectSeq(Splits(word),
                                LAMBDA s : Head(RowsOf(s.left)).lemma = Plain(s.left))
        genitive == SelectSeq(Splits(word),
                              LAMBDA s : Head(RowsOf(s.right)).lemma = Plain(s.right))
        splits == nominative \o genitive
    IN  IF splits = <<>> THEN <<>> ELSE CompoundOf(Head(splits))

\* caseSuffixLemmaCandidates, appendEstonianLemmaCandidates
StemCandidates(stem, lang) ==
    <<stem>> \o (IF lang = "ET" /\ stem \in DOMAIN StemLemmas THEN StemLemmas[stem] ELSE <<>>)

\* tryCaseSuffixStrip
SuffixStripped(word, lang) ==
    FirstOf([k \in DOMAIN CaseSuffixes[lang] |->
        LET cs == CaseSuffixes[lang][k]
            stems == StemCandidates(Front(word), lang)
            known == SelectSeq(stems, LAMBDA s : LemmasOf(s) # <<>>)
        IN  IF EndsIn(word, {cs.suffix}) /\ Bytes(Front(word)) >= 3 /\ known # <<>>
            THEN Found(Head(LemmasOf(Head(known))), cs.label, FeatsOfLabel(cs.label), "case_suffix")
            ELSE <<>>])

\* attachCaseLabelIfStemMatches
WithSuffixLabel(q, res) ==
    LET stripped == SuffixStripped(q.surface.word, q.lang)
    IN  IF /\ "dict" \in res.source /\ res.label = NoLabel /\ res.feats = NoFeats
           /\ stripped # <<>> /\ Head(stripped).lemma = res.lemma
        THEN [res EXCEPT !.label = Head(stripped).label, !.source = @ \cup {"case_suffix_label"}]
        ELSE res

\* lookupLexOverlay: never for inner capitals.
Curated(q) ==
    IF q.mode # "custom" \/ Special(q.surface) \/ OverlayOf(q.lang, q.surface) = <<>> THEN <<>>
    ELSE <<FromAnalysis(q.surface, Head(OverlayOf(q.lang, q.surface)), "lex-overlay")>>

\* BatchLookupForms
PickOf(q) ==
    IF Curated(q) # <<>> THEN Curated(q)
    ELSE IF Candidates(q) # <<>>
    THEN IF q.mode = "custom" THEN <<WithSuffixLabel(q, BestMerged(q))>>
         ELSE <<FromRow(q.surface, BestRow(q.surface, Candidates(q)))>>
    ELSE IF q.mode # "custom" THEN <<>>
    ELSE FirstOf(<<IF q.lang = "FI" THEN Stripped(q.surface.word) ELSE <<>>,
                   Compound(q.surface.word), SuffixStripped(q.surface.word, q.lang),
                   IF Analyses(q) = <<>> THEN <<>> ELSE <<BestAnalysis(q)>>>>)

-----------------------------------------------------------------------------
(* All the readings of a surface.                                          *)

Demoted(surface, res) == -1 \in {MaBias(surface, res), ALongBias(surface, res)}
Promoted(surface, res) == 1 \in {MaBias(surface, res), ALongBias(surface, res)}

FromFST(q) == [i \in DOMAIN Analyses(q) |-> FromAnalysis(q.surface, Analyses(q)[i], "fst")]

\* Mutant of Added: readings are told apart by their lemma.
AddedByLemma(q, listed, wanted) ==
    LET all == FromFST(q)
    IN  Taken(all, {i \in DOMAIN all : all[i] \in wanted /\ \A r \in Distinct(listed) :
                                                                r.lemma # all[i].lemma})

\* The wanted analyses, without those whose reading is listed or came before.
Added(q, listed, wanted) ==
    LET all == FromFST(q)
        fresh == {i \in DOMAIN all : all[i] \in wanted /\ \A r \in Distinct(listed) :
                                                               Reading(r) # Reading(all[i])}
        first == {i \in fresh : \A j \in fresh : j < i => Reading(all[j]) # Reading(all[i])}
    IN  Taken(all, first)

\* correctFICandidates
FinnishCorrected(q, listed) ==
    LET kept == Taken(listed, {i \in DOMAIN listed : ~Demoted(q.surface, listed[i])})
    IN  IF Len(kept) = Len(listed) THEN kept
        ELSE kept \o Added(q, kept, {r \in Distinct(FromFST(q)) : Promoted(q.surface, r)})

\* mergeFSTOnlyCandidates
WithAnalyses(q, listed) ==
    listed \o Added(q, listed, {r \in Distinct(FromFST(q)) :
                                    /\ ~BadCandidate("FI", q.surface.word, r.lemma, r.pos)
                                    /\ CaseCompatible(q.surface, r.lemma)})

\* The accepted corrections of a surface
Overrides(q) == Taken(q.rows, {k \in DOMAIN q.rows : /\ q.rows[k].source = "custom_overrides"
                                                     /\ q.rows[k].priority >= OverridePriority})

\* batchLookupAllForms: `merge' is MergeFSTReadings.
AllReadings(q, merge) ==
    LET listed(rows) == [i \in DOMAIN rows |->
                            Resolution(rows[i], NoFeats, NoLabel, {"dict"})]
        corrected == IF q.lang = "FI" THEN FinnishCorrected(q, listed(Candidates(q)))
                     ELSE listed(Candidates(q))
    IN  IF Curated(q) # <<>> THEN Curated(q)
        ELSE IF q.mode = "custom" /\ Overrides(q) # <<>> THEN listed(Overrides(q))
        ELSE IF merge /\ q.lang = "FI" THEN WithAnalyses(q, corrected)
        ELSE corrected

\* LoadQuarantinedSenseFilter: an issue with a sense hides that sense everywhere, one without
\* hides every sense of its surface.
QuarantineFilter(issues) ==
    [senses   |-> UNION {i.sense : i \in issues},
     surfaces |-> {i.word : i \in {x \in issues : x.sense = {}}}]

Suppresses(filter, surface, r) == Reading(r) \in filter.senses \/ surface.word \in filter.surfaces

\* SurfaceCandidates: what quarantine leaves, when that is a choice; always the custom mode.
Meanings(q) ==
    LET filter == QuarantineFilter(q.issues)
        all == AllReadings([q EXCEPT !.mode = "custom"], TRUE)
        left == Taken(all, {i \in DOMAIN all : ~Suppresses(filter, q.surface, all[i])})
    IN  IF Len(left) >= 2 THEN left ELSE <<>>

-----------------------------------------------------------------------------
(* The steps: a parse picks one reading of the surface, and then collects  *)
(* the meanings a learner may choose from.                                 *)

LookupInit == query \in Queries /\ picked = <<>> /\ offered = <<>>

BatchLookupForms ==
    /\ picked = <<>> /\ offered = <<>>
    /\ picked' = <<PickOf(query)>>
    /\ UNCHANGED <<query, offered>>

SurfaceCandidates ==
    /\ picked # <<>> /\ offered = <<>>
    /\ offered' = <<Meanings(query)>>
    /\ UNCHANGED <<query, picked>>

LookupNext == BatchLookupForms \/ SurfaceCandidates
LookupSpec == LookupInit /\ [][LookupNext]_lookupVars

Pick == IF picked = <<>> THEN <<>> ELSE Head(picked)
Offer == IF offered = <<>> THEN <<>> ELSE Head(offered)

-----------------------------------------------------------------------------
(* Properties.                                                             *)

\* The comparator of the merged ranking is a strict weak order whatever rows and
\* analyses meet: sort.SliceStable then returns a reading nothing outranks, and not
\* one that depends on the order of its comparisons.
RankingIsAnOrder ==
    LET all == Merged(query)
        before(c, d) == Precedes(query, all, c, d)
    IN  \A c, d, e \in all :
            /\ ~(before(c, d) /\ before(d, c))
            /\ before(c, d) => before(c, e) \/ before(e, d)

\* In basic mode the same rows give the same reading whatever order SQLite returns
\* them in (the comment on pickBestFormCandidate).
BasicPickIgnoresRowOrder ==
    LET n == Len(query.rows)
        reordered(p) == [query EXCEPT !.rows = [i \in 1..n |-> query.rows[p[i]]]]
    IN  query.mode = "basic" /\ picked # <<>> =>
            \A p \in {f \in [1..n -> 1..n] : IsInjective(f)} : PickOf(reordered(p)) = Head(picked)

Readings(listed) == {Reading(x) : x \in Distinct(listed)}

\* A learner offered several meanings of a Finnish surface the dictionary has is offered
\* the one the parse shows, unless it is quarantined, demoted or on a blocklist: the two
\* lookups agree on the headword (the comment on correctFICandidates).  Of a surface with
\* accepted corrections only these are offered, also when its casing made the parse show
\* another reading.
PickIsOffered ==
    Offer # <<>> /\ query.lang = "FI" /\ query.mode = "custom" /\ Candidates(query) # <<>> =>
        LET r == Head(Pick)
        IN  \/ Reading(r) \in Readings(Offer)
            \/ Suppresses(QuarantineFilter(query.issues), query.surface, r)
            \/ Demoted(query.surface, r)
            \/ Overrides(query) # <<>> /\ Reading(r) \notin Readings(Overrides(query))
            \/ "dict" \notin r.source /\ \/ BadCandidate(query.lang, query.surface.word, r.lemma, r.pos)
                                         \/ ~CaseCompatible(query.surface, r.lemma)

=============================================================================
