----------------------------- MODULE EkilexForms -----------------------------
(***************************************************************************)
(* The reduced Ekilex drop as the importer reads it                        *)
(* (cmd/importekilexdetails/main.go): how the entries of a lemma are       *)
(* merged per part of speech, and how the readings of one word form are    *)
(* merged into one row.  Operators only; Dictionary stores their results.  *)
(***************************************************************************)
EXTENDS Integers, Sequences, SequencesExt

CONSTANTS
    NoFeats,     \* the empty FEATS string, and NULL
    Repairs      \* <<stale, fresh>> FEATS an Ekilex re-import may replace

(***************************************************************************)
(* An entry is [lemma, class, meanings]; class is the UPOS of its          *)
(* word_class, "" when that is not mapped.  A meaning is [pos, en, et]:    *)
(* the mapped parts of speech, its translations and its definitions.  A    *)
(* translation is [key, upper]: its lowercase spelling and whether it      *)
(* begins with a capital.                                                  *)
(***************************************************************************)

\* A meaning without a mapped part of speech takes that of its entry.
MeaningPOS(e, m) ==
    IF m.pos # {} THEN m.pos ELSE {e.class} \ {""}

\* aggregateDefinitions: the meanings of a lemma under one part of speech.
MeaningsOf(entries, s) ==
    FlattenSeq([i \in DOMAIN entries |->
        IF entries[i].lemma = s.lemma
        THEN SelectSeq(entries[i].meanings, LAMBDA m : s.pos \in MeaningPOS(entries[i], m))
        ELSE <<>>])

\* The parts of speech an entry is filed under: those of its meanings, else
\* its word class.
EntryPOS(e) ==
    LET resolved == UNION {MeaningPOS(e, m) : m \in Range(e.meanings)}
    IN  IF resolved # {} THEN resolved ELSE {e.class} \ {""}

\* Each element once, where it stands first.
Firsts(seq) ==
    FoldLeft(LAMBDA seen, x : IF Contains(seen, x) THEN seen ELSE Append(seen, x), <<>>, seq)

\* lemmaPOSMap.add, chooseCasing, orderedTranslations: one translation per
\* lowercase spelling, in the order of the drop; a capital wins.
OrderedTranslations(meanings) ==
    LET all == FlattenSeq([i \in DOMAIN meanings |-> meanings[i].en])
        keys == Firsts([i \in DOMAIN all |-> all[i].key])
    IN  [i \in DOMAIN keys |->
            [key |-> keys[i],
             upper |-> \E t \in Range(all) : t.key = keys[i] /\ t.upper]]

\* lemmaPOSMap.add: each definition once, in the order of the drop.
OrderedDefinitions(meanings) ==
    Firsts(FlattenSeq([i \in DOMAIN meanings |-> meanings[i].et]))

\* The keys of lemmaPOSMap.
ListedIn(entries, s) ==
    \E e \in Range(entries) : e.lemma = s.lemma /\ s.pos \in EntryPOS(e)

\* joinTranslationData: the joined translations, else the first definition
\* marked as Estonian, else nothing.
JoinedGloss(entries, s) ==
    LET meanings == MeaningsOf(entries, s)
        en == OrderedTranslations(meanings)
        et == OrderedDefinitions(meanings)
    IN  IF en # <<>> THEN en
        ELSE IF et # <<>> THEN <<[et |-> Head(et)]>> ELSE <<>>

-----------------------------------------------------------------------------
(***************************************************************************)
(* A line of the forms files is [lemma, form, code]; a code is             *)
(* [name, class, feats].  Names other than "ID" and "SgN" are alike.       *)
(***************************************************************************)

\* posMatchesMorphClass
ClassMatches(pos, class) ==
    CASE class = "verbal"  -> pos = "VERB"
      [] class = "nominal" -> pos # "VERB"
      [] OTHER             -> TRUE

\* The codes importForms applies to the row of a form and a sense, in file order.
ReadingsOf(entries, lines, form, s) ==
    IF ~ListedIn(entries, s) THEN <<>>
    ELSE LET applied == SelectSeq(lines, LAMBDA l :
                            /\ l.lemma = s.lemma /\ l.form = form
                            /\ ClassMatches(s.pos, l.code.class))
         IN  [i \in DOMAIN applied |-> applied[i].code]

\* One line against the row so far: stmtInvariant, stmtNominative, stmt.  An
\* invariant reading closes the row; a nominative one replaces; any other fills
\* empty FEATS, replaces those of a weaker source and repairs stale ones.
MergeReading(acc, code) ==
    IF acc.invariant /\ code.name # "ID" THEN acc
    ELSE IF code.name = "ID" THEN [feats |-> NoFeats, owned |-> TRUE, invariant |-> TRUE]
    ELSE [acc EXCEPT !.owned = TRUE,
                     !.feats = IF \/ code.name = "SgN"
                                  \/ /\ code.feats # NoFeats
                                     /\ ~acc.owned \/ @ = NoFeats \/ <<@, code.feats>> \in Repairs
                               THEN code.feats ELSE @]

\* importForms: the FEATS left on a row that held `feats', owned by Ekilex or by
\* a weaker source, after a run over its readings.
MergedFeats(feats, owned, readings) ==
    FoldLeft(MergeReading, [feats |-> feats, owned |-> owned, invariant |-> FALSE],
             readings).feats
=============================================================================
