----------------------------- MODULE Dictionary -----------------------------
(***************************************************************************)
(* The dictionary tables and everything that writes them: the importers    *)
(* (cmd/importdict, cmd/importekilexdetails, cmd/importekilex,             *)
(* cmd/importkotus, cmd/importgoldsurfaces), the write-back of accepted    *)
(* parser feedback (ReviewParseFeedback in internal/store/db.go) and the   *)
(* export of what it promotes (cmd/exportgoldcandidates).                  *)
(*                                                                         *)
(* One importer runs at a time, beside a server whose administrators       *)
(* review reports.  Each transaction is one step: SQLite refuses a write   *)
(* that follows a stale read.  An importer may end between two of its      *)
(* transactions (a truncated stream, an error, a kill), and is then run    *)
(* again, with this or another input.  Every statement names a language,   *)
(* so the tables of one are modelled: Estonian, which Ekilex is for, or    *)
(* Finnish, which Kotus is for.  A sense is a (lemma, pos) pair.  A        *)
(* statement that fails inside the kaikki import is logged and skipped     *)
(* there; it is left out.                                                  *)
(***************************************************************************)
EXTENDS EkilexForms, FiniteSets

CONSTANTS
    Words,         \* spellings: forms and lemmas
    Senses,        \* records [lemma, pos]
    NoSense,       \* not a sense
    KaikkiDumps,   \* sequences of entries [sense, glosses, forms]
    Structural,    \* glosses that only restate a form ("plural of ...")
    BatchSize,     \* entries per transaction of the kaikki import
    GlossFiles,    \* -custom-glosses: sequences of [sense, gloss]
    EkilexDrops,   \* records [entries, lines], see EkilexForms
    SmokeImports,  \* answers of the Ekilex API: sequences of [value, class, lexemes, forms]
    SourcePriorities, \* values of importdict's -source-priority
    WordLists,     \* public word snapshots: sets of words
    KotusLists,    \* Kotus word lists: sequences of [lemma, labels, classes]
    wordClassMap,  \* the part of speech of each label of a word list that has one
    Reports,       \* filed reports
    ReporterOf, SurfaceOf, ProposalOf,  \* of each report; a proposal is [sense, feats]
    FormOf,        \* strings.ToLower(strings.TrimSpace(surface))
    LowerOf,       \* SQLite's lower(surface): ASCII only, untrimmed
    GoldSets,      \* gold data: functions from <<form, sense>> to case counts
    Promoted,      \* gold_candidates rows whose reporters have left: supporters by <<form, sense>>
    LearnerGloss,  \* etLearnerGlossOverrides: glosses of some senses
    goldConflictMinCases, GoldPromotionThreshold,
    MaxRuns,       \* bound on importer runs
    MaxReviews,    \* bound on reviews
    MaxExports     \* bound on exports

Sources == {"none", "public", "kaikki", "kotus", "ekilex", "custom", "custom_overrides"}

\* source_priority of the writers that do not take it from a flag.
Priority == [public |-> 0, kotus |-> 10, ekilex |-> 20, custom |-> 100, custom_overrides |-> 1000]

\* A spelling that SQLite lowers to a normalised form is normalised to it.  Nobody
\* gives an import the rank of accepted corrections.
ASSUME DictionaryAssumption ==
    /\ BatchSize \in Nat \ {0}
    /\ NoSense \notin Senses
    /\ MaxRuns \in Nat /\ MaxReviews \in Nat /\ MaxExports \in Nat
    /\ \A prio \in SourcePriorities : prio \in Int /\ prio < Priority["custom_overrides"]
    /\ \A file \in KaikkiDumps \cup GlossFiles \cup KotusLists : file \in Seq(Range(file))
    /\ \A dump \in KaikkiDumps : \A e \in Range(dump) : e.glosses \in Seq(Range(e.glosses))
    /\ \A file \in KotusLists : \A e \in Range(file) : e.classes \in Seq(Range(e.classes))
    /\ \A r \in Reports : /\ ProposalOf[r].sense \in Senses \cup {NoSense}
                          /\ FormOf[SurfaceOf[r]] \in Words
    /\ \A q, r \in Reports : LowerOf[SurfaceOf[q]] = FormOf[SurfaceOf[r]] =>
                                 FormOf[SurfaceOf[q]] = FormOf[SurfaceOf[r]]

VARIABLES
    lang,        \* the language of the tables
    lemmaRow,    \* lemmas: [src, prio, gloss] of each sense
    formRow,     \* forms: [src, prio, feats] of each word and sense
    trans,       \* translations: the sense_idx rows of each source and sense
    definitions, \* definitions of each sense, written by Ekilex only
    paradigm,    \* lemmas.paradigm_class: at most one class of each sense
    job,         \* the running importer
    report,      \* parse_feedback: [sense, feats, status] of each report
    gold,        \* gold_surfaces
    candidate,   \* gold_candidates: supporter_count, 0 without a row
    exported,    \* those whose status is no longer 'pending'
    export,      \* what a running export has listed, and has yet to mark
    printed,     \* history: candidates an export has printed
    wordList,    \* history: the last word list imported since the lemmas were dropped
    answer,      \* the last accepted correction of each form (a history variable)
    runs, reviews, exports \* how much of the bounds is used

kotusVars == <<paradigm, wordList>>
importVars == <<lang, lemmaRow, formRow, trans, definitions, kotusVars>>
exportVars == <<exported, export, printed, exports>>
loopVars == <<report, gold, candidate, exportVars>>
vars == <<importVars, job, loopVars, answer, runs, reviews>>

Idle == [tool |-> "none"]
Translated == {"kaikki", "ekilex"}
Statuses == {"submitted", "accepted", "rejected", "needs_follow_up"}

EntriesOfDumps == UNION {Range(dump) : dump \in KaikkiDumps}
Glosses == UNION {Range(e.glosses) : e \in EntriesOfDumps}
Classes == UNION {Range(e.classes) : e \in UNION {Range(file) : file \in KotusLists}}

\* No row.
NoLemma == [src |-> "none", prio |-> 0, gloss |-> <<>>]
NoForm == [src |-> "none", prio |-> 0, feats |-> NoFeats]

\* The three things cmd/importdict does, each after an optional -reimport.
ImportPlaces == {"dropForms", "dropLemmas", "dropTranslations", "import", "glosses"}
GlossLists == Seq(UNION {Range(file) : file \in GlossFiles})

KaikkiJobs ==
    [tool : {"kaikki"}, pc : ImportPlaces, dump : KaikkiDumps, prio : SourcePriorities,
     done : Nat, csv : GlossLists]

BackfillJobs == [tool : {"backfill"}, pc : ImportPlaces, dump : KaikkiDumps, done : Nat]

SmokeJobs ==
    [tool : {"smoke"}, pc : ImportPlaces, words : SmokeImports, prio : SourcePriorities,
     csv : GlossLists]

EkilexJobs ==
    [tool : {"ekilex"}, pc : {"lemmas", "translations", "definitions", "forms", "record"},
     drop : EkilexDrops]

\* Every row has a source of the table, a report a status the handlers know, and
\* an importer is no further than its input.
TypeOK ==
    /\ DOMAIN lemmaRow = Senses
    /\ \A s \in Senses : /\ DOMAIN lemmaRow[s] = {"src", "prio", "gloss"}
                         /\ lemmaRow[s].src \in Sources /\ lemmaRow[s].prio \in Int
    /\ DOMAIN formRow = Words
    /\ \A f \in Words :
        /\ DOMAIN formRow[f] = Senses
        /\ \A s \in Senses : /\ DOMAIN formRow[f][s] = {"src", "prio", "feats"}
                             /\ formRow[f][s].src \in Sources \ {"custom"}
                             /\ formRow[f][s].prio \in Int
    /\ DOMAIN trans = Translated /\ DOMAIN trans["ekilex"] = Senses
    /\ trans["kaikki"] \in [Senses -> Seq(Glosses)]
    /\ paradigm \in [Senses -> Seq(Classes)]
    /\ job \in {Idle} \cup KaikkiJobs \cup BackfillJobs \cup SmokeJobs \cup EkilexJobs
    /\ job.tool = "kaikki" => job.done <= Len(job.dump)
    /\ DOMAIN report = Reports
    /\ \A r \in Reports : /\ report[r].sense \in Senses \cup {NoSense}
                          /\ report[r].status \in Statuses
    /\ DOMAIN candidate = Words \X Senses
    /\ answer \in [Words -> Senses \cup {NoSense}]
    /\ runs \in 0..MaxRuns /\ reviews \in 0..MaxReviews /\ exports \in 0..MaxExports
    /\ export \cup exported \subseteq Words \X Senses /\ lang \in {"FI", "ET"}

Init ==
    /\ lang \in {"FI", "ET"}
    /\ lemmaRow = [s \in Senses |-> NoLemma]
    /\ formRow = [f \in Words |-> [s \in Senses |-> NoForm]]
    /\ trans = [t \in Translated |-> [s \in Senses |-> <<>>]]
    /\ definitions = [s \in Senses |-> <<>>]
    /\ job = Idle
    /\ report = [r \in Reports |-> [sense |-> ProposalOf[r].sense,
                                    feats |-> ProposalOf[r].feats,
                                    status |-> "submitted"]]
    /\ gold = [k \in Words \X Senses |-> 0]
    /\ candidate = [k \in Words \X Senses |-> IF k \in DOMAIN Promoted THEN Promoted[k] ELSE 0]
    /\ exported = {} /\ export = {} /\ printed = {} /\ exports = 0
    /\ paradigm = [s \in Senses |-> <<>>] /\ wordList = <<>>
    /\ answer = [f \in Words |-> NoSense]
    /\ runs = 0 /\ reviews = 0

-----------------------------------------------------------------------------
(* The upserts the importers share.                                        *)

\* Mutant of Outranks: the conflict clauses without their WHERE.
OutranksAlways(prio, row) == TRUE

\* WHERE source_priority <= excluded.source_priority
Outranks(prio, row) == row.src = "none" \/ row.prio <= prio

\* upsertLemmaSQL
UpsertLemma(rows, s, src, prio, gloss) ==
    IF Outranks(prio, rows[s])
    THEN [rows EXCEPT ![s] = [src |-> src, prio |-> prio, gloss |-> gloss]]
    ELSE rows

\* upsertLemmaSQL for a sequence of entries of one source: the last one stays.
UpsertLemmas(src, prio, entries) ==
    [s \in Senses |->
        LET own == {i \in DOMAIN entries : entries[i].sense = s}
        IN  IF own # {} /\ Outranks(prio, lemmaRow[s])
            THEN [src |-> src, prio |-> prio, gloss |-> entries[Max(own)].gloss]
            ELSE lemmaRow[s]]

\* upsertFormSQL for many rows of one source: `listed' holds, per form and sense,
\* the FEATS in the order they are written; the last one stays.
UpsertForms(src, prio, listed) ==
    [f \in Words |-> [s \in Senses |->
        IF listed[f][s] # <<>> /\ Outranks(prio, formRow[f][s])
        THEN [src |-> src, prio |-> prio, feats |-> Last(listed[f][s])]
        ELSE formRow[f][s]]]

\* A process starts; each tool says what its job is.
StartJob ==
    /\ job = Idle /\ runs < MaxRuns
    /\ runs' = runs + 1
    /\ UNCHANGED <<importVars, loopVars, answer, reviews>>

\* The process ends early; the transaction it is in is rolled back.
Abort ==
    /\ job # Idle
    /\ job' = Idle
    /\ UNCHANGED <<importVars, loopVars, answer, runs, reviews>>

jobKeeps == <<lang, kotusVars, loopVars, answer, runs, reviews>>

-----------------------------------------------------------------------------
(* cmd/importdict: what its flags ask for.                                 *)

\* The first place of a run of importdict.
FirstPlace(reimport) == IF reimport THEN "dropForms" ELSE "import"

StartKaikki(dump, prio, reimport, csv) ==
    /\ StartJob
    /\ job' = [tool |-> "kaikki", pc |-> FirstPlace(reimport), dump |-> dump, prio |-> prio,
               done |-> 0, csv |-> csv]

\* -backfill-feats: -custom-glosses and the metadata are not reached.
StartBackfill(dump, reimport) ==
    /\ StartJob
    /\ job' = [tool |-> "backfill", pc |-> FirstPlace(reimport), dump |-> dump, done |-> 0]

\* -source-key ekilex.  That it is for Estonian is found out after -reimport.
StartSmoke(words, prio, reimport, csv) ==
    /\ StartJob
    /\ job' = [tool |-> "smoke", pc |-> FirstPlace(reimport), words |-> words, prio |-> prio,
               csv |-> csv]

ImportAt(tools, place) == job.tool \in tools /\ job.pc = place

\* -reimport: three statements, each committed by itself.  Corrections go too.
DropForms ==
    /\ ImportAt({"kaikki", "backfill", "smoke"}, "dropForms")
    /\ formRow' = [f \in Words |-> [s \in Senses |-> NoForm]]
    /\ answer' = [f \in Words |-> NoSense]
    /\ job' = [job EXCEPT !.pc = "dropLemmas"]
    /\ UNCHANGED <<lang, lemmaRow, trans, definitions, kotusVars, loopVars, runs, reviews>>

DropLemmas ==
    /\ ImportAt({"kaikki", "backfill", "smoke"}, "dropLemmas")
    /\ lemmaRow' = [s \in Senses |-> NoLemma]
    /\ paradigm' = [s \in Senses |-> <<>>] /\ wordList' = <<>>
    /\ job' = [job EXCEPT !.pc = "dropTranslations"]
    /\ UNCHANGED <<lang, formRow, trans, definitions, loopVars, answer, runs, reviews>>

DropTranslations ==
    /\ ImportAt({"kaikki", "backfill", "smoke"}, "dropTranslations")
    /\ trans' = [t \in Translated |-> [s \in Senses |-> <<>>]]
    /\ job' = [job EXCEPT !.pc = "import"]
    /\ UNCHANGED <<lemmaRow, formRow, definitions, jobKeeps>>

-----------------------------------------------------------------------------
(* The kaikki dump.                                                        *)

\* The translation rows of an entry: its meanings, numbered from 0.
WithMeaning(rows, gloss) == IF gloss \in Structural THEN rows ELSE Append(rows, gloss)
Meanings(e) == FoldLeft(WithMeaning, <<>>, e.glosses)

\* pickPrimaryGloss: the first real meaning, else the first gloss.
PrimaryGloss(e) ==
    IF Meanings(e) # <<>> THEN <<Head(Meanings(e))>>
    ELSE IF e.glosses # <<>> THEN <<Head(e.glosses)>> ELSE <<>>

\* upsertTranslationSQL: an entry overwrites the numbers it uses and leaves the
\* higher ones of an earlier entry of the same sense.
Renumbered(rows, e) ==
    [rows EXCEPT ![e.sense] =
        Meanings(e) \o SubSeq(@, Len(Meanings(e)) + 1, Len(@))]

\* The FEATS an entry writes for a form: none for its headword, then one per
\* listed form that is neither the headword nor possessive.
FeatsListed(e, form, s) ==
    IF e.sense # s THEN <<>>
    ELSE IF form = s.lemma THEN <<NoFeats>>
    ELSE LET kept == SelectSeq(e.forms, LAMBDA x : x.form = form /\ ~x.possessive)
         IN  [i \in DOMAIN kept |-> kept[i].feats]

\* Mutant of FirstBatchDeletes: translations are upserted and never deleted.
FirstBatchDeletesNothing(rows) == rows

\* The DELETE of this source's translations, in the first transaction.
FirstBatchDeletes(rows) ==
    IF job.done = 0 THEN [s \in Senses |-> <<>>] ELSE rows

\* importJSONL: one transaction of up to batchSize entries.
KaikkiBatch ==
    /\ ImportAt({"kaikki"}, "import")
    /\ LET batch == SubSeq(job.dump, job.done + 1,
                           IF job.done + BatchSize < Len(job.dump)
                           THEN job.done + BatchSize ELSE Len(job.dump))
       IN  /\ lemmaRow' = UpsertLemmas("kaikki", job.prio, [i \in DOMAIN batch |->
                  [sense |-> batch[i].sense, gloss |-> PrimaryGloss(batch[i])]])
           /\ trans' = [trans EXCEPT !["kaikki"] =
                           FoldLeft(Renumbered, FirstBatchDeletes(@), batch)]
           /\ formRow' = UpsertForms("kaikki", job.prio, [f \in Words |-> [s \in Senses |->
                  FlattenSeq([i \in DOMAIN batch |-> FeatsListed(batch[i], f, s)])]])
           /\ job' = [job EXCEPT !.done = @ + Len(batch),
                                 !.pc = IF job.done + Len(batch) = Len(job.dump)
                                        THEN "glosses" ELSE @]
    /\ UNCHANGED <<definitions, jobKeeps>>

\* applyCustomGlosses: one row of the file, committed by itself.
ApplyCustomGloss ==
    /\ ImportAt({"kaikki", "smoke"}, "glosses") /\ job.csv # <<>>
    /\ LET row == Head(job.csv)
       IN  lemmaRow' = UpsertLemma(lemmaRow, row.sense, "custom", Priority["custom"], <<row.gloss>>)
    /\ job' = [job EXCEPT !.csv = Tail(@)]
    /\ UNCHANGED <<formRow, trans, definitions, jobKeeps>>

\* recordImportMetadata
RecordImport ==
    /\ ImportAt({"kaikki", "smoke"}, "glosses") /\ job.csv = <<>>
    /\ job' = Idle
    /\ UNCHANGED <<importVars, jobKeeps>>

\* The rows backfillFeatsJSONL scans in an entry: those that have FEATS.
Scanned(e) ==
    SelectSeq(e.forms, LAMBDA x : x.form # e.sense.lemma /\ ~x.possessive /\ x.feats # NoFeats)

\* The number of rows scanned in the first entries of the file.
ScannedIn(n) == Len(FlattenSeq([i \in 1..n |-> Scanned(job.dump[i])]))

\* It commits after an entry that brings the number to a multiple of batchSize.
CommittedAfter ==
    {n \in (job.done + 1)..Len(job.dump) : ScannedIn(n) > 0 /\ ScannedIn(n) % BatchSize = 0}

\* backfillFeatsJSONL: in one transaction, the first entry with FEATS for a form
\* fills every row of that form that has none, whatever its lemma and source.
BackfillFeats ==
    /\ ImportAt({"backfill"}, "import")
    /\ LET last == Min(CommittedAfter \cup {Len(job.dump)})
           rows == FlattenSeq([i \in 1..(last - job.done) |-> Scanned(job.dump[job.done + i])])
           listed(f) == SelectSeq(rows, LAMBDA x : x.form = f)
       IN  /\ formRow' = [f \in Words |-> [s \in Senses |->
                  IF formRow[f][s].src # "none" /\ formRow[f][s].feats = NoFeats /\ listed(f) # <<>>
                  THEN [formRow[f][s] EXCEPT !.feats = Head(listed(f)).feats]
                  ELSE formRow[f][s]]]
           /\ job' = IF last = Len(job.dump) THEN Idle ELSE [job EXCEPT !.done = last]
    /\ UNCHANGED <<lemmaRow, trans, definitions, jobKeeps>>

-----------------------------------------------------------------------------
(* cmd/importekilexdetails: five passes, a transaction each.               *)

AtPass(pass) == job.tool = "ekilex" /\ job.pc = pass

StartEkilex(drop) ==
    /\ lang = "ET" /\ StartJob
    /\ job' = [tool |-> "ekilex", pc |-> "lemmas", drop |-> drop]

Listed(s) == ListedIn(job.drop.entries, s)
GlossInDrop(s) == JoinedGloss(job.drop.entries, s)

\* Mutant of Refreshed: a gloss that became empty is not written.
RefreshedUnlessEmpty(row, s) ==
    IF row.src = "ekilex" /\ GlossInDrop(s) # <<>>
    THEN [row EXCEPT !.gloss = GlossInDrop(s)] ELSE row

\* stmtRefreshEkilexGloss: rows Ekilex already owns get the gloss of this drop.
Refreshed(row, s) ==
    IF row.src = "ekilex" THEN [row EXCEPT !.gloss = GlossInDrop(s)] ELSE row

\* stmtInsert: a new row, or a weaker row changes its owner and keeps its gloss.
Upgraded(row, s) ==
    IF row.src = "none"
    THEN [src |-> "ekilex", prio |-> Priority["ekilex"], gloss |-> GlossInDrop(s)]
    ELSE IF row.prio < Priority["ekilex"]
    THEN [row EXCEPT !.src = "ekilex", !.prio = Priority["ekilex"]]
    ELSE row

\* stmtFillGloss: an empty gloss is filled, whoever owns the row.
Filled(row, s) ==
    IF row.gloss = <<>> THEN [row EXCEPT !.gloss = GlossInDrop(s)] ELSE row

\* Pass 2
WriteLemmas ==
    /\ AtPass("lemmas")
    /\ lemmaRow' = [s \in Senses |->
           IF Listed(s) THEN Filled(Upgraded(Refreshed(lemmaRow[s], s), s), s)
           ELSE lemmaRow[s]]
    /\ job' = [job EXCEPT !.pc = "translations"]
    /\ UNCHANGED <<formRow, trans, definitions, jobKeeps>>

\* Pass 2.5
WriteTranslations ==
    /\ AtPass("translations")
    /\ trans' = [trans EXCEPT !["ekilex"] = [s \in Senses |->
           OrderedTranslations(MeaningsOf(job.drop.entries, s))]]
    /\ job' = [job EXCEPT !.pc = "definitions"]
    /\ UNCHANGED <<lemmaRow, formRow, definitions, jobKeeps>>

\* Pass 2.6
WriteDefinitions ==
    /\ AtPass("definitions")
    /\ definitions' = [s \in Senses |->
           OrderedDefinitions(MeaningsOf(job.drop.entries, s))]
    /\ job' = [job EXCEPT !.pc = "forms"]
    /\ UNCHANGED <<lemmaRow, formRow, trans, jobKeeps>>

\* Pass 3: every statement leaves the rows of a stronger source alone.
ImportForms ==
    /\ AtPass("forms")
    /\ formRow' = [f \in Words |-> [s \in Senses |->
           LET row == formRow[f][s]
               readings == ReadingsOf(job.drop.entries, job.drop.lines, f, s)
           IN  IF readings = <<>> \/ ~Outranks(Priority["ekilex"], row) THEN row
               ELSE [src |-> "ekilex", prio |-> Priority["ekilex"],
                     feats |-> MergedFeats(row.feats, row.src = "ekilex", readings)]]]
    /\ job' = [job EXCEPT !.pc = "record"]
    /\ UNCHANGED <<lemmaRow, trans, definitions, jobKeeps>>

\* upsertDictMetadata
RecordEkilex ==
    /\ AtPass("record")
    /\ job' = Idle
    /\ UNCHANGED <<importVars, jobKeeps>>

-----------------------------------------------------------------------------
(* The two small Ekilex importers, a single transaction each.              *)

\* ekilexEntriesFromDetails: a word's Estonian lexemes, named by themselves or by
\* the reference, typed by themselves, by the word class, or X; a word without
\* any lexeme is an entry by itself.
EntriesOf(word) ==
    LET kept == SelectSeq(word.lexemes, LAMBDA l :
                    l.lang \in {"", "est"} /\ (l.lemma # "" \/ word.value # ""))
        entry(l) == [sense |-> [lemma |-> IF l.lemma # "" THEN l.lemma ELSE word.value,
                                pos |-> IF l.pos # "" THEN l.pos
                                        ELSE IF word.class # "" THEN word.class ELSE "X"],
                     gloss |-> l.gloss, forms |-> word.forms]
    IN  IF word.lexemes = <<>> /\ word.value # ""
        THEN <<[sense |-> [lemma |-> word.value, pos |-> word.class],
                gloss |-> <<>>, forms |-> word.forms]>>
        ELSE [i \in DOMAIN kept |-> entry(kept[i])]

\* importEkilex: lemmas and bare forms, no translations.
SmokeImport ==
    /\ ImportAt({"smoke"}, "import") /\ lang = "ET"
    /\ LET entries == FlattenSeq([i \in DOMAIN job.words |-> EntriesOf(job.words[i])])
       IN  /\ lemmaRow' = UpsertLemmas("ekilex", job.prio, entries)
           /\ formRow' = UpsertForms("ekilex", job.prio, [f \in Words |-> [s \in Senses |->
                  IF \E e \in Range(entries) : e.sense = s /\ f \in e.forms \cup {s.lemma}
                  THEN <<NoFeats>> ELSE <<>>]])
    /\ job' = [job EXCEPT !.pc = "glosses"]
    /\ UNCHANGED <<trans, definitions, jobKeeps>>

OneTransaction ==
    /\ job = Idle /\ runs < MaxRuns
    /\ runs' = runs + 1
    /\ UNCHANGED <<lang, trans, definitions, job, loopVars, answer, reviews>>

\* importPublicWords: a headword of unknown part of speech, where none is yet.
ImportPublicWords(words) ==
    /\ lang = "ET" /\ OneTransaction
    /\ UNCHANGED kotusVars
    /\ lemmaRow' = [s \in Senses |->
           IF s.pos = "X" /\ s.lemma \in words /\ lemmaRow[s].src = "none"
           THEN [src |-> "public", prio |-> Priority["public"], gloss |-> <<>>] ELSE lemmaRow[s]]
    /\ formRow' = [f \in Words |-> [s \in Senses |->
           IF s.pos = "X" /\ s.lemma = f /\ f \in words /\ formRow[f][s].src = "none"
           THEN [src |-> "public", prio |-> Priority["public"], feats |-> NoFeats]
           ELSE formRow[f][s]]]

-----------------------------------------------------------------------------
(* cmd/importkotus: the Finnish word list, in a single transaction.        *)

\* mapWordClass: the labels nobody mapped name no sense, nor does a line without a
\* headword, which streamSanalista skips.
SensesNamed(e) ==
    {s \in Senses : /\ e.lemma # "" /\ s.lemma = e.lemma
                    /\ s.pos \in {wordClassMap[c] : c \in e.labels \cap DOMAIN wordClassMap}}

\* parseTaivutus: of several inflection classes the first; compounds have none.
ParadigmClass(e) == IF e.classes = <<>> THEN <<>> ELSE <<Head(e.classes)>>

\* Mutant of ParadigmsWritten: the class is written also where the line has none.
ParadigmsOverwritten(table, e) ==
    [s \in Senses |-> IF s \in SensesNamed(e) THEN ParadigmClass(e) ELSE table[s]]

\* kotusWriter.write: a line enriches the senses it names, and takes no class away.
ParadigmsWritten(table, e) ==
    [s \in Senses |-> IF s \in SensesNamed(e) /\ ParadigmClass(e) # <<>>
                      THEN ParadigmClass(e) ELSE table[s]]

\* It makes a row without a gloss where there is none, and leaves the source of the others.
ImportKotus(file) ==
    /\ lang = "FI" /\ OneTransaction
    /\ lemmaRow' = [s \in Senses |->
           IF lemmaRow[s].src = "none" /\ \E e \in Range(file) : s \in SensesNamed(e)
           THEN [src |-> "kotus", prio |-> Priority["kotus"], gloss |-> <<>>] ELSE lemmaRow[s]]
    /\ paradigm' = FoldLeft(ParadigmsWritten, paradigm, file)
    /\ wordList' = file
    /\ UNCHANGED formRow

-----------------------------------------------------------------------------
(* The correction loop: gold data, review and write-back.                  *)

\* ReplaceGoldSurfaces, aggregateGoldSurfaces
ReplaceGold(counts) ==
    /\ gold # counts
    /\ gold' = counts
    /\ UNCHANGED <<importVars, job, report, candidate, exportVars, answer, runs, reviews>>

\* checkOverrideAgainstGold: the gold data knows the form and never as this sense.
GoldRefuses(f, s) ==
    /\ MapThenSumSet(LAMBDA t : gold[<<f, t>>], Senses) >= goldConflictMinCases
    /\ gold[<<f, s>>] = 0

\* Mutant of Supporters: accepted reports are counted, not their users.
SupportersByReport(rep, f, s) ==
    Cardinality({r \in Reports : rep[r].sense = s /\ rep[r].status = "accepted"
                                 /\ LowerOf[SurfaceOf[r]] = f})

\* maybePromoteGoldCandidate: distinct users with an accepted report of this sense.
Supporters(rep, f, s) ==
    Cardinality({ReporterOf[r] : r \in {q \in Reports :
        /\ rep[q].sense = s /\ rep[q].status = "accepted"
        /\ LowerOf[SurfaceOf[q]] = f}})

\* DELETE of the override row a form had.
WithoutOverride(row) == IF row.src = "custom_overrides" THEN NoForm ELSE row

Override == Priority["custom_overrides"]

\* writeAcceptedParseFeedbackOverride: the lemma row changes its owner and keeps
\* its gloss, the form's override row is replaced, a candidate may be promoted.
WriteBack(rep, f, s, feats) ==
    /\ ~GoldRefuses(f, s)
    /\ lemmaRow' = [lemmaRow EXCEPT ![s] =
           IF Outranks(Override, @) THEN [@ EXCEPT !.src = "custom_overrides", !.prio = Override]
           ELSE @]
    /\ formRow' = [formRow EXCEPT ![f] = [t \in Senses |->
           IF t = s /\ Outranks(Override, WithoutOverride(@[t]))
           THEN [src |-> "custom_overrides", prio |-> Override, feats |-> feats]
           ELSE WithoutOverride(@[t])]]
    /\ candidate' = [candidate EXCEPT ![<<f, s>>] =
           IF Supporters(rep, f, s) >= GoldPromotionThreshold
           THEN Supporters(rep, f, s) ELSE @]
    /\ answer' = [answer EXCEPT ![f] = s]

\* ReviewParseFeedback, one transaction.  A correction turns a flag-only report
\* into a concrete one, whatever the verdict; the gold guard rolls all of it back.
ReviewParseFeedback(r, status, correction) ==
    /\ reviews < MaxReviews
    /\ correction.sense = NoSense \/ report[r].sense = NoSense
    /\ LET sense == IF correction.sense = NoSense THEN report[r].sense ELSE correction.sense
           feats == IF correction.sense = NoSense THEN report[r].feats ELSE correction.feats
       IN  /\ report' = [report EXCEPT ![r] =
                  [sense |-> sense, feats |-> feats, status |-> status]]
           /\ IF status = "accepted" /\ sense # NoSense
              THEN WriteBack(report', FormOf[SurfaceOf[r]], sense, feats)
              ELSE UNCHANGED <<lemmaRow, formRow, candidate, answer>>
    /\ reviews' = reviews + 1
    /\ UNCHANGED <<lang, trans, definitions, kotusVars, job, gold, exportVars, runs>>

-----------------------------------------------------------------------------
(* cmd/exportgoldcandidates: prints what is pending for somebody to judge, *)
(* and with -mark-exported marks it afterwards, in one transaction.        *)

\* ListGoldCandidates("pending")
PendingCandidates == {k \in DOMAIN candidate : candidate[k] > 0} \ exported

PrintCandidates(markExported) ==
    /\ export = {} /\ PendingCandidates # {} /\ exports < MaxExports
    /\ exports' = exports + 1
    /\ printed' = printed \cup PendingCandidates
    /\ export' = IF markExported THEN PendingCandidates ELSE {}
    /\ UNCHANGED <<importVars, job, report, gold, candidate, exported, answer, runs, reviews>>

\* Mutant of MarkGoldCandidatesExported: WHERE status = 'pending' without the ids.
MarkPendingExported ==
    /\ export # {}
    /\ exported' = exported \cup PendingCandidates
    /\ export' = {}
    /\ UNCHANGED <<importVars, job, report, gold, candidate, printed, exports, answer, runs, reviews>>

\* By their ids, those still pending.
MarkGoldCandidatesExported ==
    /\ export # {}
    /\ exported' = exported \cup (export \cap PendingCandidates)
    /\ export' = {}
    /\ UNCHANGED <<importVars, job, report, gold, candidate, printed, exports, answer, runs, reviews>>

\* The process ends before it has marked anything.
ExportStops ==
    /\ export # {}
    /\ export' = {}
    /\ UNCHANGED <<importVars, job, report, gold, candidate, exported, printed, exports, answer, runs, reviews>>

-----------------------------------------------------------------------------
(* What a learner is shown.                                                *)

\* BatchLookupSenses: the translations of the source that owns the lemma row.
SensesOf(s) == IF lemmaRow[s].src \in Translated THEN trans[lemmaRow[s].src][s] ELSE <<>>

\* BatchLookupGlosses, learnerGlossOverride
GlossOf(s) ==
    LET gloss == IF SensesOf(s) # <<>> THEN <<Head(SensesOf(s))>> ELSE lemmaRow[s].gloss
    IN  IF gloss # <<>> /\ lemmaRow[s].src = "ekilex" /\ s \in DOMAIN LearnerGloss
        THEN LearnerGloss[s] ELSE gloss

-----------------------------------------------------------------------------
Corrections == [sense : Senses, feats : {NoFeats}] \cup {[sense |-> NoSense, feats |-> NoFeats]}

\* Whether a run of importdict has -reimport, and its -custom-glosses.
GlossChoices == GlossFiles \cup {<<>>}

ImportDictStep ==
    \/ \E dump \in KaikkiDumps, prio \in SourcePriorities, reimport \in BOOLEAN, csv \in GlossChoices :
           StartKaikki(dump, prio, reimport, csv)
    \/ \E dump \in KaikkiDumps, reimport \in BOOLEAN : StartBackfill(dump, reimport)
    \/ \E words \in SmokeImports, prio \in SourcePriorities, reimport \in BOOLEAN, csv \in GlossChoices :
           StartSmoke(words, prio, reimport, csv)
    \/ DropForms \/ DropLemmas \/ DropTranslations
    \/ KaikkiBatch \/ BackfillFeats \/ SmokeImport \/ ApplyCustomGloss \/ RecordImport

EkilexStep ==
    \/ \E d \in EkilexDrops : StartEkilex(d)
    \/ WriteLemmas \/ WriteTranslations \/ WriteDefinitions \/ ImportForms
    \/ RecordEkilex
    \/ \E words \in WordLists : ImportPublicWords(words)

KotusStep == \E file \in KotusLists : ImportKotus(file)

LoopStep ==
    \/ \E counts \in GoldSets : ReplaceGold(counts)
    \/ \E r \in Reports, status \in Statuses \ {"submitted"}, c \in Corrections :
           ReviewParseFeedback(r, status, c)

ExportStep ==
    \/ \E mark \in BOOLEAN : PrintCandidates(mark)
    \/ MarkGoldCandidatesExported \/ ExportStops

Next == ImportDictStep \/ EkilexStep \/ KotusStep \/ Abort \/ LoopStep \/ ExportStep

Spec == Init /\ [][Next]_vars

-----------------------------------------------------------------------------
(* Properties.                                                             *)

OverridesOf(f) == {s \in Senses : formRow[f][s].src = "custom_overrides"}

\* The dictionary answers a corrected form with the last accepted correction and
\* no other: no importer, aborted import or later report adds, takes or keeps an
\* override row (source priorities, writeAcceptedParseFeedbackOverride); only
\* -reimport withdraws it.
OverrideAnswers ==
    \A f \in Words : OverridesOf(f) = {answer[f]} \ {NoSense}

\* What a dump has to say of a sense: the glosses that do not only restate a form.
InDump(dump, s) ==
    UNION {Range(e.glosses) \ Structural : e \in {d \in Range(dump) : d.sense = s}}

\* A recorded kaikki import leaves no translation the dump does not have, also
\* after runs that ended halfway with another dump.
RecordedKaikkiIsFresh ==
    [][RecordImport /\ job.tool = "kaikki" =>
           \A s \in Senses : Range(trans["kaikki"][s]) \subseteq InDump(job.dump, s)]_vars

\* From its first transaction on, a kaikki import has only rows of its own dump.
KaikkiIsFresh ==
    (job.tool = "kaikki" /\ (job.pc = "glosses" \/ (job.pc = "import" /\ job.done > 0))) =>
        \A s \in Senses : Range(trans["kaikki"][s]) \subseteq InDump(job.dump, s)

\* A gloss of a row that ranks below the Ekilex details and is not of Ekilex is
\* none, or the primary gloss of an entry of a dump.
FromDump(gloss) == \E dump \in KaikkiDumps : \E e \in Range(dump) : gloss = PrimaryGloss(e)

GlossesFromDumps ==
    \A s \in Senses :
        lemmaRow[s].src \in {"public", "kaikki", "kotus"} /\ lemmaRow[s].prio < Priority["ekilex"] =>
            lemmaRow[s].gloss = <<>> \/ FromDump(lemmaRow[s].gloss)

\* The rank of a row is that of its writer: only corrections have that of corrections.
RowsRanked ==
    /\ \A s \in Senses : lemmaRow[s].src \in {"custom", "custom_overrides"} =>
                              lemmaRow[s].prio = Priority[lemmaRow[s].src]
    /\ \A f \in Words, s \in Senses :
           IF formRow[f][s].src = "custom_overrides" THEN formRow[f][s].prio = Override
           ELSE formRow[f][s].prio < Override

\* What the passes of a running Ekilex import have written stays as it is, except
\* that a review may take a lemma row over.
PassesStand ==
    job.tool = "ekilex" =>
        /\ job.pc # "lemmas" => \A s \in Senses :
               Listed(s) /\ lemmaRow[s].src = "ekilex" =>
                   lemmaRow[s].gloss = GlossInDrop(s) \/ FromDump(lemmaRow[s].gloss)
        /\ job.pc \notin {"lemmas", "translations"} => \A s \in Senses :
               trans["ekilex"][s] = OrderedTranslations(MeaningsOf(job.drop.entries, s))
        /\ job.pc \in {"forms", "record"} => \A s \in Senses :
               definitions[s] = OrderedDefinitions(MeaningsOf(job.drop.entries, s))

\* Nothing is marked that was not printed.
MarkedWasPrinted == export \cup exported \subseteq printed

\* A recorded Ekilex import leaves its translations and definitions exactly those
\* of the drop, a learner is shown the first of them (or the gloss chosen for
\* learners), and the gloss cache of the rows Ekilex owns agrees: it holds the joined
\* translations or a gloss kept from kaikki, never that of an earlier drop.
RecordedEkilexAgrees ==
    [][RecordEkilex => \A s \in Senses :
           LET meanings == MeaningsOf(job.drop.entries, s)
           IN  /\ trans["ekilex"][s] = OrderedTranslations(meanings)
               /\ definitions[s] = OrderedDefinitions(meanings)
               /\ lemmaRow[s].src = "ekilex" /\ OrderedTranslations(meanings) # <<>> =>
                      GlossOf(s) \in {<<Head(OrderedTranslations(meanings))>>} \cup Range(LearnerGloss)
               /\ (Listed(s) /\ lemmaRow[s].src = "ekilex") =>
                      lemmaRow[s].gloss = GlossInDrop(s) \/ FromDump(lemmaRow[s].gloss)]_vars

\* A gold candidate stands for the agreement of enough different learners: it
\* appears or changes only when that many users have an accepted report of it.
\* And none is lost before somebody has seen it: what leaves the pending ones has
\* been printed, whatever is accepted while an export runs or dies.
CandidatesReachReview ==
    [][ /\ \A k \in DOMAIN candidate : candidate'[k] # candidate[k] =>
              \E users \in SUBSET {ReporterOf[r] : r \in {q \in Reports :
                                       /\ report'[q].status = "accepted"
                                       /\ <<FormOf[SurfaceOf[q]], report'[q].sense>> = k}} :
                  Cardinality(users) >= GoldPromotionThreshold
        /\ exported' \subseteq printed ]_vars

\* "It would clobber row 1's class with NULL" (comment in kotusWriter.write): each
\* sense has the last class the word list has for it, also where a later line of a
\* homonym has none, and whatever importer or correction took over the row since;
\* only -reimport drops the classes.
ParadigmsKept ==
    \A s \in Senses :
        LET classed == {i \in DOMAIN wordList :
                           s \in SensesNamed(wordList[i]) /\ wordList[i].classes # <<>>}
        IN  classed # {} => paradigm[s] = ParadigmClass(wordList[Max(classed)])

\* The inductive invariant behind these properties.
Inv ==
    /\ TypeOK /\ RowsRanked
    /\ OverrideAnswers /\ ParadigmsKept /\ GlossesFromDumps
    /\ KaikkiIsFresh /\ PassesStand /\ MarkedWasPrinted

=============================================================================
