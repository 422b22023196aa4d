---------------------------- MODULE SchemaUpgrade ----------------------------
(***************************************************************************)
(* The database file between versions: internal/store's initSchema, run by  *)
(* every program that opens the store, and the Ensure... migrations that    *)
(* the importers run on their own.  A program is a script of statements;    *)
(* each commits by itself unless the code puts several in a transaction,    *)
(* and the process may be killed between any two.  No lock spans two        *)
(* statements: any number of programs may open the file together.           *)
(*                                                                         *)
(* Together they may go wrong in one way: a program acts on what it has     *)
(* looked at a statement before (it is Deciding) while another is opening   *)
(* the file as well.  That is a Race; `raced' remembers whether there was   *)
(* one, and the properties are about files on which there was none.         *)
(*                                                                         *)
(* The schema of a table is the set of what later versions have added to    *)
(* it: columns, and the keys that later versions have widened: "key" of the *)
(* forms and occurrences, "lang key" where the language is in the primary   *)
(* key, "lang unique" and "surface unique" where an index is on exactly the *)
(* columns of that version's cards.  Only the rows a migration moves are    *)
(* kept: known and ignored words, cards, dictionary forms.                  *)
(***************************************************************************)
EXTENDS Integers, Sequences, FiniteSets

CONSTANTS
    Absent,       \* the schema of a table that does not exist
    Processes,
    Words, Cards, Forms,
    Senses,       \* what cards are of: a learner's (lemma, pos)
    Versions,     \* [schema, forms, progress, sense]: the database files older programs left
    Seen,         \* Seen[m][s]: tokens of the learner's decks with sense m's lemma and lower(surface) s
    Lemma,        \* Lemma[m]: its lemma, lower-cased, one of the same surfaces (ordered as numbers)
    MaxStarts     \* bound: starts of a program

Tables == {"users", "decks", "lemmas", "occurrence", "cards", "card_state", "known", "ignored", "forms",
           "parse_feedback", "correction_issues", "user_sessions", "dict_metadata", "translations"}
Copies == {"known_new", "ignored_new"}

Additions == {"is_admin", "password_hash", "introduced_at", "lang", "lang key", "lang unique", "source",
              "surface_norm", "surface unique", "surface", "key", "parse_session_id", "is_public",
              "parse_feedback_id", "paradigm_class", "feats", "flag_only", "correction_issue_id", "license"}
Sources == {"absent", "none", "kaikki", "override"}
Progress == {"new", "answered", "introduced"}

ASSUME UpgradeAssumption ==
    /\ MaxStarts \in Nat /\ IsFiniteSet(Processes)
    /\ \A s \in SUBSET Additions : s # Absent
    /\ \A v \in Versions :
          /\ DOMAIN v.schema = Tables /\ \A t \in Tables : v.schema[t] = Absent \/ v.schema[t] \subseteq Additions
          /\ v.forms \in [Forms -> Sources] /\ v.progress \in [Cards -> Progress]
          /\ v.sense \in [Cards -> Senses]

\* The order in which the versions came: cards had a language before a surface, and before the time
\* of introduction was recorded; what administrators wrote was labelled from the first.  There are
\* no rows without a table.
ASSUME VersionsAssumption ==
    \A v \in Versions :
        /\ LET c == v.schema["cards"] IN
             c # Absent => /\ "surface_norm" \in c => "lang" \in c
                           /\ \/ "surface_norm" \in c
                              \/ {"lang", "lang unique"} \subseteq c
                              \/ \A card \in Cards : v.progress[card] # "introduced"
        /\ \A f \in Forms : v.forms[f] = "override" => v.schema["forms"] # Absent /\ "source" \in v.schema["forms"]
        /\ v.schema["forms"] = Absent => \A f \in Forms : v.forms[f] = "absent"

VARIABLES
    schema,     \* [Tables \cup Copies -> Absent or a set]
    words,      \* rows of known and ignored words, and of the copies a rebuild makes
    cards,      \* [lang, sense, surface, progress] of each card; the progress is "new", "answered" or,
                \* with the time of introduction recorded, "introduced"
    forms,      \* the source of each form row, "none" for a row without, "absent" for no row
    program,    \* what each process runs
    pc,         \* its next statement; 0 when it is not running
    memo,       \* what its last check read
    failed,     \* [p]: its last start returned an error
    learned, progress, overridden,  \* history: what learners and administrators have written
    listed,     \* history: the forms that the public word list has inserted
    orphaned,   \* history: the tables whose rebuild was killed between the drop and the rename
    raced,      \* history: a program was deciding while another was opening the file
    starts

rows == <<words, cards, forms>>
writes == <<learned, progress, overridden, listed>>
upgradeVars == <<schema, rows, program, pc, memo, failed, writes, orphaned, raced, starts>>

-----------------------------------------------------------------------------
(* The programs.                                                           *)

\* CREATE TABLE IF NOT EXISTS of initSchema.
DeckTables == [
    users |-> {"is_admin"}, decks |-> {"parse_session_id", "is_public"},
    lemmas |-> {"source", "parse_feedback_id", "paradigm_class"}, occurrence |-> {"surface", "key"},
    cards |-> {"lang", "surface_norm", "surface unique"}, card_state |-> {"introduced_at"}]
VocabularyTables == [
    known |-> {"lang", "lang key", "source"}, ignored |-> {"lang", "lang key"}, forms |-> {"source", "parse_feedback_id", "feats", "key"},
    parse_feedback |-> {"flag_only", "correction_issue_id"}, correction_issues |-> {}]
UserSessions == [user_sessions |-> {}]
DictMetadata == [dict_metadata |-> {"license"}]
IssueLedger == [correction_issues |-> {}]
Translations == [translations |-> {}]
ImportDictTables == [lemmas |-> {"source", "paradigm_class"}, forms |-> {"source", "feats", "key"}]
ImportEkilexTables == [lemmas |-> {}, forms |-> {"key"}, dict_metadata |-> {}]
ImportKotusTables == [lemmas |-> {}, forms |-> {"key"}]
PublicWordTables == [lemmas |-> {}, forms |-> {}, dict_metadata |-> {}]
NewTables == [t \in DOMAIN DeckTables \cup DOMAIN VocabularyTables |->
                 IF t \in DOMAIN DeckTables THEN DeckTables[t] ELSE VocabularyTables[t]]

Create(tables) == <<<<"create", "new", tables>>>>
Add(table, column) == <<<<"add", table, column>>>>

\* ensureLangScopedKnownTable, one statement at a time.
Rescope(table, copy) == <<<<"checkScope", table, copy>>, <<"createCopy", table, copy>>, <<"fillCopy", table, copy>>,
                          <<"dropTable", table, copy>>, <<"renameCopy", table, copy>>>>
\* rebuildIfLegacyKey: its checks, and its transaction.
Rekey(table) == <<<<"checkKey", table, "key">>, <<"rekey", table, "key">>>>

EnsureDictMetadataSchema == Create(DictMetadata) \o Add("dict_metadata", "license")
EnsureDictionarySourceColumns == Add("lemmas", "source") \o Add("forms", "source") \o <<<<"backfill", "forms", "source">>>>
EnsureLexicalEnrichmentColumns == Add("lemmas", "paradigm_class") \o Add("forms", "feats")
EnsureLexicalEntryTables == Create(Translations)
EnsureMultiLemmaSchema == Rekey("forms") \o Rekey("occurrence")
EnsureCorrectionColumns ==
    Add("lemmas", "parse_feedback_id") \o Add("forms", "parse_feedback_id") \o Add("parse_feedback", "flag_only")
    \o Create(IssueLedger) \o Add("parse_feedback", "correction_issue_id")
EnsureDeckColumns == Add("occurrence", "surface") \o Add("decks", "parse_session_id") \o Add("decks", "is_public")

\* The other indexes of initSchema are not unique and on columns that every version of their tables
\* has, or that a statement before has added.
InitSchema ==
    Create(NewTables)
    \o Add("users", "is_admin") \o Add("users", "password_hash") \o Add("card_state", "introduced_at")
    \o Create(UserSessions)
    \o Rescope("known", "known_new") \o <<<<"checkSource", "known", "source">>, <<"addSource", "known", "source">>>>
    \o Rescope("ignored", "ignored_new")
    \o <<<<"checkCardLang", "cards", "lang">>, <<"scopeCards", "cards", "lang">>>>
    \o <<<<"checkCardSurface", "cards", "surface">>, <<"surfaceCards", "cards", "surface">>,
         <<"indexCards", "cards", "surface">>>>
    \o EnsureDictMetadataSchema \o EnsureDictionarySourceColumns \o EnsureCorrectionColumns
    \o EnsureLexicalEnrichmentColumns \o EnsureLexicalEntryTables \o EnsureMultiLemmaSchema \o EnsureDeckColumns

ImportDict ==
    Create(ImportDictTables) \o EnsureDictMetadataSchema \o EnsureDictionarySourceColumns
    \o EnsureLexicalEnrichmentColumns \o EnsureLexicalEntryTables \o EnsureMultiLemmaSchema

ImportEkilexDetails ==
    Create(ImportEkilexTables) \o EnsureMultiLemmaSchema \o EnsureDictionarySourceColumns
    \o EnsureLexicalEntryTables \o EnsureLexicalEnrichmentColumns

ImportKotus ==
    Create(ImportKotusTables) \o EnsureDictionarySourceColumns \o EnsureLexicalEnrichmentColumns
    \o EnsureDictMetadataSchema

\* cmd/importekilex creates the tables as they first were, and migrates nothing.
ImportEkilex == Create(PublicWordTables)

Script == [server |-> InitSchema, importdict |-> ImportDict, importekilex |-> ImportEkilex,
           importekilexdetails |-> ImportEkilexDetails, importkotus |-> ImportKotus]

\* What the statements of the running programs name: all columns and keys.
Current == [t \in DOMAIN NewTables |-> NewTables[t] \cup (IF t = "users" THEN {"password_hash"} ELSE {})]

-----------------------------------------------------------------------------
Running(p) == pc[p] > 0
Opening(p) == Running(p) /\ pc[p] <= Len(Script[program[p]])
Serving == \E p \in Processes : Running(p) /\ ~Opening(p) /\ program[p] = "server"
At(p, op) == Opening(p) /\ Script[program[p]][pc[p]][1] = op
Table(p) == Script[program[p]][pc[p]][2]
\* pragma table_info, which finds no column in a table that is not there.
Columns(t) == IF schema[t] = Absent THEN {} ELSE schema[t]
Arg(p) == Script[program[p]][pc[p]][3]

\* p is about to act on what an earlier statement of its own has looked at.
Decisions == {"createCopy", "fillCopy", "dropTable", "renameCopy", "addSource", "scopeCards", "surfaceCards", "rekey"}
Deciding(p) == Opening(p) /\ Script[program[p]][pc[p]][1] \in Decisions
Race == \E p, q \in Processes : p # q /\ Deciding(p) /\ Opening(q)

\* tableHasColumn, columnInPrimaryKey for the language, and tableHasUniqueIndex for the columns of
\* a version of the cards.
HasColumn(t, column) == column \in Columns(t)
LangInPrimaryKey(t) == "lang key" \in Columns(t)
HasUniqueIndex(t, index) == index \in Columns(t)

UpgradeInit ==
    /\ \E v \in Versions :
          /\ schema = [t \in Tables \cup Copies |-> IF t \in Tables THEN v.schema[t] ELSE Absent]
          /\ forms = v.forms
          /\ words = [t \in {"known", "ignored"} \cup Copies |->
                        IF t \in Tables /\ v.schema[t] # Absent THEN Words ELSE {}]
          /\ cards = [c \in Cards |-> [lang |-> IF v.schema["cards"] \in {{}, Absent} THEN "none" ELSE "FI",
                                       sense |-> v.sense[c], surface |-> 0, progress |-> v.progress[c]]]
          /\ progress = v.progress
          /\ learned = [t \in {"known", "ignored"} |-> words[t]]
          /\ overridden = {f \in Forms : v.forms[f] = "override"}
    /\ program = [p \in Processes |-> "server"] /\ pc = [p \in Processes |-> 0]
    /\ memo = [p \in Processes |-> {}] /\ failed = [p \in Processes |-> FALSE]
    /\ listed = {} /\ orphaned = {} /\ raced = FALSE
    /\ starts = 0

Start(p, prog) ==
    /\ ~Running(p) /\ starts < MaxStarts
    /\ program' = [program EXCEPT ![p] = prog] /\ pc' = [pc EXCEPT ![p] = 1]
    /\ failed' = [failed EXCEPT ![p] = FALSE] /\ memo' = [memo EXCEPT ![p] = {}]
    /\ starts' = starts + 1
    /\ UNCHANGED <<schema, rows, writes, orphaned>>

\* What every statement does to the process: it goes on, skips n statements, or returns the error.
Advance(p, n) == pc' = [pc EXCEPT ![p] = @ + n] /\ UNCHANGED failed
Fail(p) == pc' = [pc EXCEPT ![p] = 0] /\ failed' = [failed EXCEPT ![p] = TRUE]
Kept == UNCHANGED <<program, writes, orphaned, starts>>
SetSchema(t, s) == schema' = [schema EXCEPT ![t] = s]

-----------------------------------------------------------------------------
(* The statements.                                                         *)

\* CREATE TABLE IF NOT EXISTS, one table after another in a fixed order.
CreateTable(p) ==
    /\ At(p, "create")
    /\ LET missing == {t \in DOMAIN Arg(p) : schema[t] = Absent}
       IN  IF missing = {} THEN Advance(p, 1) /\ UNCHANGED schema
           ELSE LET t == CHOOSE t \in missing : TRUE
                IN  SetSchema(t, Arg(p)[t]) /\ UNCHANGED <<pc, failed>>
    /\ Kept /\ UNCHANGED <<rows, memo>>

\* Mutant of AddColumn: a duplicate column is an error like any other.
AddColumnOnce(p) ==
    /\ At(p, "add")
    /\ IF schema[Table(p)] = Absent \/ Arg(p) \in schema[Table(p)] THEN Fail(p) /\ UNCHANGED schema
       ELSE Advance(p, 1) /\ SetSchema(Table(p), schema[Table(p)] \cup {Arg(p)})
    /\ Kept /\ UNCHANGED <<rows, memo>>

\* ALTER TABLE ADD COLUMN, where "duplicate column" is no error.
AddColumn(p) ==
    /\ At(p, "add")
    /\ IF schema[Table(p)] = Absent THEN Fail(p) /\ UNCHANGED schema
       ELSE Advance(p, 1) /\ SetSchema(Table(p), schema[Table(p)] \cup {Arg(p)})
    /\ Kept /\ UNCHANGED <<rows, memo>>

CheckScope(p) ==
    /\ At(p, "checkScope")
    /\ Advance(p, IF HasColumn(Table(p), "lang") /\ LangInPrimaryKey(Table(p)) THEN 5 ELSE 1)
    /\ Kept /\ UNCHANGED <<schema, rows, memo>>

\* A plain CREATE TABLE: it is an error when the copy exists.
CreateCopy(p) ==
    /\ At(p, "createCopy")
    /\ IF schema[Arg(p)] # Absent THEN Fail(p) /\ UNCHANGED schema
       ELSE Advance(p, 1) /\ SetSchema(Arg(p), {"lang", "lang key"})
    /\ Kept /\ UNCHANGED <<rows, memo>>

\* Mutant of FillCopy: the copy starts empty, as a new user's table would.
SkipFillCopy(p) ==
    /\ At(p, "fillCopy") /\ Advance(p, 1)
    /\ Kept /\ UNCHANGED <<schema, rows, memo>>

FillCopy(p) ==
    /\ At(p, "fillCopy")
    /\ IF Absent \in {schema[Table(p)], schema[Arg(p)]} THEN Fail(p) /\ UNCHANGED words
       ELSE Advance(p, 1) /\ words' = [words EXCEPT ![Arg(p)] = @ \cup words[Table(p)]]
    /\ Kept /\ UNCHANGED <<schema, cards, forms, memo>>

DropTable(p) ==
    /\ At(p, "dropTable")
    /\ IF schema[Table(p)] = Absent THEN Fail(p) /\ UNCHANGED <<schema, words>>
       ELSE Advance(p, 1) /\ SetSchema(Table(p), Absent) /\ words' = [words EXCEPT ![Table(p)] = {}]
    /\ Kept /\ UNCHANGED <<cards, forms, memo>>

RenameCopy(p) ==
    /\ At(p, "renameCopy")
    /\ IF schema[Arg(p)] = Absent \/ schema[Table(p)] # Absent THEN Fail(p) /\ UNCHANGED <<schema, words>>
       ELSE /\ Advance(p, 1)
            /\ schema' = [schema EXCEPT ![Table(p)] = schema[Arg(p)], ![Arg(p)] = Absent]
            /\ words' = [words EXCEPT ![Table(p)] = words[Arg(p)], ![Arg(p)] = {}]
    /\ Kept /\ UNCHANGED <<cards, forms, memo>>

\* ensureUserKnownLemmasSource: looks first, and here a duplicate column is an error.
CheckSource(p) ==
    /\ At(p, "checkSource")
    /\ Advance(p, IF HasColumn("known", "source") THEN 2 ELSE 1)
    /\ Kept /\ UNCHANGED <<schema, rows, memo>>

AddSource(p) ==
    /\ At(p, "addSource")
    /\ IF schema["known"] = Absent \/ "source" \in schema["known"] THEN Fail(p) /\ UNCHANGED schema
       ELSE Advance(p, 1) /\ SetSchema("known", schema["known"] \cup {"source"})
    /\ Kept /\ UNCHANGED <<rows, memo>>

\* ensureLangScopedCardsTable, which leaves a table with surfaces alone.
CheckCardLang(p) ==
    /\ At(p, "checkCardLang")
    /\ Advance(p, IF \/ HasColumn("cards", "surface_norm")
                     \/ HasColumn("cards", "lang") /\ HasUniqueIndex("cards", "lang unique") THEN 2 ELSE 1)
    /\ memo' = [memo EXCEPT ![p] = Columns("cards")]
    /\ Kept /\ UNCHANGED <<schema, rows>>

\* Both tables are rebuilt in one transaction; the old app was Finnish only, and the time of
\* introduction is not copied.
ScopeCards(p) ==
    /\ At(p, "scopeCards") /\ Advance(p, 1)
    /\ schema' = [schema EXCEPT !["cards"] = {"lang", "lang unique"}, !["card_state"] = {"introduced_at"}]
    /\ cards' = [c \in Cards |-> [lang |-> IF "lang" \in memo[p] THEN cards[c].lang ELSE "FI",
                                  sense |-> cards[c].sense, surface |-> 0,
                                  progress |-> IF cards[c].progress = "introduced" THEN "answered" ELSE cards[c].progress]]
    /\ Kept /\ UNCHANGED <<words, forms, memo>>

CheckCardSurface(p) ==
    /\ At(p, "checkCardSurface")
    /\ Advance(p, IF HasColumn("cards", "surface_norm") /\ HasUniqueIndex("cards", "surface unique") THEN 2 ELSE 1)
    /\ Kept /\ UNCHANGED <<schema, rows, memo>>

\* The surface a legacy card gets: its most frequent one, the smallest of those, or the lemma.
BackfilledSurface(m) ==
    LET seen == {s \in DOMAIN Seen[m] : Seen[m][s] > 0}
        most == {s \in seen : \A t \in seen : Seen[m][t] <= Seen[m][s]}
    IN  IF seen = {} THEN Lemma[m] ELSE CHOOSE s \in most : \A t \in most : s <= t

\* ensureSurfaceScopedCardsTable: the surfaces are read from occurrence, in the transaction that
\* rebuilds the two tables.
SurfaceCards(p) ==
    /\ At(p, "surfaceCards")
    /\ IF ~HasColumn("occurrence", "surface") THEN Fail(p) /\ UNCHANGED <<schema, cards>>
       ELSE /\ Advance(p, 1)
            /\ SetSchema("cards", {"lang", "surface_norm", "surface unique"})
            /\ cards' = [c \in Cards |-> [lang |-> cards[c].lang, sense |-> cards[c].sense,
                                          surface |-> BackfilledSurface(cards[c].sense),
                                          progress |-> cards[c].progress]]
    /\ Kept /\ UNCHANGED <<words, forms, memo>>

\* Two cards of one sense with one surface, which no UNIQUE of their table prevents: their mwe_id is
\* null, and nulls are distinct.
Twins ==
    \E c, d \in Cards : /\ c # d /\ cards[c].lang = cards[d].lang
                       /\ cards[c].sense = cards[d].sense /\ cards[c].surface = cards[d].surface

\* idx_cards_user_lang_surface_lemma_pos_null_mwe; where it exists there are no twins.
IndexCards(p) ==
    /\ At(p, "indexCards")
    /\ IF Twins THEN Fail(p) ELSE Advance(p, 1)
    /\ Kept /\ UNCHANGED <<schema, rows, memo>>

\* BackfillLegacyKaikkiProvenance
BackfillProvenance(p) ==
    /\ At(p, "backfill") /\ Advance(p, 1)
    /\ forms' = [f \in Forms |-> IF forms[f] = "none" THEN "kaikki" ELSE forms[f]]
    /\ Kept /\ UNCHANGED <<schema, words, cards, memo>>

CheckKey(p) ==
    /\ At(p, "checkKey")
    /\ IF schema[Table(p)] = Absent \/ "key" \in schema[Table(p)]
       THEN Advance(p, 2) /\ UNCHANGED memo
       ELSE Advance(p, 1) /\ memo' = [memo EXCEPT ![p] = schema[Table(p)]]
    /\ Kept /\ UNCHANGED <<schema, rows>>

Unsourced == [f \in Forms |-> IF forms[f] = "absent" THEN "absent" ELSE "none"]

\* Mutant of RekeyTable: the new table has the columns of the original one.
RekeyOriginal(p) ==
    /\ At(p, "rekey") /\ Advance(p, 1) /\ SetSchema(Table(p), {"key"})
    /\ forms' = IF Table(p) = "forms" THEN Unsourced ELSE forms
    /\ Kept /\ UNCHANGED <<words, cards, memo>>

\* The rebuild copies the columns that were there when it looked.
RekeyTable(p) ==
    /\ At(p, "rekey") /\ Advance(p, 1) /\ SetSchema(Table(p), memo[p] \cup {"key"})
    /\ forms' = IF Table(p) = "forms" /\ "source" \notin memo[p] THEN Unsourced ELSE forms
    /\ Kept /\ UNCHANGED <<words, cards, memo>>

\* A killed process leaves what it has committed, and so does one that has waited too long for
\* another's lock.  An importer ends; a server that serves stops.
Stop(p) ==
    /\ Running(p)
    /\ pc' = [pc EXCEPT ![p] = 0]
    /\ orphaned' = IF At(p, "renameCopy") THEN orphaned \cup {Table(p)} ELSE orphaned
    /\ UNCHANGED <<schema, rows, program, memo, failed, writes, starts>>

\* importPublicWords, one transaction: headwords without a source, where there is no such row.  The
\* rows that the other importers write have one.
InsertHeadwords(p, new) ==
    /\ Running(p) /\ ~Opening(p) /\ program[p] = "importekilex"
    /\ new # {} /\ \A f \in new : forms[f] = "absent"
    /\ forms' = [f \in Forms |-> IF f \in new THEN "none" ELSE forms[f]]
    /\ listed' = listed \cup new
    /\ UNCHANGED <<schema, words, cards, program, pc, memo, failed, learned, progress, overridden, orphaned, starts>>

\* What is written while the server serves: words that are known or ignored, answers, corrections.
LearnWord(t, w) ==
    /\ Serving /\ w \notin words[t]
    /\ words' = [words EXCEPT ![t] = @ \cup {w}] /\ learned' = [learned EXCEPT ![t] = @ \cup {w}]
    /\ UNCHANGED <<schema, cards, forms, program, pc, memo, failed, progress, overridden, listed, orphaned, starts>>

Review(c) ==
    /\ Serving /\ cards[c].progress # "introduced"
    /\ cards' = [cards EXCEPT ![c].progress = "introduced"] /\ progress' = [progress EXCEPT ![c] = "introduced"]
    /\ UNCHANGED <<schema, words, forms, program, pc, memo, failed, learned, overridden, listed, orphaned, starts>>

Override(f) ==
    /\ Serving /\ forms[f] # "override"
    /\ forms' = [forms EXCEPT ![f] = "override"] /\ overridden' = overridden \cup {f}
    /\ UNCHANGED <<schema, words, cards, program, pc, memo, failed, learned, progress, listed, orphaned, starts>>

Statement(p) ==
    \/ CreateTable(p) \/ AddColumn(p) \/ CheckScope(p) \/ CreateCopy(p) \/ FillCopy(p) \/ DropTable(p)
    \/ RenameCopy(p) \/ CheckSource(p) \/ AddSource(p) \/ CheckCardLang(p) \/ ScopeCards(p)
    \/ CheckCardSurface(p) \/ SurfaceCards(p) \/ IndexCards(p) \/ BackfillProvenance(p) \/ CheckKey(p) \/ RekeyTable(p)

UpgradeStep ==
    \/ \E p \in Processes : \/ \E prog \in DOMAIN Script : Start(p, prog)
                            \/ Statement(p) \/ Stop(p)
                            \/ \E new \in SUBSET Forms : InsertHeadwords(p, new)
    \/ \E t \in {"known", "ignored"}, w \in Words : LearnWord(t, w)
    \/ \E c \in Cards : Review(c)
    \/ \E f \in Forms : Override(f)

UpgradeNext == UpgradeStep /\ raced' = (raced \/ Race')

UpgradeSpec == UpgradeInit /\ [][UpgradeNext]_upgradeVars

-----------------------------------------------------------------------------
(* Properties.                                                             *)

\* Unless programs raced, a server that serves finds every column and key its statements name,
\* whatever version, importer or killed start was there before and whatever programs opened the
\* file with it; no form row without a source but those the public word list inserted; and the
\* corrections that administrators wrote still labelled as theirs.  Nor is there anything left to
\* decide: programs that open the file from then on cannot race.
ServedIsCurrent ==
    Serving /\ ~raced =>
        /\ \A t \in DOMAIN NewTables : schema[t] # Absent /\ Current[t] \subseteq schema[t]
        /\ \A f \in Forms : /\ forms[f] = "none" => f \in listed
                            /\ f \in overridden => forms[f] = "override"
        /\ \A p \in Processes : ~Deciding(p)

\* Unless programs raced, a start that nobody killed and no lock held up fails only on the copy
\* that a killed rebuild of the known or ignored words left, on decks from before occurrences had a
\* surface, or on an older file with two cards of one sense.
FailsOnlyOnLeftovers ==
    \A p \in Processes : failed[p] /\ ~raced =>
        \/ \E t \in Copies : schema[t] # Absent
        \/ "surface" \notin Columns("occurrence")
        \/ Twins

\* Unless programs raced, what has been learned or ignored is never out of the file, and no rebuild
\* of the cards loses progress.  A killed start leaves a word in the table or in the copy, and only
\* a kill between the drop of the one and the rename of the other keeps it from a server that
\* serves.
LearningKept ==
    ~raced =>
        /\ learned["known"] \subseteq words["known"] \cup words["known_new"]
        /\ learned["ignored"] \subseteq words["ignored"] \cup words["ignored_new"]
        /\ Serving => \A t \in {"known", "ignored"} \ orphaned : learned[t] \subseteq words[t]
        /\ \A c \in Cards : cards[c].progress = progress[c]

=============================================================================
