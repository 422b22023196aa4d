----------------------------- MODULE DeckIngest -----------------------------
(***************************************************************************)
(* From a text to a deck: the upload of a book (internal/api/import.go),   *)
(* POST /api/parse and POST /api/decks (internal/api/handlers.go) over the *)
(* parser core (internal/parsecore/parsecore.go).                          *)
(*                                                                         *)
(* A text is a sequence of symbols, a rune each: forms, Stop for a full    *)
(* stop and Break for blank space between paragraphs.  A form is a word    *)
(* with its casing, or a number, which is written in groups of digits, each *)
(* a symbol.  The dictionary, and with it the words the learner has         *)
(* marked, may change between any two steps of a request; lookups are      *)
(* external here (module DictLookup models them).                          *)
(* Requests the server refuses (rate limits, a full parser pool, malformed *)
(* input) change nothing and are no steps of this model.                   *)
(***************************************************************************)
EXTENDS Integers, Sequences, SequencesExt, FiniteSets, FiniteSetsExt, Lists, TLC

CONSTANTS
    Users,          \* signed-in learners
    Anonymous,      \* a client without a session
    Requests,       \* the requests of a behaviour, each served once and at any time
    Uploads,        \* files: [kind, chapters], a chapter being a text
    Payloads,       \* texts and chapter lists the client sends without an upload
    Dictionaries,   \* its versions one after another, [pick, all, gloss, meanings, states]: what lookups answer
    Parsers,        \* parsers that clients of /api/parse ask for; decks always use "custom"
    Selections,     \* sets of senses a client may ask to study
    MaxImportChars, \* maxImportTextChars
    MaxTextChars,   \* parsecore.MaxTextChars
    AnonMaxChars    \* API.anonMaxChars

VARIABLES
    dict,      \* the version of the dictionary there is now
    loaded,    \* what the last upload of each user returned
    req,       \* the requests being served: their input and the versions they have read
    shown,     \* the last parse overview a client received
    sessions,  \* parse_sessions rows, in the order of their ids; Idle when deleted
    decks      \* decks rows, each with the request that made its occurrences

vars == <<dict, loaded, req, shown, sessions, decks>>

Idle == [stage |-> "idle"]
Done == [stage |-> "done"]
Stop == [word |-> "stop", cap |-> FALSE]
Break == [word |-> "break", cap |-> FALSE]
Lower(form) == [form EXCEPT !.cap = FALSE]
Number(groups) == [groups |-> groups, cap |-> FALSE]
IsNumber(form) == "groups" \in DOMAIN form                      \* is_all_digits
Blank(text) == \A i \in DOMAIN text : text[i] = Break

IsText(input) == input.kind = "text"
WellFormed(input) ==
    IF IsText(input) THEN IsTable(input.text)
    ELSE /\ input.kind = "chapters" /\ IsTable(input.chapters)
         /\ \A i \in DOMAIN input.chapters : IsTable(input.chapters[i])

ASSUME IngestAssumption ==
    /\ MaxImportChars \in Nat \ {0} /\ MaxTextChars \in Nat /\ MaxImportChars <= MaxTextChars
    /\ IsTable(Dictionaries) /\ Dictionaries # <<>>
    /\ \A selected \in Selections : IsFiniteSet(selected)
    /\ \A input \in Payloads : WellFormed(input)

\* What internal/epub/extract.go makes of a book: chapters that are not blank and have no
\* blank space around them.  A plain file is its one chapter, whatever it holds.
ASSUME UploadsAssumption ==
    \A file \in Uploads :
        /\ IsTable(file.chapters) /\ file.chapters # <<>>
        /\ \A i \in DOMAIN file.chapters :
              LET text == file.chapters[i]
              IN  /\ IsTable(text)
                  /\ file.kind = "epub" => text # <<>> /\ text[1] # Break /\ text[Len(text)] # Break

-----------------------------------------------------------------------------
(* The upload of a file.                                                   *)

\* strings.TrimSpace
TrimSpace(text) ==
    IF Blank(text) THEN <<>>
    ELSE LET kept == {i \in DOMAIN text : text[i] # Break}
         IN  SubSeq(text, Min(kept), Max(kept))

\* extractUploadedContent: a book is its chapters with a blank line after each.
ExtractUploadedContent(file) ==
    IF file.kind = "epub"
    THEN [text |-> TrimSpace(FlattenSeq([i \in DOMAIN file.chapters |-> Append(file.chapters[i], Break)])),
          chapters |-> file.chapters]
    ELSE [text |-> file.chapters[1], chapters |-> <<>>]

TruncateRunes(text, max) == SubSeq(text, 1, Min({max, Len(text)}))

\* Runes of the chapters before the i-th.
CharsBefore(chapters, i) == Cardinality(UNION {{<<j, k>> : k \in DOMAIN chapters[j]} : j \in 1..(i - 1)})

\* Mutant of TruncateImportChapters: each chapter is cut to the whole budget.
TruncateEachChapter(chapters, max) ==
    [i \in DOMAIN chapters |-> TruncateRunes(chapters[i], max)]

TruncateImportChapters(chapters, max) ==
    LET kept == {i \in DOMAIN chapters : CharsBefore(chapters, i) < max}
    IN  [i \in 1..Cardinality(kept) |-> TruncateRunes(chapters[i], max - CharsBefore(chapters, i))]

HandleImportExtract(file) ==
    LET got == ExtractUploadedContent(file)
    IN  IF Len(got.text) > MaxImportChars
        THEN [text |-> TruncateRunes(got.text, MaxImportChars),
              chapters |-> TruncateImportChapters(got.chapters, MaxImportChars), truncated |-> TRUE]
        ELSE [text |-> got.text, chapters |-> got.chapters, truncated |-> FALSE]

-----------------------------------------------------------------------------
(* The parser core.                                                        *)

CharsOf(input) == IF IsText(input) THEN Len(input.text)
                  ELSE CharsBefore(input.chapters, Len(input.chapters) + 1)

\* ValidateInput, ValidateChaptersInput
ValidInput(input) ==
    /\ CharsOf(input) <= MaxTextChars
    /\ IF IsText(input) THEN input.text # <<>>
       ELSE \E i \in DOMAIN input.chapters : ~Blank(input.chapters[i])

\* split_sentences: a full stop ends a sentence at the end of the text or before a
\* capital letter.
EndsSentence(text, i) ==
    /\ text[i] = Stop
    /\ \A j \in (i + 1)..Len(text) :
          text[j] # Break /\ (\A k \in (i + 1)..(j - 1) : text[k] = Break) => text[j].cap

\* merge_thousand_separator: a group of three digits joins the number before it whose first group
\* has one to three.  A sentence ends with a full stop, which ends a number too.
Thousands(form) == IsNumber(form) /\ Len(form.groups[1]) = 3
Leads(form) == IsNumber(form) /\ Len(form.groups[1]) \in 1..3
Follows(text, j, i) == j < i /\ text[i] # Break /\ \A k \in (j + 1)..(i - 1) : text[k] = Break
Joined(text, i) == Thousands(text[i]) /\ \E j \in DOMAIN text : Leads(text[j]) /\ Follows(text, j, i)

\* The token that begins at a symbol.
Tokenize(text, i) ==
    LET run == {j \in DOMAIN text : /\ j >= i /\ text[j] # Break
                                    /\ \A k \in (i + 1)..j : text[k] = Break \/ Joined(text, k)}
        parts == Taken(text, run)
    IN  IF IsNumber(text[i]) THEN Number([k \in DOMAIN parts |-> parts[k].groups[1]]) ELSE text[i]

\* split_sentences, and the tokens of each by tokenize.
SplitSentences(text) ==
    LET ends == Taken([i \in DOMAIN text |-> i],
                      {i \in DOMAIN text : i = Len(text) \/ EndsSentence(text, i)})
        from(k) == IF k = 1 THEN 1 ELSE ends[k - 1] + 1
        tokens == [i \in DOMAIN text |-> Tokenize(text, i)]
        cut == [k \in DOMAIN ends |->
                  Taken(tokens, {i \in from(k)..ends[k] : text[i] # Break /\ ~Joined(text, i)})]
    IN  Taken(cut, {k \in DOMAIN cut : cut[k] # <<>>})

\* toParsedSentences: sentences with the chapter they come from.
ParsedSentences(text, chapter) ==
    LET cut == SplitSentences(text)
    IN  [k \in DOMAIN cut |-> [text |-> cut[k], chapter |-> chapter]]

\* The analyzer loop of Parse and ParseChapters: a blank chapter keeps its number.
AnalyzedSentences(input) ==
    IF IsText(input) THEN ParsedSentences(input.text, 0)
    ELSE FlattenSeq([i \in DOMAIN input.chapters |-> ParsedSentences(input.chapters[i], i)])

\* create_token, guess_pos, and the fallback to the stub: a number is the same with and without
\* blanks, and the words of this model have no ending that suggests a verb.
Stub(form) == [form |-> form,
               lemma |-> IF form = Stop THEN form
                         ELSE IF IsNumber(form) THEN Number(<<FlattenSeq(form.groups)>>) ELSE Lower(form),
               pos |-> IF form = Stop THEN "PUNCT" ELSE IF IsNumber(form) THEN "NUM" ELSE "NOUN",
               label |-> "none", feats |-> "none", resolved |-> FALSE]

\* resolveDictionarySentences: BatchLookupForms answers for forms as they are written.
Token(form, pick) ==
    IF form # Stop /\ form \in DOMAIN pick
    THEN [form |-> form, lemma |-> pick[form].lemma, pos |-> pick[form].pos,
          label |-> pick[form].label, feats |-> pick[form].feats, resolved |-> TRUE]
    ELSE Stub(form)

ResolveSentences(sentences, pick) ==
    [k \in DOMAIN sentences |->
        [text |-> sentences[k].text, chapter |-> sentences[k].chapter,
         tokens |-> [i \in DOMAIN sentences[k].text |-> Token(sentences[k].text[i], pick)]]]

IsWord(token) == token.pos # "PUNCT"
Key(token) == <<token.lemma, token.pos>>
Places(ss) == UNION {{<<k, i>> : i \in DOMAIN ss[k].tokens} : k \in DOMAIN ss}
At(ss, p) == ss[p[1]].tokens[p[2]]
FirstText(ss, places) == ss[Min({p[1] : p \in places})].text
OneForm(forms) == Cardinality({Lower(f) : f \in forms}) = 1   \* hasSingleNormalizedForm
Only(values) == IF Cardinality(values \ {"none"}) = 1         \* singleSetValue
                THEN CHOOSE v \in values : v # "none" ELSE "none"
Nominal == {"ADJ", "NOUN", "NUM", "PRON", "PROPN"}            \* learnerGrammarLabelPOS
OrNone(table, k) == IF k \in DOMAIN table THEN table[k] ELSE "none"

\* enrichWords, aggregateMorphologyForWord
EnrichWords(ss, gloss) ==
    LET words == {p \in Places(ss) : IsWord(At(ss, p))}
        of(k) == {p \in words : Key(At(ss, p)) = k}
    IN  [k \in {Key(At(ss, p)) : p \in words} |->
            LET forms == {At(ss, p).form : p \in of(k)}
                single == OneForm(forms)
            IN  [count |-> Cardinality(of(k)), forms |-> forms, gloss |-> OrNone(gloss, k),
                 label |-> IF single /\ k[2] \in Nominal THEN Only({At(ss, p).label : p \in of(k)}) ELSE "none",
                 feats |-> IF single THEN Only({At(ss, p).feats : p \in of(k)}) ELSE "none",
                 example |-> FirstText(ss, of(k))]]

\* chapterSentenceSubset
OfChapter(ss, i) == Taken(ss, {k \in DOMAIN ss : ss[k].chapter = i})

\* computeChapterResults: counters per chapter, of every chapter of the request.
ChapterResults(input, ss, gloss) ==
    IF IsText(input) THEN <<>>
    ELSE [i \in DOMAIN input.chapters |->
            LET own == OfChapter(ss, i)
                tokens == {p \in Places(own) : IsWord(At(own, p))}
            IN  [sentences |-> Len(own), tokens |-> Cardinality(tokens),
                 resolved |-> Cardinality({p \in tokens : At(own, p).resolved}),
                 words |-> EnrichWords(own, gloss)]]

\* Parse, ParseChapters: countTokens is over the words of the whole book.
Parsed(input, ss, gloss) ==
    LET words == EnrichWords(ss, gloss)
    IN  [sentences |-> ss, words |-> words, chapters |-> ChapterResults(input, ss, gloss),
         total |-> SumOf([k \in DOMAIN words |-> words[k].count])]

-----------------------------------------------------------------------------
(* Dictionary alternatives and the learner-facing words.                   *)

Before(p, q) == p[1] < q[1] \/ (p[1] = q[1] /\ p[2] < q[2])

\* collectSurfaceForms: of the casings of a word the first in the text.
SurfaceForms(ss) ==
    LET words == {p \in Places(ss) : IsWord(At(ss, p))}
    IN  {At(ss, p).form : p \in {x \in words : ~\E y \in words :
            Before(y, x) /\ Lower(At(ss, y).form) = Lower(At(ss, x).form)}}

\* isInflectionalFormCandidate: "genitive of ..." under a headword spelt like the form.
Inflectional(form, c, gloss) == gloss = "form of" /\ Lower(form) = Lower(c[1])

\* filterLowValueAlternatives for one form
LowValueFiltered(form, cands, gloss) ==
    LET g(c) == OrNone(gloss, c)
        english == {c \in cands : g(c) \notin {"none", "definition"}}
        lexical == {c \in cands : g(c) # "none" /\ ~Inflectional(form, c, g(c))}
        kept == {c \in cands :
            /\ g(c) # "none"
            /\ english # {} => c \in english
            /\ (\E d \in english : d[2] # "X") => c[2] # "X"
            /\ (\E d \in english : ~d[1].cap) => ~(c[1].cap /\ Lower(form) = Lower(c[1]))
            /\ lexical # {} => c \in lexical}
    IN  IF \A c \in cands : g(c) = "none" THEN cands ELSE kept

\* BatchLookupAllForms and filterLowValueDictAlternatives: the readings left, and the
\* headwords whose glosses were asked for.
Alternatives(ss, d) ==
    LET forms == SurfaceForms(ss) \cap DOMAIN d.all
    IN  [left |-> [f \in forms |-> LowValueFiltered(f, d.all[f], d.gloss)],
         checked |-> UNION {d.all[f] : f \in forms},
         gloss |-> d.gloss]

\* Mutant of ExpandTokenLemmas: a token stands for every reading of the dictionary.
ExpandAlternatives(token, alternatives) ==
    IF ~IsWord(token) THEN {}
    ELSE {Key(token)} \cup (IF token.form \in DOMAIN alternatives.left
                            THEN alternatives.left[token.form] ELSE {})

\* expandTokenLemmas: what the parser picked, whatever else the dictionary has.
ExpandTokenLemmas(token, alternatives) == IF IsWord(token) THEN {Key(token)} ELSE {}

\* expandSentencesToWords: glosses of words whose headwords were not among the
\* alternatives are looked up in the dictionary as it is now.
ExpandSentencesToWords(ss, parserWords, alternatives, now) ==
    LET of(k) == {p \in Places(ss) : k \in ExpandTokenLemmas(At(ss, p), alternatives)}
        keys == UNION {ExpandTokenLemmas(At(ss, p), alternatives) : p \in Places(ss)}
        known(k) == k \in DOMAIN parserWords
        looked(k) == OrNone(IF k \in alternatives.checked THEN alternatives.gloss ELSE now.gloss, k)
        entry(k) ==
            LET forms == {At(ss, p).form : p \in of(k)}
                same == known(k) /\ OneForm(forms)
            IN  [count |-> Cardinality(of(k)), forms |-> forms,
                 gloss |-> IF known(k) /\ parserWords[k].gloss # "none" THEN parserWords[k].gloss ELSE looked(k),
                 label |-> IF same THEN parserWords[k].label ELSE "none",
                 feats |-> IF same THEN parserWords[k].feats ELSE "none",
                 example |-> IF known(k) THEN parserWords[k].example ELSE FirstText(ss, of(k))]
    IN  IF keys = {} THEN parserWords ELSE [k \in keys |-> entry(k)]

\* applyLemmaStatesInPlace: what BatchLemmaStates says the learner has marked.
ApplyLemmaStates(words, states) ==
    [k \in DOMAIN words |->
        LET w == words[k]
        IN  [count |-> w.count, forms |-> w.forms, gloss |-> w.gloss, label |-> w.label, feats |-> w.feats,
             example |-> w.example, state |-> OrNone(states, k)]]

\* ambiguousSurfacesFor, firstExampleBySurface
AmbiguousSurfaces(ss, d) ==
    LET forms == SurfaceForms(ss) \cap DOMAIN d.meanings
    IN  [f \in forms |-> [candidates |-> d.meanings[f],
                          example |-> FirstText(ss, {p \in Places(ss) : At(ss, p).form = f})]]

\* Mutant of DeckSentences: a sentence has one row per lemma, not per token.
DeckLemmas(ss, alternatives) ==
    LET keys(k, i) == ExpandTokenLemmas(ss[k].tokens[i], alternatives)
        tokens(k) == SetToSeq(UNION {{[ix |-> i, form |-> ss[k].tokens[i].form, key |-> x] :
                        x \in {y \in keys(k, i) : \A j \in 1..(i - 1) : y \notin keys(k, j)}} :
                                     i \in DOMAIN ss[k].tokens})
    IN  [k \in DOMAIN ss |-> [text |-> ss[k].text, tokens |-> tokens(k)]]

\* The sentences of the deck to be saved, a sentence without tokens and text left out.
DeckSentences(ss, alternatives) ==
    LET tokens(k) == SetToSeq(UNION {{[ix |-> i, form |-> ss[k].tokens[i].form, key |-> x] :
                                         x \in ExpandTokenLemmas(ss[k].tokens[i], alternatives)} :
                                     i \in DOMAIN ss[k].tokens})
        all == [k \in DOMAIN ss |-> [text |-> ss[k].text, tokens |-> tokens(k)]]
    IN  Taken(all, {k \in DOMAIN all : all[k].tokens # <<>> \/ all[k].text # <<>>})

\* Mutant of InjectSelectedSenses: a sense is added also to a token that has it already.
InjectEverywhere(sentences, selected, d) ==
    LET valid == {s \in selected : s.surface \in DOMAIN d.meanings /\ s.key \in d.meanings[s.surface]}
        asked(x) == {[ix |-> t.ix, form |-> t.form, key |-> s.key] : t \in Range(x.tokens), s \in valid}
        added(x) == {t \in asked(x) : [surface |-> t.form, key |-> t.key] \in valid}
    IN  [k \in DOMAIN sentences |->
            [text |-> sentences[k].text, tokens |-> sentences[k].tokens \o SetToSeq(added(sentences[k]))]]

\* injectSelectedSenses: only senses the dictionary offers for the surface, on tokens
\* written like it, and none a token has already.
InjectSelectedSenses(sentences, selected, d) ==
    LET valid == {s \in selected : s.surface \in DOMAIN d.meanings /\ s.key \in d.meanings[s.surface]}
        asked(x) == {[ix |-> t.ix, form |-> t.form, key |-> s.key] : t \in Range(x.tokens), s \in valid}
        fresh(x) == {t \in asked(x) : [surface |-> t.form, key |-> t.key] \in valid} \ Range(x.tokens)
    IN  [k \in DOMAIN sentences |->
            [text |-> sentences[k].text, tokens |-> sentences[k].tokens \o SetToSeq(fresh(sentences[k]))]]

-----------------------------------------------------------------------------
(* The requests.                                                           *)

\* What the parser makes of a request with the dictionary it has seen.
ParsedOf(q) ==
    Parsed(q.input, ResolveSentences(AnalyzedSentences(q.input), Dictionaries[q.seen].pick[q.parser]),
           Dictionaries[q.glossed].gloss)

\* The occurrences of a deck: alternatives are looked up, and the senses the learner asked
\* for injected.
Collected(q) ==
    LET ss == ParsedOf(q).sentences
        d == Dictionaries[q.offered]
    IN  InjectSelectedSenses(DeckSentences(ss, Alternatives(ss, d)), q.selected, d)

Init ==
    /\ dict = 1
    /\ loaded = [u \in Users |-> Idle]
    /\ req = [r \in Requests |-> Idle]
    /\ shown = Idle
    /\ sessions = <<>>
    /\ decks = <<>>

\* A reviewer's decision or an import changes what lookups answer.
ChangeDictionary ==
    /\ dict < Len(Dictionaries)
    /\ dict' = dict + 1
    /\ UNCHANGED <<loaded, req, shown, sessions, decks>>

Upload(u, file) ==
    /\ LET got == HandleImportExtract(file)
       IN  loaded' = [loaded EXCEPT ![u] = [stage |-> "loaded", text |-> got.text, chapters |-> got.chapters,
                                            truncated |-> got.truncated]]
    /\ UNCHANGED <<dict, req, shown, sessions, decks>>

\* What a client may send: a text of its own or the book it has loaded.
Inputs(c) ==
    Payloads \cup
    IF c = Anonymous \/ loaded[c] = Idle THEN {}
    ELSE {[kind |-> "text", text |-> loaded[c].text]} \cup
         IF loaded[c].chapters = <<>> THEN {} ELSE {[kind |-> "chapters", chapters |-> loaded[c].chapters]}

\* HandleParse up to the parser, which reads the pick of each form.
StartParse(r, c, input, parser) ==
    /\ req[r] = Idle
    /\ ValidInput(input)
    /\ c = Anonymous => CharsOf(input) <= AnonMaxChars
    /\ req' = [req EXCEPT ![r] =
                 [stage |-> "parse", client |-> c, input |-> input, parser |-> parser, seen |-> dict,
                  glossed |-> 0, expanded |-> 0]]
    /\ UNCHANGED <<dict, loaded, shown, sessions, decks>>

\* BatchLookupGlosses for the words of all sentences, once their forms are resolved.
ReadGlosses(r) ==
    /\ req[r].stage \in {"parse", "session"} /\ req[r].glossed = 0
    /\ req' = [req EXCEPT ![r] = [@ EXCEPT !.glossed = dict]]
    /\ UNCHANGED <<dict, loaded, shown, sessions, decks>>

\* The parser's words and those of each chapter become the learner-facing ones.
ExpandParse(r) ==
    /\ req[r].stage = "parse" /\ req[r].glossed # 0
    /\ req' = [req EXCEPT ![r] = [@ EXCEPT !.stage = "show", !.expanded = dict]]
    /\ UNCHANGED <<dict, loaded, shown, sessions, decks>>

\* The words of some sentences as a client is shown them: a learner also gets their states
\* as the dictionary is now.
ShownWords(q, ss, parserWords, now) ==
    LET d == Dictionaries[q.expanded]
        words == ExpandSentencesToWords(ss, parserWords, Alternatives(ParsedOf(q).sentences, d), d)
    IN  IF q.client = Anonymous THEN words ELSE ApplyLemmaStates(words, now.states)

ShownChapters(q, now) ==
    LET p == ParsedOf(q)
    IN  [i \in DOMAIN p.chapters |->
            [sentences |-> p.chapters[i].sentences, tokens |-> p.chapters[i].tokens,
             resolved |-> p.chapters[i].resolved,
             words |-> ShownWords(q, OfChapter(p.sentences, i), p.chapters[i].words, now)]]

\* What HandleParse answers: a learner also gets the meanings to choose from.
OverviewOf(q, now) ==
    LET p == ParsedOf(q)
    IN  [stage |-> "shown", input |-> q.input, parser |-> q.parser, seen |-> q.seen, total |-> p.total,
         words |-> ShownWords(q, p.sentences, p.words, now), chapters |-> ShownChapters(q, now),
         meanings |-> IF q.client = Anonymous THEN <<>> ELSE AmbiguousSurfaces(p.sentences, now)]

ShowParse(r) ==
    /\ req[r].stage = "show"
    /\ shown' = OverviewOf(req[r], Dictionaries[dict])
    /\ req' = [req EXCEPT ![r] = Done]
    /\ UNCHANGED <<dict, loaded, sessions, decks>>

\* handleCreateDeck up to the parser.
StartDeck(r, u, input, selected) ==
    /\ req[r] = Idle
    /\ IsText(input) /\ ValidInput(input)
    /\ req' = [req EXCEPT ![r] =
                 [stage |-> "session", client |-> u, input |-> input, selected |-> selected, parser |-> "custom", seen |-> dict,
                  glossed |-> 0, session |-> 0, offered |-> 0, deck |-> 0]]
    /\ UNCHANGED <<dict, loaded, shown, sessions, decks>>

CreateParseSession(r) ==
    /\ req[r].stage = "session" /\ req[r].glossed # 0
    /\ sessions' = Append(sessions, [user |-> req[r].client, text |-> req[r].input.text, total |-> ParsedOf(req[r]).total])
    /\ req' = [req EXCEPT ![r] = [@ EXCEPT !.stage = "sentences", !.session = Len(sessions')]]
    /\ UNCHANGED <<dict, loaded, shown, decks>>

\* Alternatives and the meanings of the surfaces are looked up.
CollectSentences(r) ==
    /\ req[r].stage = "sentences"
    /\ req' = [req EXCEPT ![r] = [@ EXCEPT !.stage = "deck", !.offered = dict]]
    /\ UNCHANGED <<dict, loaded, shown, sessions, decks>>

\* CreateDeckWithSentencesOptions: the deck and its occurrences in one transaction.
CreateDeck(r) ==
    /\ req[r].stage = "deck"
    /\ decks' = Append(decks, [owner |-> req[r].client, session |-> 0, request |-> req[r]])
    /\ req' = [req EXCEPT ![r] = [@ EXCEPT !.stage = "link", !.deck = Len(decks')]]
    /\ UNCHANGED <<dict, loaded, shown, sessions>>

\* Mutant of SetDeckParseSession: the newest session is taken for the request's own.
SetDeckNewestSession(r) ==
    /\ req[r].stage = "link"
    /\ decks' = [decks EXCEPT ![req[r].deck] = IF @ = Idle THEN @ ELSE [@ EXCEPT !.session = Len(sessions)]]
    /\ req' = [req EXCEPT ![r] = Done]
    /\ UNCHANGED <<dict, loaded, shown, sessions>>

\* SetDeckParseSession: nothing where the deck has been deleted since.
SetDeckParseSession(r) ==
    /\ req[r].stage = "link"
    /\ decks' = [decks EXCEPT ![req[r].deck] = IF @ = Idle THEN @ ELSE [@ EXCEPT !.session = req[r].session]]
    /\ req' = [req EXCEPT ![r] = Done]
    /\ UNCHANGED <<dict, loaded, shown, sessions>>

\* The analyser or a statement of the store fails: what was written before stays.
FailRequest(r) ==
    /\ req[r] \notin {Idle, Done}
    /\ req' = [req EXCEPT ![r] = Done]
    /\ UNCHANGED <<dict, loaded, shown, sessions, decks>>

DeleteDeck(i) ==
    /\ decks[i] # Idle
    /\ decks' = [decks EXCEPT ![i] = Idle]
    /\ UNCHANGED <<dict, loaded, req, shown, sessions>>

-----------------------------------------------------------------------------
(* The history of parse sessions.                                          *)

\* What deleting sessions does to rows and to the decks saved from them.
Forget(gone) ==
    /\ sessions' = [i \in DOMAIN sessions |-> IF i \in gone THEN Idle ELSE sessions[i]]
    /\ decks' = [j \in DOMAIN decks |->
                   IF decks[j] # Idle /\ decks[j].session \in gone
                   THEN [decks[j] EXCEPT !.session = 0] ELSE decks[j]]

Owned(u) == {i \in DOMAIN sessions : sessions[i] # Idle /\ sessions[i].user = u}

DeleteUserParseSession(u, i) ==
    /\ i \in Owned(u)
    /\ Forget({i})
    /\ UNCHANGED <<dict, loaded, req, shown>>

DeleteUserParseSessions(u) ==
    /\ Owned(u) # {}
    /\ Forget(Owned(u))
    /\ UNCHANGED <<dict, loaded, req, shown>>

\* cmd/purgeparsecontext: the texts of all sessions up to some time.
PurgeParseSessionSourceText(n) ==
    /\ n \in DOMAIN sessions /\ sessions[n] # Idle /\ sessions[n].text # <<>>
    /\ sessions' = [i \in DOMAIN sessions |->
                      IF i <= n /\ sessions[i] # Idle THEN [sessions[i] EXCEPT !.text = <<>>] ELSE sessions[i]]
    /\ UNCHANGED <<dict, loaded, req, shown, decks>>

ListUserParseSessions(u) ==
    [i \in Owned(u) |->
        [text |-> sessions[i].text, total |-> sessions[i].total,
         deckCount |-> Cardinality({j \in DOMAIN decks :
                           decks[j] # Idle /\ decks[j].owner = u /\ decks[j].session = i})]]

Next ==
    \/ ChangeDictionary
    \/ \E u \in Users, f \in Uploads : Upload(u, f)
    \/ \E r \in Requests, c \in Users \cup {Anonymous} : \E input \in Inputs(c), p \in Parsers :
          StartParse(r, c, input, p)
    \/ \E r \in Requests, u \in Users : \E input \in Inputs(u), s \in Selections : StartDeck(r, u, input, s)
    \/ \E r \in Requests : \/ ReadGlosses(r) \/ ExpandParse(r) \/ ShowParse(r) \/ CreateParseSession(r) \/ CollectSentences(r)
                           \/ CreateDeck(r) \/ SetDeckParseSession(r) \/ FailRequest(r)
    \/ \E i \in DOMAIN decks : DeleteDeck(i)
    \/ \E u \in Users : DeleteUserParseSessions(u) \/ (\E i \in DOMAIN sessions : DeleteUserParseSession(u, i))
    \/ \E n \in DOMAIN sessions : PurgeParseSessionSourceText(n)

Spec == Init /\ [][Next]_vars

-----------------------------------------------------------------------------
(* Properties.                                                             *)

Saved == {decks[i] : i \in {j \in DOMAIN decks : decks[j] # Idle}}
Overviews == {shown} \ {Idle}
OccurrencesOf(k, sentences) ==
    Cardinality(UNION {{<<n, i>> : i \in {j \in DOMAIN sentences[n].tokens : sentences[n].tokens[j].key = k}} :
                       n \in DOMAIN sentences})

\* What is written of a text and of an input, at its place, and the words among that as a
\* parser reads them.
Ink(text) == [i \in {j \in DOMAIN text : text[j] # Break /\ ~Joined(text, j)} |-> Tokenize(text, i)]
InkOf(input) ==
    IF IsText(input) THEN Ink(input.text)
    ELSE Entries([i \in DOMAIN input.chapters |-> Ink(input.chapters[i])])
WordsIn(ink, pick) ==
    [p \in {x \in DOMAIN ink : IsWord(Token(ink[x], pick))} |-> Key(Token(ink[p], pick))]
PickSeen(o) == Dictionaries[o.seen].pick[o.parser]

\* What is shown of the chapters adds up to what is shown of the book, each chapter under
\* its own title, and the total is that of the words.
AddsUp(o) ==
    /\ o.total = SumOf([k \in DOMAIN o.words |-> o.words[k].count])
    /\ o.input.kind = "chapters" =>
        /\ DOMAIN o.chapters = DOMAIN o.input.chapters
        /\ \A k \in DOMAIN o.words : o.words[k].count =
             SumOf([i \in DOMAIN o.chapters |->
                      IF k \in DOMAIN o.chapters[i].words THEN o.chapters[i].words[k].count ELSE 0])
        /\ \A i \in DOMAIN o.chapters :
             LET words == o.chapters[i].words
             IN  /\ o.chapters[i].tokens = Cardinality(DOMAIN WordsIn(Ink(o.input.chapters[i]), PickSeen(o)))
                 /\ o.chapters[i].tokens = SumOf([k \in DOMAIN words |-> words[k].count])
\* A chapter ends in digits and the next one that is not blank begins with a group of three: in
\* the text of the book that is one number.
EndsLeading(text) == \E i \in DOMAIN text : Leads(text[i]) /\ \A k \in (i + 1)..Len(text) : text[k] = Break
BeginsThousands(text) == \E i \in DOMAIN text : Thousands(text[i]) /\ \A k \in 1..(i - 1) : text[k] = Break
NumberRunsOn(chapters) ==
    \E i, j \in DOMAIN chapters :
        /\ i < j /\ EndsLeading(chapters[i]) /\ BeginsThousands(chapters[j])
        /\ \A k \in (i + 1)..(j - 1) : Blank(chapters[k])

BookAddsUp == \A o \in Overviews : AddsUp(o)

\* "The import overview and a subsequently saved deck agree on the unique-lemma count"
\* (comment on expandParsedWords): of one text, read with one dictionary and no sense
\* selected, the words shown are those of the deck, as often as they occur in it.  (The
\* text of a book that was cut is shorter than its chapters, and a number may run on over
\* the end of a chapter.)  And every overview adds up.
OverviewMatchesDeck ==
    BookAddsUp /\ \A d \in Saved, o \in Overviews :
        /\ d.request.selected = {} /\ o.parser = "custom" /\ o.seen = d.request.seen
        /\ o.input.kind = "text" => o.input = d.request.input
        /\ o.input.kind = "chapters" =>
              ~NumberRunsOn(o.input.chapters) /\
              \E u \in Users : /\ loaded[u] # Idle /\ ~loaded[u].truncated
                               /\ loaded[u].chapters = o.input.chapters
                               /\ loaded[u].text = d.request.input.text
        => LET sentences == Collected(d.request)
           IN  /\ DOMAIN o.words = {t.key : t \in UNION {Range(x.tokens) : x \in Range(sentences)}}
               /\ \A k \in DOMAIN o.words : o.words[k].count = OccurrencesOf(k, sentences)

\* A deck has one card per word, the parser's pick; a card beside it is one the learner
\* asked for and the dictionary offered for that surface when the deck was made, and no
\* token has a card twice.
OnlySelectedSensesAdded ==
    \A d \in Saved :
        LET q == d.request
            sentences == Collected(q)
            offered == Dictionaries[q.offered].meanings
            reading(form) == Token(form, Dictionaries[q.seen].pick.custom)
            own(t) == t.key = Key(reading(t.form))
        IN  \A x \in Range(sentences) :
              /\ IsInjective(x.tokens)
              /\ \A t \in Range(x.tokens) :
                   \/ own(t)
                   \/ /\ [surface |-> t.form, key |-> t.key] \in q.selected
                      /\ t.form \in DOMAIN offered /\ t.key \in offered[t.form]
              /\ \A i \in DOMAIN x.text :
                   IsWord(reading(x.text[i])) => \E t \in Range(x.tokens) : t.ix = i /\ own(t)

\* The history of a learner shows each deck with the text it was made of: a deck linked to
\* a session that is still there is the one deck of that row, whose text is the deck's
\* unless it was purged and whose total is the deck's, also when requests of one learner
\* overlap and sessions are deleted while they run.
HistoryMatchesDecks ==
    \A d \in Saved :
        LET rows == ListUserParseSessions(d.owner)
        IN  d.session \in DOMAIN rows =>
              /\ rows[d.session].deckCount = 1
              /\ rows[d.session].text \in {d.request.input.text, <<>>}
              /\ rows[d.session].total = ParsedOf(d.request).total

\* Behind it, and inductive.  Row i of the history is that of request q, if it still exists.
RowOf(i, q) ==
    sessions[i] # Idle => /\ sessions[i].user = q.client
                          /\ sessions[i].text \in {q.input.text, <<>>}
                          /\ sessions[i].total = ParsedOf(q).total

\* The requests that have a row and no deck linked to it yet.
Filed == {r \in Requests : req[r].stage \in {"sentences", "deck", "link"}}

DeckRequest == {"stage", "client", "input", "selected", "parser", "seen", "glossed", "session", "offered", "deck"}

TablesOK ==
    /\ DOMAIN req = Requests
    /\ IsTable(sessions) /\ IsTable(decks)
    /\ \A i \in DOMAIN sessions : sessions[i] # Idle => DOMAIN sessions[i] = {"user", "text", "total"}
    /\ \A j \in DOMAIN decks : decks[j] # Idle => DOMAIN decks[j] = {"owner", "session", "request"}
    /\ \A r \in Requests : "stage" \in DOMAIN req[r]
    /\ \A r \in Requests : r \in Filed \/ req[r].stage = "session" => DOMAIN req[r] = DeckRequest

\* A request that has a row: the row is its own and no deck is linked to it yet; its deck,
\* once made, is of what the request was parsed as.
FiledRow(r) ==
    /\ req[r].session \in DOMAIN sessions /\ RowOf(req[r].session, req[r])
    /\ \A s \in Filed : req[s].session = req[r].session => s = r
    /\ \A j \in DOMAIN decks : decks[j] # Idle => decks[j].session # req[r].session
    /\ req[r].stage = "link" => req[r].deck \in DOMAIN decks
    /\ req[r].stage = "link" /\ decks[req[r].deck] # Idle =>
          LET d == decks[req[r].deck]
          IN  /\ d.owner = req[r].client /\ d.request.client = req[r].client
              /\ d.request.input = req[r].input /\ d.request.parser = req[r].parser
              /\ d.request.seen = req[r].seen /\ d.request.glossed = req[r].glossed

\* A deck that is linked to a row, and alone linked to it: the row is that of its request.
LinkedDeck(j) ==
    /\ decks[j].session \in DOMAIN sessions /\ RowOf(decks[j].session, decks[j].request)
    /\ decks[j].owner = decks[j].request.client
    /\ \A k \in DOMAIN decks : decks[k] # Idle /\ decks[k].session = decks[j].session => k = j

SessionInv ==
    /\ TablesOK
    /\ \A r \in Filed : FiledRow(r)
    /\ \A j \in DOMAIN decks : decks[j] # Idle /\ decks[j].session # 0 => LinkedDeck(j)

\* Decks are made of texts, read with a dictionary there was, for senses a client may ask for.
MadeOfText(q) ==
    /\ IsText(q.input) /\ IsTable(q.input.text) /\ q.parser = "custom"
    /\ q.selected \in Selections /\ q.seen \in DOMAIN Dictionaries

IngestInv ==
    /\ dict \in DOMAIN Dictionaries
    /\ DOMAIN loaded = Users /\ \A u \in Users : loaded[u] # Idle => IsTable(loaded[u].text)
    /\ \A r \in Requests : r \in Filed \/ req[r].stage = "session" => MadeOfText(req[r])
    /\ \A j \in DOMAIN decks : decks[j] # Idle => MadeOfText(decks[j].request)

\* Words as they are counted where they are read.
Tallies(words, read) ==
    /\ DOMAIN words = {read[p] : p \in DOMAIN read}
    /\ \A k \in DOMAIN words : words[k].count = Cardinality({p \in DOMAIN read : read[p] = k})

ParseRequest == {"stage", "client", "input", "parser", "seen", "glossed", "expanded"}

ParsesMade == \A r \in Requests : req[r].stage \in {"parse", "show"} =>
                 DOMAIN req[r] = ParseRequest /\ WellFormed(req[r].input) /\ ValidInput(req[r].input)

BooksWhole == \A u \in Users : loaded[u] # Idle =>
                 LET book == loaded[u]
                 IN  /\ WellFormed([kind |-> "chapters", chapters |-> book.chapters])
                     /\ book.truncated \/ book.chapters = <<>> \/
                           book.text = ExtractUploadedContent([kind |-> "epub", chapters |-> book.chapters]).text

\* An overview counts the words of its input, which is well formed as that of its request
\* was.  The chapters a learner has loaded are, too, and make up the text unless it was cut.
OverviewInv ==
    /\ ParsesMade /\ BooksWhole
    /\ \A o \in Overviews : /\ WellFormed(o.input) /\ ValidInput(o.input) /\ AddsUp(o)
                            /\ Tallies(o.words, WordsIn(InkOf(o.input), PickSeen(o)))

\* What the upload of a file returns can be parsed: neither the text nor the chapters
\* exceed what the parser accepts, however long the file was, and a book has some text left.
\* Only a plain file may be empty.
ImportedBookParses ==
    \A u \in Users : loaded[u] # Idle =>
        LET book == loaded[u]
        IN  /\ book.text # <<>> \/ book.chapters # <<>> => ValidInput([kind |-> "text", text |-> book.text])
            /\ book.chapters # <<>> => ValidInput([kind |-> "chapters", chapters |-> book.chapters])
=============================================================================
