# finnestdb in TLA+

finnestdb is a language-learning service for Finnish and Estonian: a learner
pastes or uploads a text, the parser turns it into a deck of dictionary words,
and the learner reviews the words as cards on a spaced-repetition schedule. One
Go process serves a JSON API and a static web client over one SQLite file; the
client and the operator's command-line tools are the other actors.

This directory holds the specifications of that service: TLA+ modules translated
from the Go source, the TLC configurations that check them on small instances,
and theorems about them whose proofs TLAPS checks. `PROJECT.json` maps every
definition to the lines it models. Paths below are relative to `src/`.

1. [Inventory](#1-inventory)
2. [Modules and the code they model](#2-modules-and-the-code-they-model)
3. [Runs](#3-runs)
4. [Fairness](#4-fairness)
5. [Proofs](#5-proofs)
6. [Where code and documents disagree](#6-where-code-and-documents-disagree)
7. [What is not modelled](#7-what-is-not-modelled)
8. [Plan](#8-plan)

## 1. Inventory

### How the parts interact

```
 web/app.ts ──HTTP──> internal/api/handlers.go ──calls──> internal/store/db.go ──> SQLite file
   review loops,        auth, rate limits,                 dict.go: one method = one        ^
   readers, admin       parser limiter,                    statement or transaction         |
                        deck ingest                                                         |
                            │                                cmd/importdict, importekilex*, |
                            └──> parsecore -> lemmatizer     importkotus, importgold...,    |
                                       │                     exportgold..., resetpassword ──┘
                                       └── dictionary tables           ^
                                                        cmd/fetchekilex│(raw files)
```

Handlers run as goroutines, one per request, and share three things: the
database, the parser limiter's two channels and the rate limiters' maps.
There is no other memory shared between requests. A handler is a run of store
calls; each call is a statement or a transaction, so requests interleave between
calls, and what a handler read in one call it still believes in the next. The
operator's tools open the same file from another process. SQLite enforces no
foreign keys here (the comment above `DeleteUserCascade` says so), so every
delete is responsible for the rows of others that refer to what it deletes.

### Components

| Component | State | Operations | What is hard | What makes it correct |
|---|---|---|---|---|
| Parser limiter (`internal/api/parser_limiter.go`) | two buffered channels used as semaphores | acquire, release | a select that races a send with a deadline; two semaphores held at once; a refund on one path only | no slot leaks; anonymous visitors leave room for signed-in ones; every request is answered |
| Learner store (`internal/store/db.go`) | decks, occurrences, subscriptions, known and ignored lemmas, cards, `card_state` | create, share, subscribe, unsubscribe, delete decks; import, sync, mark, unmark, delete words; the pages' queries | cards are seeded at four places by different SQL, two of them under another case fold; a dozen queries count the same rows in their own ways; long sequences of legal calls | nothing orphaned; every neutral word of a studied deck can be reviewed; confirmed words and answered cards are kept; pages agree |
| Review queue and schedulers (`db.go`, `internal/store/fsrs.go`) | `card_state`, daily budget, the scheduler flag | next card, answer, counts | budget read in one request and spent in another; lost responses; midnight; flag flips between two schedulers with one stored payload | the budget holds up to what was under way; dashboard and queue agree; better ratings never come back sooner |
| Accounts, sessions, settings (`handlers.go`, `db.go`, `cmd/resetpassword`) | users, sessions, settings, what each account owns | register, login, authenticate, logout, delete, grant, change languages, reset | check-then-act over several statements; a second process | ended sessions stay out; one account per address; a new account owns nothing old; the active language is one that is learnt |
| Correction issues (`internal/store/correction_issues.go`, `db.go`, `handlers.go`) | parse sessions, reports, issues with stored counts | report, delete, triage, quarantine, restore, list | attribution and filing are two calls, class check and status write two statements; counts are a cache | the ledger has every report's issue; only a triaged quarantine hides content; nobody's report goes with another's data |
| Correction loop: review and write-back (`db.go`, `cmd/importgoldsurfaces`, `cmd/exportgoldcandidates`) | reviewed feedback, overrides, gold surfaces, gold candidates | accept, reject, correct, promote, export | several tables in one decision; curated data that must win; importers that rewrite the same rows | the last accepted correction answers; a promoted one has different supporters and is seen by somebody |
| Rate limiter (`internal/api/rate_limit.go`) | per policy, a map from key to count and end of window | allow, prune | the clock is read before the lock; pruning; a request counted by one policy and refused by the next | bounded bursts; the retry signal is honest |
| Deck ingest (`handlers.go`, `internal/api/import.go`, `parsecore`) | parse sessions, decks | upload, parse, expand, filter, store | several reads of a dictionary that changes; session, deck and link in three calls; one text counted by two expansions | overview, deck and history agree; a deck holds what the learner chose |
| Dictionary lookup (`internal/store/dict.go`) | none: reads the dictionary tables | one reading, all readings | comparators that must be orders; the two lookups correct and filter separately | the pick is among the meanings offered and does not depend on row order |
| Dictionary importers (`cmd/importdict`, `importekilex`, `importekilexdetails`, `importkotus`) | dictionary tables | batch runs | several transactions per run, any of which may be the last; five sources with priorities | a recorded import leaves nothing of the one before; corrections survive |
| Ekilex fetcher (`cmd/fetchekilex`) | queue file, checkpoint table, raw files; in memory the gate | refresh, fetch, probe | workers, a gate with a channel per pause, crashes between file and row | nothing unfetched is skipped; a run ends |
| Schema and migrations (`db.go`, importers) | the schema, and the rows migrations move | start-up migrations | a kill in the middle, another program's file, a second start | what is served is current; learning and corrections survive |
| SQLite transactions | the file lock | begin, read, write, commit | — (library) | taken as given, see section 2 |
| Rust tokenizer, lemmatizer, EPUB extraction | none | pure functions of text | string data | — |
| Starter decks and catalog | embedded, read-only | list, sample, rank | — | — |
| Web client (`web/app.ts`) | current screen, card, session | asynchronous flows | responses applied out of order | the screen shows the last thing asked for |
| Web server, readiness; corpus pipeline, evaluation, treebank converter | — | wiring; offline batch tools | — | — |

`PROJECT.json` lists the same components with their status, and under `hazards`
the places in the code where each difficulty bites.

## 2. Modules and the code they model

Conventions. An action is a store call, a channel operation or a handler's
stretch between two of them; its name is the Go function's where one function is
one action. A transaction is one step, for SQLite refuses a write that follows a
stale read: a refused transaction is a stuttering step. History variables are
declared as such and no guard reads them, except that `ended` in `Accounts` keeps
a token from being drawn twice. The definitions marked "Mutant of" change one
definition the way a plausible programming error would; no specification uses
them, each shows that a property notices the error. `MC*` modules hold the
constants of the runs, `*Proofs` the theorems.

| Module | Models | Extends / composes |
|---|---|---|
| `ParserPool` | what the limiter promises: one pool, two shares (abstract) | — |
| `ParserLimiter` | the limiter's channels and deadlines | refines `ParserPool` |
| `LearnerStore` | decks, vocabulary, cards | — |
| `LearnerViews` | due times, quarantine, every page's queries | extends `LearnerStore`, refines it |
| `ReviewQueue` | review loops and schedulers | — |
| `Accounts` | accounts and sessions | — |
| `AccountSettings` | the language settings | extends `Accounts`, refines it |
| `CorrectionIssues` | reports, issues, quarantine | — |
| `EkilexForms` | the pure part of the Ekilex importer | — |
| `Dictionary` | dictionary tables, importers, review and write-back, gold export | extends `EkilexForms` |
| `Lists` | what a list contains and what is taken of it | — |
| `DictLookup` | resolving a surface | extends `Lists` |
| `DeckIngest` | upload, parse, deck, history | extends `Lists` |
| `EkilexFetcher` | the fetcher | — |
| `RateLimiter` | the fixed-window limits | — |
| `SchemaUpgrade` | the database file between versions | — |

### ParserLimiter and ParserPool

`Requests` are goroutines in `HandleParse` (anonymous allowed) and
`handleCreateDeck` (signed-in only). `total` and `anon` are the channels' lengths,
`pc` the position in `acquire` and `release`, `expired` the requests whose
deadline context is done, by timer (`Timeout`) or because the client went away
(`Disconnect`). Each branch of each `select` is an action, and both are enabled
when both are ready, as Go leaves the choice open. `release` is two receives, so
two steps. `MaxConcurrency` is the configured integer, any value: the module
applies the code's clamps (`Slots`, `AnonSlots`); `timed` is the queue timeout,
configured on or off. `ParserPool` is what remains when channels, refunds and
deadlines are hidden: a request waits, enters when the pool and its share have
room, leaves, or is refused. The mapping (`Pool`) forgets the queue a request is
in; a request that gives slots back counts as outside from the first receive on.

### LearnerStore and LearnerViews

`LearnerStore`: one action per store call over one learning language, for any
users, decks, lemmas and surfaces. No call looks at the users row: `requireAuth`
does, some time before. A call therefore runs for an account that exists or for
one that was deleted while its request was running (`Acting`): `DeleteUserCascade`
leaves up to `MaxPending` calls to be made (`pending`), and `late` remembers the
accounts for which there were any. The state is the tables' content; a lemma is a
(lemma, pos) pair, and a card's key is a folded surface with a lemma. The two
case folds are constants, because the code really has two: Go's
`strings.ToLower`, used when cards are made one by one, and SQLite's `lower()`,
which folds ASCII letters only and forms the seeding of subscriptions and the
join of every review query. `confirmed` and `unseeded` are history: the words a
learner confirmed and has not withdrawn, and those whose known row was removed by
a path that seeds no cards (the vocabulary page's delete and "delete all", and a
sync that drops a word).

`LearnerViews` adds what the reading queries depend on besides (which answered
cards rest, which scopes are quarantined) and one operator per page: the list of
decks with its counts, the catalogue, a deck's words, coverage and words to learn
next, the dashboard. Each is translated from its own SQL. A text has each of its
surfaces at one position, so two lemmas with one surface are homonyms.

### ReviewQueue

One learner's `card_state` rows and any number of review loops (tabs, or a
rating clicked twice). Asking for a card is two statements in the code, the
budget and the query, and two actions here (`BeginNext`, `FinishNext`); an answer
is one transaction that re-checks ownership only (`RecordReviewAnswer`), and may
reach the server while its response is lost. Time runs in units of ten minutes,
the shortest delay there is; days are UTC days as in the code's `date()`. The FSRS
engine is a library: it may choose any delay from a constant set, minutes after
"again". The step scheduler is modelled in full, with the bucketing that reads a
step off an FSRS payload. `Restart` flips the scheduler flag.

### Accounts and AccountSettings

Registration, login and the sliding session statement by statement. A request
carries what it has read: the address found free, the password that was right,
the session that was valid and when, the admin flag at authentication. `text`
and `history` are the accounts that own rows in the tables that
`DeleteUserCascade` clears and in `review_log`. Account ids are AUTOINCREMENT
values (`used`). `cmd/resetpassword` is a second process whose statements
interleave with all of it. `AccountSettings` adds `PATCH /api/me/languages`, which
reads the settings in one call and writes both fields in another.

### CorrectionIssues

Reports, parse sessions and issues over any learners, surfaces and senses. A
report is attributed to a session in one call and filed under it in the next;
filing links it to the issue of its scope (normalised surface, proposed sense),
recomputes the issue's counts and reopens a fixed issue. Administrators act in
several statements: a quarantine call stores the class it carried, checks it,
reads the issue and writes the status. `Suppressed` is the predicate the review
and reader queries apply for a quarantined issue; the administrators' and the
learner's listings are operators.

### Dictionary and EkilexForms

The tables `lemmas`, `forms`, `translations`, `definitions`, `gold_surfaces`,
`gold_candidates` and the reviewed reports, of one language (`lang`; Ekilex writes
Estonian, Kotus Finnish). One importer runs at a time beside a server whose
administrators review; `job` is its position, a transaction is a step, and
`Abort` ends it between any two. A row has its source and its priority;
`UpsertLemma` and `UpsertForms` carry the priority clause all importers share.
`cmd/importdict` does one of three things, each after `-reimport` if that is given:
the kaikki import and the smoke import (`-source-key ekilex`), with
`-source-priority` and followed by `-custom-glosses`, or `-backfill-feats`; the
deletions, the kaikki import and the backfill commit in batches. importekilexdetails
has five passes whose pure part (meanings, parts of speech, translations, merged
readings of a form) is in `EkilexForms`; the public word list and importkotus are
one transaction each.
`ReviewParseFeedback` is the whole review transaction with the gold guard, the
write-back and the promotion. `PrintCandidates` and `MarkGoldCandidatesExported`
are the two halves of an export, between which reviews go on. `answer`, `printed`
and `wordList` are history.

### DictLookup

A query fixes the rows, analyses and issues a lookup finds; words are sequences of
morphs, a text is a word with a casing. `PickOf` is `BatchLookupForms`: rows,
their ranking, the lemma fallback, compounds, case endings, possessives,
A- and MA-infinitives, and the Estonian stem. `Meanings` is `BatchLookupAllForms`
with `SurfaceCandidates`: the merged ranking, the corrections, and what quarantine
leaves. Comparators are operators, so that they can be checked to be orders. A
morph has a length in runes and one in bytes, for the code's lower limits are in
either: a stem of one letter "ä" is two bytes long. A casing says where capitals
are as far as the code asks (`capsStem` is "EUROn": its first morph in capitals).

### DeckIngest

A text is a sequence of words, groups of digits, stops and breaks, a rune each. The
parser is a function of the text but not of its symbols one by one: `Tokenize` joins
a group of three digits to the number before it, as `merge_thousand_separator` does,
over line breaks and paragraphs but not over a full stop. The dictionary is a
sequence of versions, and each request remembers which version each of its steps
read (`seen` for the picks, `glossed` for the glosses, `offered`). `/api/parse` is:
parse, read glosses, expand, annotate, answer; `/api/decks` is: parse, read glosses,
store the session, collect the sentences with the selected senses, create the deck,
link it. Decks, sessions and the texts in them may be
deleted between any two. `ExtractUploadedContent` cuts a book as the import does.

### EkilexFetcher

Queue refresh, `cmdFetch` with its workers, attempts, the gate whose channel is
picked up under the lock and waited for outside, the circuit that opens after
failures and the probe that resumes it, raw files and checkpoint rows, and runs
that end, are interrupted or crash. Counting a failure and opening the circuit are
two steps (`Count`, `Trip`). Rates and back-off only delay, except that a
cancellation during a back-off ends the fetch as "canceled". `NoLemma` is a list
entry that `writeQueue` refuses.

### RateLimiter

The policies of one route (by address, then by account). A request reads the clock,
then takes the lock (`Arrive`, `Allow`), so requests are counted in another order
than their times; `Allow` is everything under the mutex, with the prune. The
client's address behind trusted proxies is `ClientIP`. `given` is history: for each
key how many requests were let through up to each time, so that the difference of
two entries is what a minute has seen.

### SchemaUpgrade

A program that opens the file is a script of statements (`InitSchema`,
`ImportDict`, ...); each statement is an action, transactions are one, and
`Stop` kills between any two, or gives up a start that has waited too long for a
lock. Any number of programs may open the file together, for no lock spans two
statements. cmd/importekilex (`ImportEkilex`) creates its tables as they first were,
migrates nothing and inserts headwords without a source (`InsertHeadwords`). The
schema of a table is the set of what later versions have added; the one unique index
that can fail is a statement of its own (`IndexCards`); only the rows a migration
moves are kept.

Most statements can be repeated by anybody. Some act on what an earlier statement of
the same program has looked at; a program at one of these is `Deciding`. A `Race` is
that one program is deciding while another is opening the file, and `raced` is history:
there was one. The properties are about files on which there was none, so about a
deployment that starts its programs one after another on an old file, and however it
likes on a current one: on a file that a server serves there is nothing left to decide,
which `ServedIsCurrent` says. `listed` and `orphaned` are history as well: the
headwords that importekilex inserted, and the tables whose rebuild was killed between
the drop of the table and the rename of the copy.

The files start as
older versions left them (`Versions`), which are those the repository's tests
build, and while a server serves, learners and administrators go on writing.
`VersionsAssumption` says in which order the versions came: cards were scoped to a
language before they had a surface and before the time of introduction was recorded,
and a correction was labelled from the first. Without it the upgrade does lose
something: the rebuild by language (`ScopeCards`) does not carry `introduced_at` over,
and the backfill of sources takes an unlabelled correction for a kaikki row.

### How they fit together

The modules that extend each other share their variables. The others meet at the
store calls: `ReviewQueue` refines what `LearnerStore` reduces to "an answer"
(`RecordReviewAnswer`); `hidden` there stands for known and ignored lemmas here
and for quarantined issues in `CorrectionIssues`; `Accounts` says
which requests outlive their account, and `LearnerStore` what these go on to write;
`ParserLimiter` and `RateLimiter` guard the part of `DeckIngest` that comes before
the store. `Dictionaries` in `DeckIngest` are what `DictLookup` computes over the
tables of `Dictionary`; `EkilexDrops` there are raw files of `EkilexFetcher`.
`DeleteUserCascade` appears in three modules, each for its own tables.

## 3. Runs

All runs are exhaustive. "Passing" runs check what should hold; the one
"violation" run shows a disagreement between the code and its comments
(section 6).

| Run | Instance | Distinct states | Checks |
|---|---|---|---|
| `limiter_pool` | 2 anonymous, 2 signed-in requests, 2 slots, queue timeout on or off | 5,056 | `NoSlotLeak`, `AnonymousLeavesRoom`, `ImplementsPool`, `EveryRequestAnswered` |
| `store_views` | an admin who publishes, a learner, 1 deck id, 2 homonyms, a word in two casings, quarantines, a call that outlives its account | 379,660 | `ListAgreesWithPage`, `NoOrphanRows`, `NeutralLemmasHaveCards`, `ConfirmedIsKnown`, `UnlocksAreWorthIt`, `AnsweredCardsKept` |
| `review_queue` | 2 loops, 3 cards new or studied, budget 1, filters, flips, a midnight | 1,031,728 | `NewCardBudget`, `DashboardMatchesQueue`, `GoodNeverPullsForward` |
| `review_rollback` | 1 card, every rating, flips, waits up to 30 days | violation | `RollbackKeepsProgress` |
| `accounts_sessions` | 2 requests, the operator, 2 successive accounts of one address, 2 tokens, settings | 675,364 | `ActiveIsLearned`, `EndedStaysOut`, `OneAccountPerEmail`, `NewAccountStartsEmpty` |
| `issues_ledger` | 2 learners, 2 requests, 2 administrators, 2 sessions, 2 reports | 791,352 | `ListsAgree`, `TriagedBeforeActed`, `OnlyAdminsHide` |
| `dictionary_tables` | 2 importer runs, 2 reviews of 3 reports, 1 export; Finnish or Estonian tables of 2 spellings and 3 senses | 1,437,806 | `OverrideAnswers`, `RecordedKaikkiIsFresh`, `RecordedEkilexAgrees`, `CandidatesReachReview`, `ParadigmsKept` |
| `lookup_picks` | every list of up to 3 rows and 2 analyses over 9 surfaces, both modes | 31,890 | `RankingIsAnOrder`, `BasicPickIgnoresRowOrder`, `PickIsOffered` |
| `fetch_circuit` | 2 workers, 3 words, 2 attempts, limit 1, 2 trips of the circuit, over files of earlier runs | 474,558 | `SkippedWasAnswered`, `PausedMeansPaused`, `RunsEnd` |
| `ingest_requests` | 2 requests, 2 books with numbers at the ends of chapters, an empty file, a chapter list, 2 dictionary versions | 420,246 | `OverviewMatchesDeck`, `OnlySelectedSensesAdded`, `HistoryMatchesDecks`, `ImportedBookParses` |
| `rate_windows` | 2 goroutines, up to 9 requests, a minute and the next, several limits, a proxy | 750,196 | `BurstBounded`, `RetryAfterIsHonest` |
| `schema_upgrade` | 3 starts of 5 programs by 2 processes over the files of 8 versions | 1,955,564 | `ServedIsCurrent`, `FailsOnlyOnLeftovers`, `LearningKept` |

Bounds, and why they are enough to show something.

* Limiter: four requests on a pool of two are the fewest for which anonymous
  visitors could fill the pool by themselves while a signed-in request competes
  with them and another waits at either channel. An answered request may come
  back as a retry, so the run contains unboundedly many requests. With a
  configured pool of one slot the anonymous share is clamped up to the whole
  pool; `AnonymousLeavesRoom` therefore speaks of two slots or more.
* Store: the hazards are sequences over one word (made known before or after
  subscribing, unmarked while subscribed, dropped by a sync) and counts over one
  position with two homonyms; two users are needed because sharing is between
  them. Only the learner learns (`Learners`), the admin owns decks. `MaxPending = 1`:
  one call of an account that is gone is enough to leave a row behind, and to write
  beside the rows of others. The folds
  agree in this run; surfaces on which they differ are covered by the proof of
  `NeutralLemmasHaveCards`, which exempts them.
* Review queue: the budget is overrun only if loops overlap, so two; three cards
  are one more than can be under way. `MaxNow` lets one midnight pass and days
  come that cards wait for. Every rating is "good", the one `GoodNeverPullsForward`
  is about; the budget does not depend on which. The state constraint
  `OneCardClimbs` lets one card climb the step ladder to its third rung and the
  others to the first; the run checks no liveness, so a constraint is sound.
* Accounts: `MaxId = 2` gives an address two successive accounts; a session lives
  one tick and the clock runs for one, so it can expire with a request in flight.
  Fresh tokens run out, which bounds the logins.
* Issues: two reports and two sessions are enough for one report to be withdrawn
  while another stands, for one scope to be reopened by the second and for a
  session to vanish between the two calls of a report.
* Dictionary: two importer runs are an import and the one that follows it, of
  whatever kind and however far the first came; the dumps, drops and lists are
  chosen so that the second lacks what the first had (meanings, readings,
  classes). `-source-priority` is the default 10 in the run, and anything below the rank
  of accepted corrections in the proofs. Two reviews make a correction and its replacement, or the second
  supporter of a promotion; `MCPromoted` has one candidate of older reports, so
  an export can be under way while these reviews make another.
* Lookup: the tie-breaks compare at most three rows, so lists of three show any
  cycle; the surfaces are one for each fallback.
* Fetcher: one run over files that earlier runs and crashes left (`Earlier`)
  stands for any number of runs, for a run keeps nothing but its files. Two trips
  give the gate a second channel while a worker still holds the first.
* Ingest: two requests overlap in every order with two versions of the
  dictionary; the lengths of the two books lie around the limit.
* Rate windows: two goroutines are needed for a time read before the lock to be
  counted after a later one, four requests and a minute (`Window = 3`) for a refused
  key to come back. With the address limiter alone and a limit of two, nine requests
  fill three windows of one key and leave one of another key to prune between them;
  the constraint `Enough` stops the counting there, and at four requests where the
  account limiter is on. The bound of `BurstBounded` is reached in this run.
* Schema: a start that is killed, one that goes on from what it left, and a
  server that serves afterwards; or two programs that open the file together, or an
  importer beside a server, and one start more. After a race the properties say nothing,
  so the constraint `Unraced` lets TLC leave those states alone (section 6 says what
  happens then).

`CHECK_DEADLOCK FALSE` stands where a bound lets the system stop: the store once
every account is deleted and the deck id is used, the accounts when ids, tokens
and clock are used up, the issues when sessions and reports are, lookups when
they are answered, the fetcher when its runs are over, the schema when its starts
are. The other runs are checked for deadlock.

What the properties say is written next to each of them. The ones that took
thought:

* `NoSlotLeak` counts the holders from `pc`, so a token owed by a request on the
  refund path or half way through `release` is counted.
* `NoOrphanRows` exempts what calls write that were under way when their account was
  deleted. Those rows are real (section 6); for every other account it says that
  nothing is left, whatever such calls do in between.
* `NeutralLemmasHaveCards` is the learner's promise behind all seeding code: in
  a deck that is studied, a word neither known nor ignored can come up. It has
  two exceptions, and both are real: surfaces on which the folds disagree and
  words removed from the vocabulary without seeding.
* `ListAgreesWithPage` relates five independently written queries; its clause on
  the catalogue is limited to decks without quarantined content, for the
  catalogue counts suppressed rows.
* `NewCardBudget` allows one card for each other loop. The bound is tight: with
  `NewPerDay` alone TLC finds two loops that both saw the last place.
* `NewAccountStartsEmpty` includes rows written by a request that was
  authenticated before the account went, and rows no cascade clears: they are
  orphans, and stay so because ids are not reused.
* `ListsAgree` says more than that counts are an upper bound: a badge is up
  whenever enough learners stand behind an undecided issue.
* `RecordedKaikkiIsFresh` and `RecordedEkilexAgrees` speak of recorded imports
  only: between two transactions the tables are a mixture, and are meant to be.
* `ImportedBookParses` leaves out one upload: a plain file without text is returned as an
  empty text, which the parser refuses.
* `OnlySelectedSensesAdded` speaks of words: a headword the dictionary calls punctuation
  gets no card (the kaikki importer keeps parts of speech it does not know as they are).
* `OverviewMatchesDeck` compares what two different expansions of one text count,
  when both read one dictionary; with a dictionary that changed in between they
  may differ, and the model has behaviours in which they do. Its clause on books has
  two exceptions, and both are real: a book that was cut, and one in which a number
  runs on over the end of a chapter (`NumberRunsOn`, section 6).
* `ServedIsCurrent`, `FailsOnlyOnLeftovers` and `LearningKept` speak of files on which
  no programs raced. `ServedIsCurrent` allows the rows that importekilex writes until the
  next migration labels them; `FailsOnlyOnLeftovers` has the failure of the unique index
  of the cards; `LearningKept` is about ignored words as well, and says what a server
  reads, not only what the file has: a table whose rebuild was killed between the drop
  and the rename is the one exception.
* `BurstBounded` is not the two windows' worth that a fixed window is known for. A
  minute may see three: when a request of *another* key prunes the first window, a
  request held up with an old time opens one that ends before the minute does, and
  a third opens after it. With two windows' worth and the goroutines TLC finds the
  counterexample at a limit of three; the proof gives `3 * limit + |Requests| - 2`.
* `PickIsOffered` is stated for Finnish with its exceptions spelled out: a pick
  that is quarantined, demoted or blocked is rightly not offered, and of a surface
  with accepted corrections only these are offered. The last exception is real: two
  accepted corrections of a lower-case surface to capitalised names lose the parse
  to a common noun, because casing comes before priority, and the learner is
  offered the names without the noun (section 6).
* `RunsEnd` has the alternative that the circuit stays open for ever and nobody
  interrupts the run, which the program accepts.

## 4. Fairness

Two modules have liveness properties; the other components answer each call and
wait for nobody.

`ParserLimiter`: `Progress` is weak fairness of the timer, of the branches a ready
goroutine must take once its deadline is over, and of the end of a parse: timers
fire, the Go scheduler runs runnable goroutines, and a parse ends since its input
is capped. Neither arrivals nor disconnects are fair. With the timeout on nothing
is assumed of the sends: a request that never gets a slot is shed. With the
timeout configured off there is no timer, and `FifoSends`, strong fairness of the
two sends, stands for Go's channels, which park senders in a FIFO queue and hand a
freed slot to its head; a `select` with a parked send is in that queue. Only then
can a wait be expected to end.

`EkilexFetcher`: weak fairness of each worker's steps and of `EndRun`, which is the
Go scheduler. Nothing is assumed of the service that answers the probe, of
interrupts or of crashes.

## 5. Proofs

TLAPS checks the following for all values of the constants that meet the named
assumptions. These are the types the code gives the constants, finiteness of the sets
of requests, cards, loops, lemmas, texts and selections, and eight facts about data:
folding ASCII first changes nothing for the Unicode fold (`FoldAssumption`); two
surfaces of which SQLite's `lower()` makes the same form are normalised to one form, and no
import is given the priority of accepted corrections (`DictionaryAssumption`); the rows of a form differ in lemma or part of speech, the
primary key of `forms`, and different names have different places in the alphabet
(`QueriesAssumption`); rows from before the modelled days are such as the step
scheduler writes (`StartAssumption`); an import may keep no more than the parser takes
(`IngestAssumption`: both limits are 1,500,000 in the code); the extractor returns chapters
of a book that are neither blank nor surrounded by blank space (`UploadsAssumption`,
`internal/epub/extract.go`); and older files are such as the versions
left them, in the order in which the versions came (`VersionsAssumption`). TLC
evaluates all of them on the runs.

| Theorem | States | Argument |
|---|---|---|
| `ParserLimiterProofs!Accounting` | `NoSlotLeak` and `TypeOK` | inductive: `Inv` adds `AnonymousPath`, without which a signed-in request could "give back" an anonymous slot |
| `ParserLimiterProofs!RoomForSignedIn` | `AnonymousLeavesRoom` | from the accounting: the anonymous holders are at most `AnonSlots`, which is less than `Slots` |
| `ParserLimiterProofs!LimiterIsPool` | `ImplementsPool` | step by step under `Inv`: only the send that completes a request's slots is `Enter`, and the accounting turns the channels' capacities into the pool's; all else is a stutter, a refusal or a departure |
| `LearnerViewsProofs!TypeCorrect`, `NoOrphans`, `Schedulable` | `TypeOK`, `NoOrphanRows`, `CardsSchedulable` of `LearnerStore` | each inductive together with `TypeOK` |
| `LearnerViewsProofs!Coverage` | `NeutralLemmasHaveCards` | inductive together with the three above: subscribing needs that cards have state rows, deleting a deck that nobody studies a deck without a row |
| `LearnerViewsProofs!ViewsRefineStore` | every behaviour of the extended store is one of `LearnerStore` | the theorems above carry over to what `store_views` runs |
| `LearnerViewsProofs!ViewTypeCorrect`, `Confirmed` | `ViewTypeOK`, `ConfirmedIsKnown` | inductive over the steps of the extended store |
| `LearnerViewsProofs!HistoryKept` | `AnsweredCardsKept` | action by action, with `CardsSchedulable`: only the removal of an account takes an answered card or its state |
| `LearnerViewsProofs!PagesAgree` | `ListAgreesWithPage` | in every well-typed state: each pair of queries is shown to select the same rows, or one a subset of the other's, then to count them alike (cardinality of finite sets) |
| `LearnerViewsProofs!UnlocksWorthIt` | `UnlocksAreWorthIt` | the positions covered after the mark are the disjoint union of those covered before and those promised; decks are finite, and the choice of the words to learn next exists (induction over the number of words) |
| `ReviewQueueProofs!TypeCorrect` | `TypeOK` | inductive by its `RowInvariant` |
| `ReviewQueueProofs!BetterIsLater` | `RatingsOrdered` | the delays of the four ratings on each of six rungs |
| `ReviewQueueProofs!NoEmptyPromise` | `DashboardMatchesQueue` | the three queries select the same cards, given `RowInvariant` |
| `ReviewQueueProofs!BudgetHolds` | `NewCardBudget` | inductive: `BudgetInv` counts the loops already let through (`Pending`) together with the cards introduced; a rating moves one from the first to the second, and a loop is let through only below the budget |
| `ReviewQueueProofs!NotPulledForward` | `GoodNeverPullsForward` | `LadderInv`: a step row is due no later than its rung waits after the answer, and nothing was answered in the future; the next rung waits at least as long, and a row of FSRS is bucketed below the time it has left |
| `StoreProofs!Invariant`, `TypeCorrect`, `SessionsStayEnded` | `TypeOK`, `EndedStaysOut` | inductive: an ended token's row is revoked or gone, and a fresh token is not an ended one |
| `StoreProofs!EmailsUnique` | `OneAccountPerEmail` | inductive |
| `StoreProofs!NewAccountsEmpty` | `NewAccountStartsEmpty` | every id in a table or in a request's memory was handed out before |
| `StoreProofs!SettingsRefineAccounts` | every behaviour with settings is one of `Accounts` | the settings touch no variable of `Accounts` |
| `StoreProofs!SettingsInvariant`, `LanguagesAgree` | `SettingsInv`, `ActiveIsLearned` | `SettingsInv`: what is stored is the default or passed the check, and a pending patch takes what it lacks from sound settings; the loops that clean a list are shown to keep its members (induction over the list) |
| `StoreProofs!UpgradeInvariance` | `UpgradeInv` | inductive while one program at a time opens the file: `Established` (what a statement is there for is seen to once the process is past it, and nothing undoes it), `AtWork` (a rebuild finds what its check found), `InOrder` (what older files and copies look like), `Explained` (a failure's reason stays) |
| `StoreProofs!ServersAreCurrent` | `ServedIsCurrent` | a server that serves is past all 41 statements, so by `Established` each has seen to its part |
| `StoreProofs!FailuresExplained` | `FailsOnlyOnLeftovers` | `Explained`, and the statements that can fail otherwise come after those that create their tables |
| `StoreProofs!UpgradesKeepLearning` | `LearningKept` | with `AtWork`: a rebuild drops a table of words only when the copy has all its rows, and the copy is renamed before anything else looks |
| `CorrectionIssuesProofs!Invariant`, `TypeCorrect`, `CountsNeverShort`, `TriageComesFirst` | `TypeOK`, `CountsCoverReports`, `TriagedBeforeActed` | `Inv` adds that ids were handed out, that a report's session is its reporter's or gone, that an administrator about to write has seen a class, and that the reports are finite |
| `CorrectionIssuesProofs!LedgerIsComplete` | `ListsAgree` | inductive with `Inv`: a report is linked only to an issue of its scope whose counts were just made, and deletions only make counts too high |
| `CorrectionIssuesProofs!ReportsHideNothing`, `ReportsAreTheirs` | `OnlyAdminsHide`, `OnlyOwnReportsWithdrawn` | action by action from `Inv` |
| `DictionaryProofs!Invariance`, `TypeCorrect` | `Inv`, `TypeOK` | the parts below are inductive together, with `RowsRanked`: a row has the priority of its writer, and only corrections have that of corrections |
| `DictionaryProofs!CorrectionsAnswer` | `OverrideAnswers` | no source of an importer outranks an override, and a write-back deletes the override rows of the form before it writes its own |
| `DictionaryProofs!ParadigmsStay` | `ParadigmsKept` | over the lines of a word list: after each prefix a sense has the class of the last line that has one |
| `DictionaryProofs!KaikkiReplaces` | `RecordedKaikkiIsFresh` | `KaikkiIsFresh`: from the first transaction on every row is of a prefix of the dump |
| `DictionaryProofs!EkilexAgrees` | `RecordedEkilexAgrees` | `PassesStand` keeps what each pass wrote until the record, `GlossesFromDumps` accounts for the glosses that Ekilex takes over |
| `DictionaryProofs!CandidatesAreReviewed` | `CandidatesReachReview` | the count of supporters is over accepted reports of that very form; `MarkedWasPrinted` |
| `ParseProofs!RankingOrders` | `RankingIsAnOrder` | the keys are compared lexicographically; the exception for rows without morphology keeps the order weak because an analysis alone has no priority and less support than any row |
| `ParseProofs!PickIgnoresRowOrder` | `BasicPickIgnoresRowOrder` | the keys of two rows tie only if lemma and part of speech agree, which the primary key of `forms` excludes; so of finitely many rows one leads the others (induction over their number), wherever it stands in the list |
| `ParseProofs!ShownIsOffered` | `PickIsOffered` | the merged ranking is of finitely many candidates, so being an order it has a best one; that is a row or an analysis, and the lists of meanings are followed step by step: what each filter keeps, and that it looks at lemma and part of speech alone |
| `ParseProofs!HistoryMatches` | `HistoryMatchesDecks` | `SessionInv`: a row belongs to one request until the deck of that request is linked to it, and from then on to that deck |
| `ParseProofs!ImportsParse` | `ImportedBookParses` | the text of a book is its chapters and one blank between any two, so its length is a sum (induction over the chapters); the chapters kept are the first ones, and cut they add up to the limit at most; a chapter cut short still has a word, for none begins with a blank |
| `ParseProofs!SensesAreChosen` | `OnlySelectedSensesAdded` | `IngestInv`: every deck is made of a text read with a dictionary there was; the sentences of a text are followed from the cut to the cards, which a finite set lists once each, and injected senses are outside that set |
| `ParseProofs!OverviewAgrees` | `OverviewMatchesDeck` | `OverviewInv`: an overview counts the words of what is written in its input, and a loaded book is its chapters unless it was cut. What a token is depends on the symbols from where it begins to where it ends and on the one number before them, so it is the same in a sentence as in the text, and the same in a chapter as in the book unless a number runs on into it. Counts are compared by pairing places: each token of a text is in one sentence, those of a book in one of its chapters, each card at one token (`Alike`) |
| `ThrottleProofs!FetcherTypeCorrect`, `SkippedAlwaysAnswered`, `PauseHolds` | `FetcherTypeOK`, `SkippedWasAnswered`, `PausedMeansPaused` | `FetchInv`: a worker about to record an outcome has seen it; `GateInv`: the channel of a paused gate is open, and so is the one a worker waits on that has passed once |
| `ThrottleProofs!TypeCorrect`, `RetryAfterHolds` | `TypeOK`, `RetryAfterIsHonest` | `WindowInv`: the window that turned a key away ends within a minute of the first refusal, whatever stale times come after |
| `ThrottleProofs!BurstHolds` | `BurstBounded` | `BurstInv`: what a minute has seen of a key plus the requests that are held up with a time before it stays below `Ceiling`, five cases by how far the open window reaches and whether the limiter has pruned in this minute |

The inductive invariants were model-checked before they were proved, as invariants of
the runs of section 3. Two statements failed there and were corrected: `BurstBounded`
with two windows' worth, and `PickIsOffered` without the exception for accepted
corrections (section 3).

The provers take no operator as a parameter, so the induction theorems of the library
cannot be used. Where a fold or a recursive function runs over a list
(`UpsertLemmas`, `Meanings`, `ParadigmsWritten`, `Picked`), the proofs use induction
over a *set* of indices instead: the least index at which a statement fails would be
one after an index at which it holds (`InductionOnSet`, `LeastOf` in `StoreProofs`
and their likes in `DictionaryProofs` and `ParseProofs`). `DictLookup` filters lists
with `Taken`, the entries at a set of positions, since the provers cannot look into
`SelectSeq`; `TakenInOrder` says what it is for every list.

`OverviewAgrees` is about numbers that two programs arrive at along different ways. The
overview counts places in sentences and expands them per chapter and per book; the deck
lists tokens, drops sentences, and turns sets of cards into lists. Neither is compared
with the other. Both are compared with what is written in the text, a function from
the places where tokens begin to tokens (`Ink`): two such functions are `Alike` when a bijection of their
places keeps the values, and each step of the two programs (cutting into sentences,
resolving tokens, joining chapters, trimming the blank around a book, making cards) is
shown to keep what there is alike. Counts are sizes of finite sets of places, so alike
functions have the same (`TalliesAlike`), and those of a book are the sums over its
chapters because its places are disjoint (`BookTally`).

Only model-checked:

* the liveness properties `EveryRequestAnswered` and `RunsEnd` (they rest on fairness
  and ENABLED), and `RollbackKeepsProgress`, which does not hold.

Every other property of the runs is proved.

The theorems about `SchemaUpgrade` assume `MaxOpen = 1`: with two programs that
migrate the same file at a time its three invariants are false (section 6).

Some modules share a module of theorems: `ParseProofs` has what a parse looks
up (`DictLookup`) and what it stores (`DeckIngest`), `ThrottleProofs` what is held back
(`RateLimiter`, `EkilexFetcher`), `StoreProofs` what the store keeps
(`AccountSettings`, `SchemaUpgrade`). Their specifications do not share variables.

## 6. Where code and documents disagree

With a run that shows it:

* `review_rollback`: `stepFromInterval` is meant to keep a card's progress when
  FSRS is switched off (`internal/store/fsrs.go:206`). It buckets
  `next_due - now`, which is not positive for a due card, so every card the queue
  shows falls back to step 0.

Seen while modelling, without a run of their own. Learners and accounts:

* `occurrenceSurfaceNormExpr` (`internal/store/db.go:1848`) is called the join
  expression for occurrences and cards, but folds ASCII only, while cards are
  keyed by Go's fold. A word seen only at the start of a sentence with a capital
  such as "Ä" has a card that deck review does not join.
* A reset "logs the account out everywhere" (`internal/store/db.go:1213`), except
  for a login that verified the old password just before and opens its session
  just after.
* Deleting an account leaves its `review_log` rows (`internal/store/db.go:1317`),
  although the dialog (`web/app.ts:1418`) says the review history goes. They are
  modelled (`history`). A request authenticated before its account is deleted
  inserts rows afterwards: decks, cards and vocabulary of nobody (`late`).
* Two administrators may demote each other at the same moment
  (`internal/api/handlers.go:3160`); the guard only looks at oneself.
* Of two overlapping changes of the language settings the later write undoes the
  other's field (`internal/api/handlers.go:897`).
* `handleGetDeck` computes `subscribed` for public decks only. `GetDeckDetails`
  and `ListPublicDecksForUser` count rows, suppressed ones included, where the
  list of decks counts positions and leaves these out. `HandlePublicDecks` says
  "does not already own" and lists own decks.
* `HandleMe` and `DeckComprehension` read several queries outside a transaction, so
  one answer may mix two states.

Reports and corrections:

* A quarantine hides the sense a report *proposed*
  (`CreateParseFeedback`, `internal/store/db.go:3496`), while
  `internal/store/correction_issues.go:412` and
  `docs/PARSER_FEEDBACK_LOOP.md:162` speak of the analysis the parser gave; the
  reported analysis stays in circulation.
* `docs/PARSER_FEEDBACK_LOOP.md:153` says the counts stay correct; after a
  session, a history or an account is deleted they are too high until the next
  report.
* A quarantine call without a reason is refused, but the class it carried is
  stored by then (`internal/api/handlers.go:3048` says "atomically").
* Restoring one of two overlapping quarantined issues does not bring content back.
  A restore that read its issue before a report reopened it overwrites
  "reopened" with "fixed". Surface-only issues store a Go-folded key and are
  compared with SQLite's `lower()`.
* Accepting a correction to an analysis the dictionary has turns the imported row
  into the override row (`internal/store/db.go:3747`), where the comment says
  "upstream imported rows stay pristine"; un-accepting a report leaves the
  override; a custom gloss cannot apply to a lemma an accepted correction owns.
* Promotion counts supporters by `lower(surface)`, which misses non-ASCII
  capitals. An exported candidate never becomes pending again, also when its
  support grows.

Dictionary:

* `importJSONL` numbers the meanings of each entry from 0
  (`cmd/importdict/main.go:583`), so of two entries of one lemma and part of
  speech the second overwrites meanings of the first. The header says the
  first-imported form wins; the upserts go by priority, and the last wins.
* `-backfill-feats` fills by form and language only, overrides included.
  `-reimport` deletes accepted overrides and inflection classes; with
  `-source-key ekilex -lang fi` it deletes before the import is refused. With
  `-backfill-feats`, `-custom-glosses` is ignored without a word.
* `-source-priority` takes any number: one of 1000 or more lets an import take over
  accepted corrections, and the assumption is that nobody gives it.
* The importers' comments give overrides priority 100; it is 1000.
  `cmd/importekilex` says it adds only missing headwords, and adds an X homonym
  beside a typed one. A lemma that a new Ekilex drop lacks keeps its old gloss.
* `cmd/importkotus/main.go:111` says rows are upgraded also where no label is
  known; `write` returns before that. Its header has "whichever paradigm_class
  arrived last"; the last *non-empty* one stays.
* An override loses to a lower-case reading in `pickBestResolutionCandidate`
  (`internal/store/dict.go:628`; `docs/PARSER_FEEDBACK_LOOP.md:112` says it wins).
  `SurfaceCandidates` may omit the parse's own pick in Estonian, and in Finnish
  where two corrections to names lose to it; the merge applies
  no blocklist to transducer readings; some tie-breaks of the custom mode, and the
  strict-case branch of `tryFSTAnalyze`, cannot be reached.

Ingest, limits, fetcher, schema:

* A parse session deleted between `CreateParseSession` and `SetDeckParseSession`
  leaves the deck linked to nothing. When the deck fails the session stays. A
  truncated book's chapters are cut without counting separators
  (`internal/api/handlers.go:1304`). `HandleParse` annotates the book and its
  chapters with separate queries.
* The parser joins groups of digits to one number over line breaks and paragraphs
  (`parser/src/lib.rs:230`). A chapter that ends in "12" before one that begins with
  "345" counts two words in its book's overview and is one word, "12 345", in the
  deck, where the comment on `expandParsedWords` promises the deck's words.
* A stale clock reading can open a rate-limit window that is already half over, and
  does so for a key whose own window another key's request has pruned: a minute may
  see three windows' worth of a key (`BurstBounded`).
* The fetcher's limit is overshot by up to one word for each other worker, and a
  request that a cancellation ends is recorded as a failure when it was the last
  attempt.
* A start killed inside `ensureLangScopedKnownTable` leaves a copy on which later
  starts fail, and in the worst case the only place of the known words. A file
  whose occurrence rows have no surface fails at every start
  (`internal/store/db.go:599`). The backfill of card surfaces folds ASCII only.
  Two programs that migrate one legacy file at the same time can lose schema,
  overrides or card progress, in spite of the comment at
  `internal/store/db.go:261`; that is what `Race` stands for.
* The comment at `internal/store/db.go:603` takes the cards' UNIQUE for one that covers
  cards without an MWE. Nulls are distinct, so it covers none: a file with two cards of
  one sense makes the unique index at `internal/store/db.go:613` fail, at every start.
* "The only writers that ever produced empty-source rows were the FI/ET kaikki paths"
  (`internal/store/db.go:858`): cmd/importekilex does so to this day, and the next
  migration labels its headwords "kaikki".

## 7. What is not modelled

* Text processing (tokenizer, lemmatizer, EPUB): functions of strings without
  state shared between requests. Words, analyses and chapters are inputs of
  `DeckIngest` and `DictLookup`; of the tokenizer, the cut into sentences and the
  joining of digits are modelled (`SplitSentences`, `Tokenize`), because on these the
  counts of two texts and of their concatenation differ.
* Within one request the picks of all forms are read at one version of the dictionary,
  and so are the glosses. The code reads them in batches, in the order of the text,
  so a dictionary that changes meanwhile may answer a part of the words anew.
* The FSRS memory model: a library; its due times are nondeterministic.
* Per-language filtering: every statement has `lang = ?`; one language is
  modelled at a time. MWE cards: the schema has them, no code creates one.
* Password hashing, token generation, origin checks: data or plain refusals.
* Displays without counts that could disagree: streaks, activity, card faces,
  titles, examples.
* The web client's asynchronous flows (section 8), the server's wiring, static
  files, the embedded catalog and starter decks.
* The corpus pipeline, evaluation tools and treebank converter: offline statistics
  over files; nothing the service keeps depends on them.
* SQLite itself: its locks are library code. A transaction is one step, and
  storage errors in the middle of one roll it back: stuttering steps. In the
  kaikki import a failed statement is logged and skipped; that is left out.
* Crashes of the server need no action of their own in most modules: a store call
  is a transaction or a statement, and a request that dies between two calls is
  covered by the safety properties, since a request may stop anywhere. In
  `ParserLimiter` and `RateLimiter` the state lives and dies with the process.

## 8. Plan

Done: the modules of section 2, in order of how much the service depends on them.

Next, in order:

1. `ReviewClient`: the client's asynchronous review flow (`web/app.ts`) composed
   with `ReviewQueue` as its server. Property: the screen shows the card of the
   last session asked for, and an answer is for the card on screen.
2. An abstract `LemmaStatus` (a lemma is new, learning, known or ignored, and only
   the learner moves it), implemented by `LearnerStore`.
