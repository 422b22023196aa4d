-------------------------- MODULE AccountSettings --------------------------
(***************************************************************************)
(* The language settings of an account (users.settings_json), beside the   *)
(* requests of module Accounts: PATCH /api/me/languages reads them in one  *)
(* store call and writes both fields in another, so that two requests of   *)
(* the learner, or the deletion of the account, may come in between.       *)
(***************************************************************************)
EXTENDS Accounts, Sequences, Functions

CONSTANTS
    Supported,  \* SupportedLanguages, in order
    Lists       \* the learning_languages lists a client may send

VARIABLES
    settings,  \* learning_languages and active_language of each account
    patch      \* what HandleUserLanguages of a request is about to write

settingsVars == <<vars, settings, patch>>

Languages == Range(Supported)

ASSUME SettingsAssumption ==
    /\ Supported \in Seq(Languages) /\ Supported # <<>>
    /\ \A list \in Lists : list \in Seq(Languages \cup {"other"})

Stored == [learning : Seq(Languages), active : Languages]

\* The column default.
DefaultSettings == [learning |-> Supported, active |-> Supported[1]]

NoPatch == [pc |-> "none"]
Unchanged == <<"unchanged">>  \* a field the request does not send

SettingsTypeOK ==
    /\ TypeOK
    /\ settings \in [Ids -> Stored]
    /\ DOMAIN patch = Requests
    /\ \A r \in Requests :
        patch[r] # NoPatch =>
            /\ request[r].pc = "acting"
            /\ patch[r].learning \in Seq(Languages \cup {"other"})
            /\ patch[r].active \in Languages

SettingsInit ==
    /\ Init
    /\ settings = [i \in Ids |-> DefaultSettings]
    /\ patch = [r \in Requests |-> NoPatch]

(* A list cut down to some of its positions. *)
Picked(list, kept) ==
    LET f[i \in 0..Len(list)] ==
            IF i = 0 THEN <<>> ELSE IF i \in kept THEN Append(f[i - 1], list[i]) ELSE f[i - 1]
    IN f[Len(list)]

(* UserLanguages: what does not parse falls back to all of the languages   *)
(* and to the first of the list.                                           *)
UserLanguages(s) ==
    LET known == Picked(s.learning, {i \in DOMAIN s.learning : s.learning[i] \in Languages})
        learning == IF known = <<>> THEN Supported ELSE known
    IN [learning |-> learning,
        active   |-> IF s.active \in Range(learning) THEN s.active ELSE learning[1]]

(* HandleUserLanguages up to the write: a field that is not sent is taken  *)
(* from the settings as read.  An account that is gone is an error.        *)
ReadLanguages(r, list, lang) ==
    /\ request[r].pc = "acting"
    /\ patch[r] = NoPatch
    /\ request[r].user \in live
    /\ LET current == UserLanguages(settings[request[r].user]) IN
       patch' = [patch EXCEPT ![r] =
           [pc       |-> "read",
            learning |-> IF list = Unchanged THEN current.learning ELSE list,
            active   |-> IF lang = "unchanged" THEN current.active ELSE lang]]
    /\ UNCHANGED <<vars, settings>>

(* The list without its duplicates, first occurrences kept. *)
Cleaned(list) == Picked(list, {i \in DOMAIN list : \A j \in 1..(i - 1) : list[j] # list[i]})

\* Mutant of UpdateUserLanguages: the active language is taken as it was checked
\* when the settings were read.
UpdateWithoutActiveCheck(u, p) ==
    IF u \in live /\ p.learning # <<>> /\ Range(p.learning) \subseteq Languages
    THEN settings' = [settings EXCEPT ![u] = [learning |-> Cleaned(p.learning), active |-> p.active]]
    ELSE UNCHANGED settings

(* UpdateUserLanguages checks what it was given, not what is stored, and   *)
(* writes both fields; a request that does not pass changes nothing.       *)
UpdateUserLanguages(u, p) ==
    IF /\ u \in live
       /\ p.learning # <<>>
       /\ Range(p.learning) \subseteq Languages
       /\ p.active \in Range(p.learning)
    THEN settings' = [settings EXCEPT ![u] = [learning |-> Cleaned(p.learning), active |-> p.active]]
    ELSE UNCHANGED settings

WriteLanguages(r) ==
    /\ patch[r] # NoPatch
    /\ UpdateUserLanguages(request[r].user, patch[r])
    /\ patch' = [patch EXCEPT ![r] = NoPatch]
    /\ Respond(r)

(* Everything else: a request that patches does nothing besides.  A row    *)
(* that is new, or gone, has the column default.                           *)
AccountStep ==
    /\ Next
    /\ \A r \in Requests : patch[r] # NoPatch => request'[r] = request[r]
    /\ settings' = [i \in Ids |-> IF i \in live \cap live' THEN settings[i] ELSE DefaultSettings]
    /\ UNCHANGED patch

SettingsNext ==
    \/ AccountStep
    \/ \E r \in Requests, list \in Lists \cup {Unchanged}, lang \in Languages \cup {"unchanged"} :
           ReadLanguages(r, list, lang)
    \/ \E r \in Requests : WriteLanguages(r)

SettingsSpec == SettingsInit /\ [][SettingsNext]_settingsVars

-----------------------------------------------------------------------------

(* Whatever requests overlap, the active language of an account is one of  *)
(* those it learns, so that UserLanguages never has to fall back.          *)
ActiveIsLearned ==
    \A u \in live : UserLanguages(settings[u]) = settings[u]

(* Inductive: what is stored passed the check of UpdateUserLanguages, or   *)
(* is the column default.                                                  *)
SettingsInv ==
    /\ SettingsTypeOK
    /\ \A i \in Ids : /\ settings[i].learning # <<>>
                      /\ settings[i].active \in Range(settings[i].learning)
=============================================================================
