--------------------------- MODULE MCSchemaUpgrade ---------------------------
(* The files of older versions: none, an importer's, and those the tests   *)
(* of internal/store build as legacy databases.                            *)
EXTENDS SchemaUpgrade, TLC

CONSTANTS p1, p2, w1, w2, c1, c2, f1, f2, m1, m2

MCSymmetry == Permutations({p1, p2})

MCSeen == m1 :> (1 :> 1 @@ 2 :> 2) @@ m2 :> (1 :> 0)
MCLemma == m1 :> 1 @@ m2 :> 3

None == [t \in Tables |-> Absent]
With(s, sources) == [schema |-> s @@ None, forms |-> f1 :> sources[1] @@ f2 :> sources[2], sense |-> c1 :> m1 @@ c2 :> m2,
                    progress |-> c1 :> (IF s["card_state"] = {} THEN "answered" ELSE "introduced") @@ c2 :> "new"]

Server0 == [users |-> {}, decks |-> {}, lemmas |-> {}, cards |-> {}, card_state |-> {}, known |-> {}, ignored |-> {}]
First == With([occurrence |-> {"surface"}, forms |-> {}] @@ Server0, <<"none", "none">>)
Sourced == With([occurrence |-> {"surface"}, forms |-> {"source"}, lemmas |-> {"source"}, known |-> {"lang", "lang key"},
                 ignored |-> {"lang", "lang key"}, cards |-> {"lang", "lang unique"}] @@ Server0, <<"kaikki", "absent">>)
LegacyKeys == With([occurrence |-> {}, forms |-> {"source"}] @@ None, <<"kaikki", "kaikki">>)
Reported == With([parse_feedback |-> {}, cards |-> {"lang", "lang unique"}, card_state |-> {"introduced_at"},
                  forms |-> {"source", "feats", "key"}, occurrence |-> {"surface", "key"},
                  known |-> {"lang", "lang key", "source"}, ignored |-> {"lang", "lang key"}] @@ Server0, <<"kaikki", "kaikki">>)
Surfaceless == With([occurrence |-> {"key"}, cards |-> {"lang", "lang unique"}, forms |-> {"source", "key"}] @@ Server0, <<"kaikki", "kaikki">>)
Today == With(Current, <<"absent", "override">>)
Doubled == [First EXCEPT !.sense[c2] = m1]

MCVersions == {With(None, <<"absent", "absent">>), First, Doubled, Sourced, LegacyKeys, Reported, Surfaceless, Today}

\* After a race the file is left alone: the properties say nothing of it.
Unraced == ~raced
=============================================================================
