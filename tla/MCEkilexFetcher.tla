--------------------------- MODULE MCEkilexFetcher ---------------------------
(* Three words and two workers; one word may have been fetched before, and *)
(* another by a run that crashed before it recorded it; the third failed.  *)
EXTENDS EkilexFetcher, TLC

CONSTANTS a, b, c
MCWords == {a, b, c}
MCEarlier ==
    {[status |-> [x \in MCWords |-> "none"], raw |-> {}, gone |-> {}],
     [status |-> [x \in MCWords |-> IF x = a THEN "ok" ELSE IF x = c THEN "failed" ELSE "none"], raw |-> {a, b}, gone |-> {}]}
=============================================================================
