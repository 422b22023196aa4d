--------------------------- MODULE MCRateLimiter ---------------------------
(* An instance of RateLimiter for TLC: an anonymous client that connects   *)
(* directly, and a signed-in one behind a proxy that appended its address  *)
(* to what the client sent.                                                *)
EXTENDS RateLimiter, TLC

CONSTANTS r1, r2, home, proxy, other, aino, nobody, bad

Direct == [remote |-> home, forwarded |-> <<other>>, real |-> other, account |-> nobody]
SignedIn == [remote |-> proxy, forwarded |-> <<home, other, bad>>, real |-> bad, account |-> aino]
Clients == {Direct, SignedIn}

\* One request a window on both limiters, on the account alone, and two an address.
Limits == {[ip |-> 1, account |-> 1], [ip |-> 0, account |-> 1], [ip |-> 2, account |-> 0]}

\* Bounds: four requests where the account's limiter is on.  With the address's alone
\* there are enough to fill three windows of one key and one of the other's to prune.
Enough == IF limit["account"] > 0 THEN arrived <= 4 ELSE given["ip"][other][MaxNow] <= 1

Interchangeable == Permutations({r1, r2})
=============================================================================
