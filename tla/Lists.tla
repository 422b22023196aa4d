-------------------------------- MODULE Lists --------------------------------
(* What lists contain and what is taken of them.                           *)
EXTENDS Integers, Sequences, FiniteSets

Distinct(seq) == {seq[i] : i \in DOMAIN seq}

\* The entries of a sequence at some of its positions, in their order.
Taken(seq, at) ==
    [k \in 1..Cardinality(at) |->
        seq[CHOOSE i \in at : Cardinality({j \in at : j <= i}) = k]]

\* The entries of a family of lists, each at its place in it.
Entries(rows) == [p \in UNION {{<<k, i>> : i \in DOMAIN rows[k]} : k \in DOMAIN rows} |-> rows[p[1]][p[2]]]

\* The sum of the values of a function.
SumOf(counts) == Cardinality(UNION {{<<k, n>> : n \in 1..counts[k]} : k \in DOMAIN counts})

IsTable(rows) == rows \in Seq({rows[i] : i \in DOMAIN rows})
=============================================================================
