--------------------------- MODULE MCKeyDataTable ---------------------------
\* Instances of KeyDataTable for TLC.
EXTENDS KeyDataTable

\* A quote may miss any of its values.
MCQuotes ==
    {SelectSeq([r \in 1..Labels |-> r], LAMBDA r : r \in present) : present \in SUBSET (1..Labels)}
=============================================================================
