--------------------------- MODULE MCSearchScreen ---------------------------
\* Instances of SearchScreen for TLC.
EXTENDS SearchScreen

MCTerms == {"ap", "apple", "apples"}

\* A longer term finds fewer stocks, and the longest none.
MCHits == [term \in MCTerms |->
    CASE term = "ap" -> 2 [] term = "apple" -> 1 [] OTHER -> 0]
=============================================================================
