--------------------- MODULE MCTermFrequencyCalculator ---------------------
(***************************************************************************)
(* A corpus of three documents and three words in which a word reaches     *)
(* the second bucket only when the counts of two documents are added.      *)
(***************************************************************************)
EXTENDS TermFrequencyCalculator, TLC

CONSTANTS a, b, c, r1, r2, r3

TwoBuckets == <<3, 6>>

Corpus == (1 :> ((a :> 2) @@ (b :> 1) @@ (c :> 0)))
       @@ (2 :> ((a :> 2) @@ (b :> 0) @@ (c :> 1)))
       @@ (3 :> ((a :> 0) @@ (b :> 1) @@ (c :> 0)))

\* No word hashes to r3, as happens to most of the 26 reducers.
HashTable == (a :> r1) @@ (b :> r2) @@ (c :> r1)
=============================================================================
