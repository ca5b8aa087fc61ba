--------------------------- MODULE MCBloomMaster ---------------------------
(***************************************************************************)
(* Small instances of BloomMaster: two frequency buckets, three xTags in   *)
(* two documents, two words.                                               *)
(***************************************************************************)
EXTENDS BloomMaster, TLC

CONSTANTS lo, hi, x1, x2, x3, u, v

TwoDocs == <<{x1, x2}, {x3}>>

\* One document with one word.
OneDoc == <<{x1}>>

\* Bucket lo gets one word at a time, bucket hi has none.
Sizes == (lo :> 2) @@ (hi :> 0)
WordsInBuckets == << [bucket |-> lo, items |-> {u}],
                     [bucket |-> lo, items |-> {v}],
                     [bucket |-> hi, items |-> {}] >>

WorkerSymmetry == Permutations(Workers)
=============================================================================
