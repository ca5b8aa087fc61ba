----------------------------- MODULE MCIndexer -----------------------------
(***************************************************************************)
(* Small corpora for model-checking Indexer: none, one or two files, with  *)
(* and without words, and three files, more than the streams can hold      *)
(* before the index generator needs the X-set filter. The words of some    *)
(* are in no frequency bucket.                                             *)
(***************************************************************************)
EXTENDS Indexer

SmallCorpora ==
    [files : {<<2>>, <<1, 0>>, <<1, 1>>, <<1, 2, 1>>}, bucketed : {TRUE}]
    \cup [files : {<<>>, <<0>>, <<1>>, <<1, 1>>}, bucketed : {FALSE}]
=============================================================================
