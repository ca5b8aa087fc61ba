-------------------- MODULE MCEncryptedIndexGenerator --------------------
(***************************************************************************)
(* Small corpora for model-checking EncryptedIndexGenerator: two words, of *)
(* which one occurs in several documents.                                  *)
(***************************************************************************)
EXTENDS EncryptedIndexGenerator

CONSTANTS a, b

\* Two documents that share a word.
SharedWord == (1 :> {a, b}) @@ (2 :> {a})

\* Three documents, one of which has no words at all.
WithEmptyDoc == (1 :> {a, b}) @@ (2 :> {a}) @@ (3 :> {})

\* No action tells two workers apart.
WorkerSymmetry == Permutations(Workers)
=============================================================================
