------------------------ MODULE MCEncryptedSearcher ------------------------
(***************************************************************************)
(* Two clients for model-checking EncryptedSearcher: one sends more        *)
(* fragments than two writers take, the other a single one.                *)
(***************************************************************************)
EXTENDS EncryptedSearcher

CONSTANTS c1, c2, f1, f2, f3, f4

TwoIndexes == (c1 :> <<f1, f2, f3>>) @@ (c2 :> <<f4>>)
=============================================================================
