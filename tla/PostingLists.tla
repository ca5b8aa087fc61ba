---------------------------- MODULE PostingLists ----------------------------
(***************************************************************************)
(* What a search relies on in the index the server receives: for every     *)
(* word a list of numbered postings that only grows, lists no number and   *)
(* no document twice, and is closed once, by an end marker beyond all its  *)
(* postings. A reader that counts up from the first number until it meets  *)
(* the marker therefore sees each document of the word at most once and    *)
(* never overlooks one that comes later. Postings may arrive in any order. *)
(***************************************************************************)
EXTENDS Integers

CONSTANTS
    Words,  \* the words of the corpus
    Docs    \* ids of its documents

VARIABLES
    posts,  \* the postings: document id is number index in the list of word
    ends    \* the end markers: the list of word ends before number index

Posting == [word : Words, index : Nat \ {0}, id : Docs]
Marker  == [word : Words, index : Nat \ {0}]

Init == posts = {} /\ ends = {}

Closed(w) == \E e \in ends : e.word = w

\* A posting with a number and a document that its list, still open, lacks.
Post ==
    /\ \E p \in posts' \ posts :
          /\ p \in Posting
          /\ ~Closed(p.word)
          /\ posts' = posts \cup {p}
          /\ \A q \in posts : q.word = p.word => q.index # p.index /\ q.id # p.id
    /\ UNCHANGED ends

\* The end marker of a list that has none, beyond all its postings.
Close ==
    /\ \E e \in ends' \ ends :
          /\ e \in Marker
          /\ ~Closed(e.word)
          /\ ends' = ends \cup {e}
          /\ \A p \in posts : p.word = e.word => p.index < e.index
    /\ UNCHANGED posts

Next == Post \/ Close

Spec == Init /\ [][Next]_<<posts, ends>>
=============================================================================
