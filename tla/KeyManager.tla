----------------------------- MODULE KeyManager -----------------------------
(***************************************************************************)
(* client_proxy/key_manager.go: derivation, storage and serving of the     *)
(* keys, over several starts of the client on the same database.           *)
(*                                                                         *)
(* A key is its derivation: the root secret and the path down the hash     *)
(* tree. The root secret is scrypt of the passphrase and a fresh salt, so  *)
(* it is the pair of the two; salts are numbered in the order of use.      *)
(***************************************************************************)
EXTENDS Naturals, Sequences, FiniteSets

CONSTANTS
    Passphrases,  \* what the user may enter
    Fetchers,     \* goroutines that call the Fetch operations
    MaxStarts,    \* bound on the starts of the client
    MaxPutErrs,   \* bound on failing Puts
    MayStop       \* whether Stop may be called

\* The constants of the source, in the order of their iota.
WTrapKey == 0
XTagKey == 1
XIndKey == 2
DHBlindKey == 3
STagKey == 4
DocEncKey == 5
NumKeys == 6
KeyTypes == 0 .. NumKeys - 1

VARIABLES
    db,      \* the bucket cryptoKeys: "none", or its master and child entries
    salts,   \* number of salts drawn
    proc,    \* the client: "down", "up", or "fatal" when NewKeyManager failed
    keyMap,  \* the keys in memory, a function on the key types loaded
    hPc,     \* requestHandler: "recv", "reply", "stuck" or "done"
    hReq,    \* the fetcher it is about to reply to (none or one)
    fPc,     \* a fetcher: "idle", "wait" or "got"
    fKey,    \* the operation it called
    stopPc,  \* Stop: "none", "waiting" or "returned"
    starts,  \* number of starts
    putErrs, \* number of Puts that failed
    used     \* history: the key maps of all the clients that came up

vars == <<db, salts, proc, keyMap, hPc, hReq, fPc, fKey, stopPc, starts,
          putErrs, used>>
fetchVars == <<fPc, fKey>>

quit == stopPc # "none"

\* db when the bucket does not exist.
NoBucket == [bucket |-> FALSE, master |-> <<>>, keys |-> <<>>]
----------------------------------------------------------------------------
(***************************************************************************)
(* inverseHashTreeKeyDerivation                                            *)
(***************************************************************************)

\* deriveChildren: the second half of the digest first, then the first half.
DeriveChildren(parent) == <<Append(parent, "hi"), Append(parent, "lo")>>

\* MUTANT of DeriveNext: the parent is not taken from the queue.
DeriveNextSameParent(s) ==
    LET derived == DeriveChildren(Head(s.queue))
    IN [queue |-> s.queue \o derived, kids |-> s.kids \o derived]

\* One round of the loop: the children of the first parent in the queue are
\* parents to come, and keys.
DeriveNext(s) ==
    LET derived == DeriveChildren(Head(s.queue))
    IN [queue |-> Tail(s.queue) \o derived, kids |-> s.kids \o derived]

\* It stops when enough children have been derived, two for each parent.
Rounds == (NumKeys + 1) \div 2

Derivation(root) ==
    LET loop[n \in 0 .. Rounds] ==
          IF n = 0 THEN [queue |-> <<root>>, kids |-> <<>>] ELSE DeriveNext(loop[n - 1])
    IN loop

ChildKeys(root) == Derivation(root)[Rounds].kids

\* updateKeyMap
KeyMapOf(root) == [t \in KeyTypes |-> ChildKeys(root)[t + 1]]
----------------------------------------------------------------------------
Init ==
    /\ db = NoBucket /\ salts = 0 /\ proc = "down" /\ keyMap = <<>>
    /\ hPc = "done" /\ hReq = {}
    /\ fPc = [f \in Fetchers |-> "idle"] /\ fKey = [f \in Fetchers |-> WTrapKey]
    /\ stopPc = "none" /\ starts = 0 /\ putErrs = 0 /\ used = {}

\* NewKeyManager succeeds and Start runs requestHandler.
ComeUp(map) ==
    /\ proc' = "up" /\ keyMap' = map /\ hPc' = "recv"
    /\ used' = used \cup {map}

\* The bucket is absent: performInitialSetup. A failing Put of the master key
\* parameters ends the transaction function without an error, which commits
\* the empty bucket; a failing Put of a child key rolls it back and fails.
FirstStart(pass) ==
    LET root == <<pass, salts>>
    IN /\ proc = "down" /\ starts < MaxStarts /\ ~db.bucket
       /\ starts' = starts + 1
       /\ salts' = salts + 1
       /\ \/ /\ db' = [bucket |-> TRUE, master |-> root, keys |-> KeyMapOf(root)]
             /\ ComeUp(KeyMapOf(root))
             /\ UNCHANGED putErrs
          \/ /\ putErrs < MaxPutErrs /\ putErrs' = putErrs + 1
             /\ db' = [NoBucket EXCEPT !.bucket = TRUE]
             /\ ComeUp(KeyMapOf(root))
          \/ /\ putErrs < MaxPutErrs /\ putErrs' = putErrs + 1
             /\ proc' = "fatal"
             /\ UNCHANGED <<db, keyMap, hPc, used>>
       /\ UNCHANGED <<hReq, fetchVars, stopPc>>

\* loadDBKeys: the entries are decrypted in the order of their types, and the
\* first one that does not decrypt ends the loop without an error.
LoadDBKeys(entries) ==
    [t \in {u \in KeyTypes : 0 .. u \subseteq DOMAIN entries} |-> entries[t]]

\* MUTANT of RegularStart: the child keys are derived again from whatever
\* passphrase was entered.
RegularStartRederives(pass) ==
    /\ proc = "down" /\ starts < MaxStarts /\ db.bucket
    /\ starts' = starts + 1
    /\ IF db.master # <<>>
       THEN ComeUp(KeyMapOf(<<pass, db.master[2]>>))
       ELSE proc' = "fatal" /\ UNCHANGED <<keyMap, hPc, used>>
    /\ UNCHANGED <<db, salts, hReq, fetchVars, stopPc, putErrs>>

\* performRegularSetup: the parameters must unmarshal and the passphrase must
\* be the right one; loadDBKeys then decrypts the child keys.
RegularStart(pass) ==
    /\ proc = "down" /\ starts < MaxStarts /\ db.bucket
    /\ starts' = starts + 1
    /\ IF db.master # <<>> /\ db.master[1] = pass
       THEN ComeUp(LoadDBKeys(db.keys))
       ELSE proc' = "fatal" /\ UNCHANGED <<keyMap, hPc, used>>
    /\ UNCHANGED <<db, salts, hReq, fetchVars, stopPc, putErrs>>

\* The client dies, or has ended, and can be started again.
Exit ==
    /\ proc # "down" /\ starts < MaxStarts
    /\ proc' = "down" /\ keyMap' = <<>> /\ hPc' = "done" /\ hReq' = {}
    /\ fPc' = [f \in Fetchers |-> "idle"]
    /\ stopPc' = "none"
    /\ UNCHANGED <<db, salts, fKey, starts, putErrs, used>>
----------------------------------------------------------------------------
(***************************************************************************)
(* The Fetch operations and requestHandler                                 *)
(***************************************************************************)

\* MUTANT of Requested: FetchDocEncKey asks for PermuteTweak, which has no key.
RequestedTweak(op) == IF op = DocEncKey THEN NumKeys ELSE op

\* The key type each operation asks for. FetchDocEncKey asks for WTrapKey.
Requested(op) == IF op = DocEncKey THEN WTrapKey ELSE op

\* A Fetch operation sends its request, which requestHandler receives. For a
\* missing key it sends on the nil errChan and blocks for ever.
Fetch(f, op) ==
    /\ proc = "up" /\ fPc[f] # "wait" /\ hPc = "recv"
    /\ fKey' = [fKey EXCEPT ![f] = op]
    /\ fPc' = [fPc EXCEPT ![f] = "wait"]
    /\ hReq' = {f}
    /\ hPc' = IF Requested(op) \in DOMAIN keyMap THEN "reply" ELSE "stuck"
    /\ UNCHANGED <<db, salts, proc, keyMap, stopPc, starts, putErrs, used>>

Reply(f) ==
    /\ proc = "up" /\ hPc = "reply" /\ f \in hReq
    /\ fPc' = [fPc EXCEPT ![f] = "got"]
    /\ hPc' = "recv"
    /\ hReq' = {}
    /\ UNCHANGED <<db, salts, proc, keyMap, fKey, stopPc, starts, putErrs, used>>

HandlerQuit ==
    /\ proc = "up" /\ hPc = "recv" /\ quit
    /\ hPc' = "done"
    /\ UNCHANGED <<db, salts, proc, keyMap, hReq, fetchVars, stopPc, starts,
                   putErrs, used>>

Stop ==
    /\ proc = "up" /\ MayStop /\ stopPc = "none"
    /\ stopPc' = "waiting"
    /\ UNCHANGED <<db, salts, proc, keyMap, hPc, hReq, fetchVars, starts,
                   putErrs, used>>

StopReturn ==
    /\ proc = "up" /\ stopPc = "waiting" /\ hPc = "done"
    /\ stopPc' = "returned"
    /\ UNCHANGED <<db, salts, proc, keyMap, hPc, hReq, fetchVars, starts,
                   putErrs, used>>
----------------------------------------------------------------------------
Handler == (\E f \in Fetchers : Reply(f)) \/ HandlerQuit

Next ==
    \/ \E pass \in Passphrases : FirstStart(pass) \/ RegularStart(pass)
    \/ \E f \in Fetchers, op \in KeyTypes : Fetch(f, op)
    \/ Exit \/ Handler \/ Stop \/ StopReturn

Spec == Init /\ [][Next]_vars

\* requestHandler and Stop run when they can. When both a request and quit are
\* ready, select picks one at random, so that it cannot pass quit by for ever.
FairSpec == Spec /\ WF_vars(Handler) /\ SF_vars(HandlerQuit) /\ WF_vars(StopReturn)
----------------------------------------------------------------------------
(***************************************************************************)
(* Properties                                                              *)
(***************************************************************************)

\* All clients that come up on a database use the same keys: what one start
\* encrypted the next can decrypt, whatever passphrases were tried, wherever
\* it died and whichever Put failed.
SameKeysAlways == \A m, n \in used : m = n

\* Every key type has a key, and no two types share one, so requestHandler
\* never blocks on a request it cannot answer.
KeysCompleteAndDistinct ==
    proc = "up" =>
        /\ DOMAIN keyMap = KeyTypes
        /\ \A s, t \in KeyTypes : keyMap[s] = keyMap[t] => s = t
        /\ hPc # "stuck"

\* A fetcher that was received gets an answer, unless the client exits: Stop
\* cannot make requestHandler leave between a request and its reply.
FetchAnswered == \A f \in Fetchers : fPc[f] = "wait" ~> fPc[f] # "wait"

\* Stop returns, however many requests keep coming in.
StopReturns == stopPc = "waiting" ~> stopPc # "waiting"
=============================================================================
