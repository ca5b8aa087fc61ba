-------------------------- MODULE KeyManagerProofs --------------------------
(***************************************************************************)
(* Proofs about KeyManager: every client that comes up on a database holds *)
(* the same complete set of distinct keys.                                 *)
(***************************************************************************)
EXTENDS KeyManager, TLAPS

\* What a derivation is made of: the root secret's parts and the path's steps.
Parts == Passphrases \cup Nat \cup {"hi", "lo"}
Secrets == Seq(Parts)
----------------------------------------------------------------------------
(***************************************************************************)
(* The derivation                                                          *)
(***************************************************************************)

LEMMA RoundsValue == Rounds = 3
BY DEF Rounds, NumKeys

\* The recursive function of Derivation exists and satisfies its equation: its
\* domain is finite, so that it can be written out.
LEMMA DerivationUnfolds ==
    ASSUME NEW root
    PROVE  /\ Derivation(root)[0] = [queue |-> <<root>>, kids |-> <<>>]
           /\ Derivation(root)[1] = DeriveNext(Derivation(root)[0])
           /\ Derivation(root)[2] = DeriveNext(Derivation(root)[1])
           /\ Derivation(root)[3] = DeriveNext(Derivation(root)[2])
<1> DEFINE first == [queue |-> <<root>>, kids |-> <<>>]
           eqn(g) == g = [n \in 0 .. Rounds |->
                            IF n = 0 THEN [queue |-> <<root>>, kids |-> <<>>]
                            ELSE DeriveNext(g[n - 1])]
           a == DeriveNext(first)
           b == DeriveNext(a)
           c == DeriveNext(b)
           witness == [n \in 0 .. Rounds |->
                         IF n = 0 THEN first
                         ELSE IF n = 1 THEN a ELSE IF n = 2 THEN b ELSE c]
<1>1. eqn(witness)
  <2> HIDE DEF a, b, c
  <2>1. /\ witness[0] = first /\ witness[1] = a
        /\ witness[2] = b /\ witness[3] = c
    BY RoundsValue
  <2>2. \A n \in 0 .. Rounds :
            witness[n] = IF n = 0 THEN first ELSE DeriveNext(witness[n - 1])
    <3> HIDE DEF witness
    <3> SUFFICES ASSUME NEW n \in 0 .. Rounds
                 PROVE  witness[n] = IF n = 0 THEN first ELSE DeriveNext(witness[n - 1])
      OBVIOUS
    <3>1. n = 0 \/ n = 1 \/ n = 2 \/ n = 3
      BY RoundsValue
    <3> HIDE DEF first
    <3> QED
      BY <2>1, <3>1 DEF a, b, c
  <2> QED
    BY <2>2
<1>2. Derivation(root) = CHOOSE g : eqn(g)
  BY DEF Derivation
<1>3. eqn(Derivation(root))
  <2> HIDE DEF eqn
  <2> QED
    BY <1>1, <1>2
<1> QED
  BY <1>3, RoundsValue

\* A key and the step taken from it are determined by the child.
LEMMA AppendInjective ==
    ASSUME NEW S, NEW k \in Seq(S), NEW l \in Seq(S), NEW x \in S, NEW y \in S,
           Append(k, x) = Append(l, y)
    PROVE  k = l /\ x = y
<1>1. Len(Append(k, x)) = Len(k) + 1 /\ Len(Append(l, y)) = Len(l) + 1
  OBVIOUS
<1>2. Len(k) = Len(l)
  BY <1>1
<1>3. x = y
  BY <1>1, <1>2
<1>4. \A i \in 1 .. Len(k) : k[i] = l[i]
  BY <1>2
<1> QED
  BY <1>2, <1>3, <1>4

\* One round, written out.
LEMMA DeriveNextIs ==
    ASSUME NEW queue, NEW kids
    PROVE  DeriveNext([queue |-> queue, kids |-> kids]) =
             [queue |-> Tail(queue) \o <<Append(Head(queue), "hi"),
                                         Append(Head(queue), "lo")>>,
              kids |-> kids \o <<Append(Head(queue), "hi"),
                                 Append(Head(queue), "lo")>>]
BY DEF DeriveNext, DeriveChildren

\* Sequences of one length with the same elements are equal.
LEMMA SameElements ==
    ASSUME NEW S, NEW s \in Seq(S), NEW t \in Seq(S), Len(s) = Len(t),
           \A i \in 1 .. Len(s) : s[i] = t[i]
    PROVE  s = t
OBVIOUS

\* What the rounds append, written out.
LEMMA Join1 ==
    ASSUME NEW S, NEW a \in S, NEW x \in S, NEW y \in S
    PROVE  <<a>> \o <<x, y>> = <<a, x, y>>
<1>1. <<a>> \in Seq(S) /\ <<x, y>> \in Seq(S) /\ <<a, x, y>> \in Seq(S)
  OBVIOUS
<1> DEFINE s == <<a>> \o <<x, y>>
<1>2. s \in Seq(S) /\ Len(s) = 3
  BY <1>1
<1>3. s[1] = a /\ s[2] = x /\ s[3] = y
  BY <1>1
<1> HIDE DEF s
<1>4. \A i \in 1 .. 3 : s[i] = <<a, x, y>>[i]
  BY <1>3
<1> QED
  BY <1>1, <1>2, <1>4, SameElements DEF s

LEMMA Join2 ==
    ASSUME NEW S, NEW a \in S, NEW b \in S, NEW x \in S, NEW y \in S
    PROVE  <<a, b>> \o <<x, y>> = <<a, b, x, y>>
<1>1. <<a, b>> \in Seq(S) /\ <<x, y>> \in Seq(S) /\ <<a, b, x, y>> \in Seq(S)
  OBVIOUS
<1> DEFINE s == <<a, b>> \o <<x, y>>
<1>2. s \in Seq(S) /\ Len(s) = 4
  BY <1>1
<1>3. s[1] = a /\ s[2] = b /\ s[3] = x /\ s[4] = y
  BY <1>1
<1> HIDE DEF s
<1>4. \A i \in 1 .. 4 : s[i] = <<a, b, x, y>>[i]
  BY <1>3
<1> QED
  BY <1>1, <1>2, <1>4, SameElements DEF s

LEMMA Join4 ==
    ASSUME NEW S, NEW a \in S, NEW b \in S, NEW c \in S, NEW d \in S,
           NEW x \in S, NEW y \in S
    PROVE  <<a, b, c, d>> \o <<x, y>> = <<a, b, c, d, x, y>>
<1>1. /\ <<a, b, c, d>> \in Seq(S) /\ <<x, y>> \in Seq(S)
      /\ <<a, b, c, d, x, y>> \in Seq(S)
  OBVIOUS
<1> DEFINE s == <<a, b, c, d>> \o <<x, y>>
<1>2. s \in Seq(S) /\ Len(s) = 6
  BY <1>1
<1>3. s[1] = a /\ s[2] = b /\ s[3] = c /\ s[4] = d /\ s[5] = x /\ s[6] = y
  BY <1>1
<1> HIDE DEF s
<1>4. \A i \in 1 .. 6 : s[i] = <<a, b, c, d, x, y>>[i]
  BY <1>3
<1> QED
  BY <1>1, <1>2, <1>4, SameElements DEF s

\* The keys in the order they are derived: breadth first.
LEMMA ChildKeysAre ==
    ASSUME NEW root \in Secrets
    PROVE  LET h == Append(root, "hi")
               l == Append(root, "lo")
           IN ChildKeys(root) = <<h, l, Append(h, "hi"), Append(h, "lo"),
                                  Append(l, "hi"), Append(l, "lo")>>
<1> DEFINE h == Append(root, "hi")
           l == Append(root, "lo")
           hh == Append(h, "hi")
           hl == Append(h, "lo")
           lh == Append(l, "hi")
           ll == Append(l, "lo")
<1>1. /\ h \in Secrets /\ l \in Secrets /\ hh \in Secrets
      /\ hl \in Secrets /\ lh \in Secrets /\ ll \in Secrets
  BY DEF Secrets, Parts
<1> HIDE DEF h, l, hh, hl, lh, ll
<1>2. Derivation(root)[1] = [queue |-> <<h, l>>, kids |-> <<h, l>>]
  <2>1. Tail(<<root>>) \o <<h, l>> = <<h, l>> /\ Head(<<root>>) = root
    BY <1>1
  <2>2. <<>> \o <<h, l>> = <<h, l>>
    BY <1>1
  <2>3. Derivation(root)[1] = DeriveNext([queue |-> <<root>>, kids |-> <<>>])
    BY DerivationUnfolds
  <2>4. DeriveNext([queue |-> <<root>>, kids |-> <<>>]) =
            [queue |-> Tail(<<root>>) \o <<h, l>>, kids |-> <<>> \o <<h, l>>]
    BY <2>1, DeriveNextIs DEF h, l
  <2> QED
    BY <2>1, <2>2, <2>3, <2>4
<1>3. Derivation(root)[2] = [queue |-> <<l, hh, hl>>, kids |-> <<h, l, hh, hl>>]
  <2>1. Tail(<<h, l>>) = <<l>> /\ Head(<<h, l>>) = h
    BY <1>1
  <2>2. <<l>> \o <<hh, hl>> = <<l, hh, hl>>
    BY <1>1, Join1
  <2>3. <<h, l>> \o <<hh, hl>> = <<h, l, hh, hl>>
    BY <1>1, Join2
  <2>4. DeriveNext([queue |-> <<h, l>>, kids |-> <<h, l>>]) =
            [queue |-> Tail(<<h, l>>) \o <<hh, hl>>, kids |-> <<h, l>> \o <<hh, hl>>]
    BY <2>1, DeriveNextIs DEF hh, hl
  <2> QED
    BY <1>2, <2>1, <2>2, <2>3, <2>4, DerivationUnfolds
<1>4. Derivation(root)[3].kids = <<h, l, hh, hl, lh, ll>>
  <2>1. Head(<<l, hh, hl>>) = l
    BY <1>1
  <2>2. <<h, l, hh, hl>> \o <<lh, ll>> = <<h, l, hh, hl, lh, ll>>
    BY <1>1, Join4
  <2>3. DeriveNext([queue |-> <<l, hh, hl>>, kids |-> <<h, l, hh, hl>>]) =
            [queue |-> Tail(<<l, hh, hl>>) \o <<lh, ll>>,
             kids |-> <<h, l, hh, hl>> \o <<lh, ll>>]
    BY <2>1, DeriveNextIs DEF lh, ll
  <2>4. Derivation(root)[3] = DeriveNext(Derivation(root)[2])
    BY DerivationUnfolds
  <2> QED
    BY ONLY <1>3, <2>2, <2>3, <2>4
<1> QED
  BY <1>4, RoundsValue DEF ChildKeys, h, l, hh, hl, lh, ll

\* updateKeyMap gives every key type a key of its own.
LEMMA KeyMapComplete ==
    ASSUME NEW root \in Secrets
    PROVE  /\ DOMAIN KeyMapOf(root) = KeyTypes
           /\ \A s, t \in KeyTypes : KeyMapOf(root)[s] = KeyMapOf(root)[t] => s = t
<1> DEFINE h == Append(root, "hi")
           l == Append(root, "lo")
           hh == Append(h, "hi")
           hl == Append(h, "lo")
           lh == Append(l, "hi")
           ll == Append(l, "lo")
           keys == KeyMapOf(root)
<1>1. "hi" \in Parts /\ "lo" \in Parts /\ root \in Seq(Parts)
  BY DEF Parts, Secrets
<1>2. h \in Seq(Parts) /\ l \in Seq(Parts) /\ Len(h) = Len(root) + 1 /\ Len(l) = Len(root) + 1
  BY <1>1
<1>3. Len(hh) = Len(root) + 2 /\ Len(hl) = Len(root) + 2 /\ Len(lh) = Len(root) + 2 /\ Len(ll) = Len(root) + 2
  BY <1>1, <1>2
<1>4. h # l
  BY <1>1, AppendInjective
<1>5. /\ hh # hl /\ hh # lh /\ hh # ll /\ hl # lh /\ hl # ll /\ lh # ll
  <2> HIDE DEF h, l
  <2> QED
    BY <1>1, <1>2, <1>4, AppendInjective
<1>6. h # hh /\ h # hl /\ h # lh /\ h # ll /\ l # hh /\ l # hl /\ l # lh /\ l # ll
  <2> HIDE DEF h, l, hh, hl, lh, ll
  <2> QED
    BY <1>1, <1>2, <1>3
<1>7. ChildKeys(root) = <<h, l, hh, hl, lh, ll>>
  BY ChildKeysAre
<1> HIDE DEF h, l, hh, hl, lh, ll
<1>8. /\ keys[0] = h /\ keys[1] = l /\ keys[2] = hh
      /\ keys[3] = hl /\ keys[4] = lh /\ keys[5] = ll
  BY <1>7 DEF KeyMapOf, KeyTypes, NumKeys
<1>9. DOMAIN keys = 0 .. 5 /\ KeyTypes = 0 .. 5
  BY DEF KeyMapOf, KeyTypes, NumKeys
<1> HIDE DEF keys
<1>10. \A t \in 0 .. 5 : t = 0 \/ t = 1 \/ t = 2 \/ t = 3 \/ t = 4 \/ t = 5
  OBVIOUS
<1>11. \A s, t \in 0 .. 5 : keys[s] = keys[t] => s = t
  BY <1>4, <1>5, <1>6, <1>8, <1>10
<1> QED
  BY <1>9, <1>11 DEF keys

----------------------------------------------------------------------------
(***************************************************************************)
(* The invariant                                                           *)
(***************************************************************************)

\* The root secrets there can be: a passphrase and the number of its salt.
Roots == {<<p, n>> : p \in Passphrases, n \in Nat}

\* What the proof needs to know of the types.
TypeOK ==
    /\ db \in [bucket : BOOLEAN, master : Roots \cup {<<>>},
               keys : {KeyMapOf(r) : r \in Roots} \cup {<<>>}]
    /\ salts \in Nat
    /\ proc \in {"down", "up", "fatal"}
    /\ fKey \in [Fetchers -> KeyTypes]

\* All the clients that came up used the keys of one root secret. The bucket
\* holds that root and its keys, or it is empty and can never be read again.
StoredInv ==
    IF db.bucket
    THEN \E r \in Roots :
            /\ used \subseteq {KeyMapOf(r)}
            /\ db.master = <<>> \/ (db.master = r /\ db.keys = KeyMapOf(r))
    ELSE used = {}

\* A client that is up holds one of those key maps, and its handler is not
\* blocked.
UpInv == proc = "up" => keyMap \in used /\ hPc # "stuck"

IInv == TypeOK /\ StoredInv /\ UpInv

\* A root secret is a sequence to derive from.
LEMMA RootsAreSecrets == Roots \subseteq Secrets
<1> SUFFICES ASSUME NEW p \in Passphrases, NEW n \in Nat
             PROVE  <<p, n>> \in Secrets
  BY DEF Roots
<1>1. p \in Parts /\ n \in Parts
  BY DEF Parts
<1> QED
  BY <1>1 DEF Secrets

\* Every key the key map of a root holds is loaded again.
LEMMA LoadsAll ==
    ASSUME NEW r \in Roots
    PROVE  LoadDBKeys(KeyMapOf(r)) = KeyMapOf(r)
<1>1. DOMAIN KeyMapOf(r) = KeyTypes
  BY KeyMapComplete, RootsAreSecrets
<1>2. \A u \in KeyTypes : 0 .. u \subseteq KeyTypes
  BY DEF KeyTypes, NumKeys
<1>3. {u \in KeyTypes : 0 .. u \subseteq DOMAIN KeyMapOf(r)} = KeyTypes
  BY <1>1, <1>2
<1> DEFINE keys == KeyMapOf(r)
<1>4. keys = [t \in KeyTypes |-> keys[t]]
  BY <1>1 DEF KeyMapOf
<1> QED
  BY <1>3, <1>4 DEF LoadDBKeys

\* Every Fetch operation asks for a key there is.
LEMMA RequestedExists == \A op \in KeyTypes : Requested(op) \in KeyTypes
BY DEF Requested, KeyTypes, NumKeys, WTrapKey, DocEncKey
----------------------------------------------------------------------------
(***************************************************************************)
(* The invariant holds                                                     *)
(***************************************************************************)

LEMMA InitIInv == Init => IInv
<1> SUFFICES ASSUME Init PROVE IInv
  OBVIOUS
<1>1. fKey \in [Fetchers -> KeyTypes]
  BY DEF Init, KeyTypes, NumKeys, WTrapKey
<1>2. db \in [bucket : BOOLEAN, master : Roots \cup {<<>>},
             keys : {KeyMapOf(r) : r \in Roots} \cup {<<>>}]
  BY DEF Init, NoBucket
<1> QED
  BY <1>1, <1>2 DEF Init, NoBucket, IInv, TypeOK, StoredInv, UpInv

\* The first start: the bucket is absent, so nobody has used a key before.
LEMMA FirstStartIInv ==
    ASSUME IInv, NEW pass \in Passphrases, FirstStart(pass)
    PROVE  IInv'
<1> DEFINE root == <<pass, salts>>
           map == KeyMapOf(root)
<1>1. root \in Roots
  BY DEF IInv, TypeOK, Roots
<1> HIDE DEF root
<1>2. used = {} /\ ~db.bucket /\ salts' = salts + 1 /\ fKey' = fKey
  BY DEF FirstStart, fetchVars, IInv, StoredInv
<1>3. CASE db' = [bucket |-> TRUE, master |-> root, keys |-> map] /\ ComeUp(map)
  <2>1. db'.bucket /\ db'.master = root /\ db'.keys = map
    BY <1>3
  <2>2. used' = {map} /\ proc' = "up" /\ keyMap' = map /\ hPc' = "recv"
    BY <1>2, <1>3 DEF ComeUp
  <2>3. db' \in [bucket : BOOLEAN, master : Roots \cup {<<>>},
                keys : {KeyMapOf(r) : r \in Roots} \cup {<<>>}]
    BY <1>1, <1>3
  <2>4. StoredInv'
    BY <1>1, <2>1, <2>2 DEF StoredInv
  <2> QED
    BY <1>2, <2>2, <2>3, <2>4 DEF IInv, TypeOK, UpInv
<1>4. CASE db' = [NoBucket EXCEPT !.bucket = TRUE] /\ ComeUp(map)
  <2>1. db' = [bucket |-> TRUE, master |-> <<>>, keys |-> <<>>]
    BY <1>4 DEF NoBucket
  <2>2. used' = {map} /\ proc' = "up" /\ keyMap' = map /\ hPc' = "recv"
    BY <1>2, <1>4 DEF ComeUp
  <2>3. StoredInv'
    BY <1>1, <2>1, <2>2 DEF StoredInv
  <2> QED
    BY <1>2, <2>1, <2>2, <2>3 DEF IInv, TypeOK, UpInv
<1>5. CASE proc' = "fatal" /\ UNCHANGED <<db, keyMap, hPc, used>>
  BY <1>2, <1>5 DEF IInv, TypeOK, StoredInv, UpInv
<1> QED
  BY <1>3, <1>4, <1>5 DEF FirstStart, root

\* A later start: what it loads are the keys of the stored root.
LEMMA RegularStartIInv ==
    ASSUME IInv, NEW pass \in Passphrases, RegularStart(pass)
    PROVE  IInv'
<1>1. db.bucket /\ db' = db /\ salts' = salts /\ fKey' = fKey
  BY DEF RegularStart, fetchVars
<1>2. PICK r \in Roots :
          /\ used \subseteq {KeyMapOf(r)}
          /\ db.master = <<>> \/ (db.master = r /\ db.keys = KeyMapOf(r))
  BY <1>1 DEF IInv, StoredInv
<1>3. CASE db.master # <<>> /\ ComeUp(LoadDBKeys(db.keys))
  <2>1. LoadDBKeys(db.keys) = KeyMapOf(r) /\ db.master = r /\ db.keys = KeyMapOf(r)
    BY <1>2, <1>3, LoadsAll
  <2>2. /\ used' = used \cup {KeyMapOf(r)} /\ proc' = "up"
        /\ keyMap' = KeyMapOf(r) /\ hPc' = "recv"
    BY <1>3, <2>1 DEF ComeUp
  <2>3. StoredInv'
    BY <1>1, <1>2, <2>1, <2>2 DEF StoredInv
  <2> QED
    BY <1>1, <2>2, <2>3 DEF IInv, TypeOK, UpInv
<1>4. CASE proc' = "fatal" /\ UNCHANGED <<keyMap, hPc, used>>
  BY <1>1, <1>4 DEF IInv, TypeOK, StoredInv, UpInv
<1> QED
  BY <1>3, <1>4 DEF RegularStart

\* A request never blocks the handler: the key map is complete.
LEMMA FetchIInv ==
    ASSUME IInv, NEW f \in Fetchers, NEW op \in KeyTypes, Fetch(f, op)
    PROVE  IInv'
<1>1. keyMap \in used /\ UNCHANGED <<db, salts, proc, keyMap, used>>
  BY DEF Fetch, IInv, UpInv
<1>2. PICK r \in Roots : keyMap = KeyMapOf(r)
  BY <1>1 DEF IInv, StoredInv
<1>3. Requested(op) \in DOMAIN keyMap
  BY <1>2, KeyMapComplete, RootsAreSecrets, RequestedExists
<1>4. hPc' = "reply"
  BY <1>3 DEF Fetch
<1>5. fKey' \in [Fetchers -> KeyTypes]
  BY DEF Fetch, IInv, TypeOK
<1> QED
  BY <1>1, <1>4, <1>5 DEF IInv, TypeOK, StoredInv, UpInv

LEMMA NextIInv == IInv /\ [Next]_vars => IInv'
<1> SUFFICES ASSUME IInv, [Next]_vars PROVE IInv'
  OBVIOUS
<1>1. ASSUME NEW pass \in Passphrases, FirstStart(pass) PROVE IInv'
  BY <1>1, FirstStartIInv
<1>2. ASSUME NEW pass \in Passphrases, RegularStart(pass) PROVE IInv'
  BY <1>2, RegularStartIInv
<1>3. ASSUME NEW f \in Fetchers, NEW op \in KeyTypes, Fetch(f, op) PROVE IInv'
  BY <1>3, FetchIInv
<1>4. CASE Exit
  BY <1>4 DEF Exit, IInv, TypeOK, StoredInv, UpInv
<1>5. ASSUME NEW f \in Fetchers, Reply(f) PROVE IInv'
  BY <1>5 DEF Reply, IInv, TypeOK, StoredInv, UpInv
<1>6. CASE HandlerQuit
  BY <1>6 DEF HandlerQuit, fetchVars, IInv, TypeOK, StoredInv, UpInv
<1>7. CASE Stop
  BY <1>7 DEF Stop, fetchVars, IInv, TypeOK, StoredInv, UpInv
<1>8. CASE StopReturn
  BY <1>8 DEF StopReturn, fetchVars, IInv, TypeOK, StoredInv, UpInv
<1>9. CASE UNCHANGED vars
  BY <1>9 DEF vars, IInv, TypeOK, StoredInv, UpInv
<1> QED
  BY <1>1, <1>2, <1>3, <1>4, <1>5, <1>6, <1>7, <1>8, <1>9 DEF Next, Handler
----------------------------------------------------------------------------
(***************************************************************************)
(* The theorems                                                            *)
(***************************************************************************)

\* NewKeyManager: in every reachable state all the clients that came up used
\* the keys of one root, and the database holds that root or an empty bucket.
THEOREM KeysCorrect == Spec => []IInv
BY InitIInv, NextIInv, PTL DEF Spec

\* performInitialSetup and performRegularSetup: whatever passphrases are tried,
\* wherever the client dies and whichever Put fails, all the clients that come
\* up on one database use the same keys.
THEOREM OneKeyMap == Spec => []SameKeysAlways
<1>1. IInv => SameKeysAlways
  BY DEF IInv, StoredInv, SameKeysAlways
<1> QED
  BY <1>1, KeysCorrect, PTL

\* inverseHashTreeKeyDerivation, updateKeyMap and loadDBKeys: a client that is
\* up has a key for every type and shares none between two of them, so its
\* requestHandler never blocks on a missing key.
THEOREM KeyMapsComplete == Spec => []KeysCompleteAndDistinct
<1>1. IInv => KeysCompleteAndDistinct
  <2> SUFFICES ASSUME IInv, proc = "up"
               PROVE  /\ DOMAIN keyMap = KeyTypes
                      /\ \A s, t \in KeyTypes : keyMap[s] = keyMap[t] => s = t
                      /\ hPc # "stuck"
    BY DEF KeysCompleteAndDistinct
  <2>1. keyMap \in used /\ hPc # "stuck"
    BY DEF IInv, UpInv
  <2>2. PICK r \in Roots : keyMap = KeyMapOf(r)
    BY <2>1 DEF IInv, StoredInv
  <2> QED
    BY <2>1, <2>2, KeyMapComplete, RootsAreSecrets
<1> QED
  BY <1>1, KeysCorrect, PTL
=============================================================================
