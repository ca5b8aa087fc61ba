---------------------- MODULE EncryptedSearcherProofs ----------------------
(***************************************************************************)
(* Proofs about EncryptedSearcher, for any number of clients, fragments    *)
(* and writers, any capacity of the queues and any number of faults.       *)
(***************************************************************************)
EXTENDS EncryptedSearcher, TLAPS

\* What a queue holds once an element is added, and once one is taken.
LEMMA AppendRange ==
    ASSUME NEW S, NEW s \in Seq(S), NEW x
    PROVE  Range(Append(s, x)) = Range(s) \cup {x}
<1>1. DOMAIN Append(s, x) = DOMAIN s \cup {Len(s) + 1}
  OBVIOUS
<1>2. \A i \in DOMAIN s : Append(s, x)[i] = s[i]
  OBVIOUS
<1>3. Append(s, x)[Len(s) + 1] = x
  OBVIOUS
<1> QED
  BY <1>1, <1>2, <1>3 DEF Range

LEMMA TailRange ==
    ASSUME NEW S, NEW s \in Seq(S), s # <<>>
    PROVE  Range(s) = {Head(s)} \cup Range(Tail(s))
<1>1. Len(s) \in Nat \ {0} /\ DOMAIN s = 1 .. Len(s) /\ Head(s) = s[1]
  OBVIOUS
<1>2. DOMAIN Tail(s) = 1 .. Len(s) - 1
  OBVIOUS
<1>3. \A i \in 1 .. Len(s) - 1 : Tail(s)[i] = s[i + 1]
  OBVIOUS
<1>4. \A i \in 1 .. Len(s) : i = 1 \/ i - 1 \in 1 .. Len(s) - 1
  BY <1>1
<1>5. ASSUME NEW f \in Range(s) PROVE f \in {Head(s)} \cup Range(Tail(s))
  <2>1. PICK i \in 1 .. Len(s) : s[i] = f
    BY <1>1 DEF Range
  <2>2. CASE i = 1
    BY <1>1, <2>1, <2>2
  <2>3. CASE i - 1 \in 1 .. Len(s) - 1
    <3>1. Tail(s)[i - 1] = f
      BY <1>3, <2>1, <2>3
    <3> QED
      BY <1>2, <2>3, <3>1 DEF Range
  <2> QED
    BY <1>4, <2>2, <2>3
<1>6. ASSUME NEW f \in Range(Tail(s)) PROVE f \in Range(s)
  <2>1. PICK i \in 1 .. Len(s) - 1 : Tail(s)[i] = f
    BY <1>2 DEF Range
  <2>2. i + 1 \in 1 .. Len(s)
    BY <1>1
  <2> QED
    BY <1>1, <1>3, <2>1, <2>2 DEF Range
<1>7. Head(s) \in Range(s)
  BY <1>1 DEF Range
<1> QED
  BY <1>5, <1>6, <1>7

\* An open call has a server.
LEMMA OpenCall ==
    ASSUME DownInv, NEW c \in Clients,
           \/ uPc[c] = "put" \/ cPc[c] \in {"close", "set", "search"}
           \/ cPc[c] = "index" /\ uPc[c] = "recv"
    PROVE  server = "up"
BY DEF DownInv

\* The fragment that a handler of UploadTSet queues next.
LEMMA NextFragment ==
    ASSUME TypeOK, CallInv, NEW c \in Clients, uPc[c] = "put"
    PROVE  /\ got[c] + 1 \in 1 .. Len(Frags[c])
           /\ Frags[c][got[c] + 1] \in Fragments
<1>1. got[c] \in Nat /\ Len(Frags[c]) \in Nat /\ got[c] < Len(Frags[c])
  BY FragsAssumption DEF TypeOK, CallInv
<1>2. got[c] + 1 \in 1 .. Len(Frags[c])
  BY <1>1
<1>3. Frags[c][got[c] + 1] \in Range(Frags[c])
  BY <1>2, FragsAssumption
<1> QED
  BY <1>2, <1>3 DEF Fragments

\* A dead server leaves the state a new one starts from.
LEMMA DieType ==
    ASSUME TypeOK, NEW cause \in {"killed", "metadata", "search", "fetch", "stop"},
           Die(cause), faults' \in 0 .. MaxFaults
    PROVE  TypeOK'
<1>1. /\ writeReqs' \in Seq(Fragments) /\ Len(writeReqs') <= WriteCap
      /\ readReqs' \in Seq(Clients) /\ Len(readReqs') <= ReadCap
  BY SearcherBounds DEF Die
<1>2. hand' = NoHand /\ hand' \in [Writers -> SUBSET Fragments]
  BY DEF Die, NoHand
<1>3. cPc' \in [Clients -> {"new", "close", "set", "index", "serve", "search", "dead"}]
  BY DEF Die, TypeOK
<1>4. uPc' \in [Clients -> {"recv", "put", "acked"}] /\ got' \in [Clients -> Nat]
  BY DEF Die, TypeOK
<1>5. /\ server' \in {"up", "killed", "metadata", "search", "fetch", "stop"}
      /\ workers' = FALSE /\ quit' = FALSE /\ metaClosed' = FALSE /\ metaLoaded' = FALSE
      /\ writeReqs' = <<>> /\ readReqs' = <<>>
  BY DEF Die
<1>6. UNCHANGED <<tset, index, lost, xLost, overlap, xPc>>
  BY DEF Die, diskVars
<1> QED
  BY <1>1, <1>2, <1>3, <1>4, <1>5, <1>6 DEF TypeOK, NoHand

\* Every step keeps the types.
LEMMA TypeStep == TypeOK /\ DownInv /\ CallInv /\ [Next]_vars => TypeOK'
<1> SUFFICES ASSUME TypeOK, DownInv, CallInv, [Next]_vars PROVE TypeOK'
  OBVIOUS
<1> USE DEF diskVars, metaVars, writeVars, serverVars, upVars
<1>1. ASSUME NEW c \in Clients, UploadMetaData(c) PROVE TypeOK'
  <2>1. CASE MetaPanics(c)
    BY <2>1, DieType DEF MetaPanics, TypeOK
  <2>2. CASE MetaCheck(c) \/ MetaClose(c) \/ MetaSet(c)
    <3>1. server = "up"
      BY <2>2, OpenCall DEF MetaCheck, MetaClose, MetaSet
    <3> QED
      BY <2>2, <3>1 DEF MetaCheck, MetaClose, MetaSet, MetaUnchanged, TypeOK
  <2> QED
    BY <1>1, <2>1, <2>2 DEF UploadMetaData
<1>2. ASSUME NEW c \in Clients, UploadTSet(c) PROVE TypeOK'
  <2>1. CASE RecvFragment(c) \/ AckTSet(c)
    <3>1. uPc' \in [Clients -> {"recv", "put", "acked"}]
      BY <2>1 DEF RecvFragment, AckTSet, TypeOK
    <3>2. UNCHANGED <<diskVars, metaVars, writeVars, serverVars, cPc, got, xPc, faults>>
      BY <2>1 DEF RecvFragment, AckTSet
    <3> QED
      BY <3>1, <3>2 DEF TypeOK
  <2>2. CASE PutTsetFragment(c)
    <3>1. Frags[c][got[c] + 1] \in Fragments /\ server = "up"
      BY <2>2, NextFragment, OpenCall DEF PutTsetFragment
    <3>2. writeReqs' \in Seq(Fragments) /\ Len(writeReqs') <= WriteCap
      BY <2>2, <3>1, SearcherBounds DEF PutTsetFragment, HasRoom, TypeOK
    <3>3. UNCHANGED <<diskVars, metaVars, hand, serverVars, cPc, xPc, faults>>
      BY <2>2 DEF PutTsetFragment
    <3>4. uPc' \in [Clients -> {"recv", "put", "acked"}] /\ got' \in [Clients -> Nat]
      BY <2>2 DEF PutTsetFragment, TypeOK
    <3> QED
      BY <3>1, <3>2, <3>3, <3>4 DEF TypeOK
  <2> QED
    BY <1>2, <2>1, <2>2 DEF UploadTSet
<1>3. ASSUME NEW c \in Clients, UploadXSetFilter(c) PROVE TypeOK'
  <2>1. CASE PutXSetFilter(c)
    <3>1. faults' \in 0 .. MaxFaults
      BY <2>1, SearcherBounds DEF PutXSetFilter, Fault, TypeOK
    <3>2. xPc' \in [Clients -> {"none", "stored", "acked"}]
      BY <2>1 DEF PutXSetFilter, TypeOK
    <3>3. index' \in BOOLEAN /\ xLost' \in BOOLEAN
      BY <2>1, Zenon DEF PutXSetFilter, TypeOK
    <3> QED
      BY <2>1, <3>1, <3>2, <3>3 DEF PutXSetFilter, TypeOK
  <2>2. CASE AckXSet(c)
    BY <2>2 DEF AckXSet, TypeOK
  <2> QED
    BY <1>3, <2>1, <2>2 DEF UploadXSetFilter
<1>4. ASSUME NEW c \in Clients,
             Indexed(c) \/ CallFails(c) \/ ClientDies(c)
      PROVE  TypeOK'
  <2>1. faults' \in 0 .. MaxFaults
    BY <1>4, SearcherBounds DEF Indexed, CallFails, ClientDies, Fault, TypeOK
  <2>2. cPc' \in [Clients -> {"new", "close", "set", "index", "serve", "search", "dead"}]
    BY <1>4 DEF Indexed, CallFails, ClientDies, TypeOK
  <2>3. UNCHANGED <<diskVars, metaVars, writeVars, serverVars, upVars, xPc>>
    BY <1>4 DEF Indexed, CallFails, ClientDies
  <2> QED
    BY <2>1, <2>2, <2>3 DEF TypeOK
<1>5. ASSUME NEW c \in Clients, Search(c) PROVE TypeOK'
  <2>1. readReqs' \in Seq(Clients) /\ Len(readReqs') <= ReadCap /\ server = "up"
    BY <1>5, SearcherBounds DEF Search, TSetSearch, TypeOK
  <2>2. cPc' \in [Clients -> {"new", "close", "set", "index", "serve", "search", "dead"}]
    BY <1>5 DEF Search, TypeOK
  <2> QED
    BY <1>5, <2>1, <2>2 DEF Search, TypeOK
<1>6. ASSUME NEW c \in Clients, SearcherDies(c) PROVE TypeOK'
  <2>1. faults' \in 0 .. MaxFaults
    BY <1>6, SearcherBounds DEF SearcherDies, Fault, TypeOK
  <2> QED
    BY <1>6, <2>1, DieType DEF SearcherDies
<1>7. ASSUME NEW w \in Writers, WriterTake(w) PROVE TypeOK'
  <2>1. /\ Head(writeReqs) \in Fragments
        /\ writeReqs' \in Seq(Fragments) /\ Len(writeReqs') <= WriteCap
    BY <1>7, SearcherBounds DEF WriterTake, TypeOK
  <2>2. hand' \in [Writers -> SUBSET Fragments]
    BY <1>7, <2>1 DEF WriterTake, TypeOK
  <2> QED
    BY <1>7, <2>1, <2>2 DEF WriterTake, TypeOK
<1>8. ASSUME NEW w \in Writers, WriterWrite(w) PROVE TypeOK'
  <2>1. hand' \in [Writers -> SUBSET Fragments] /\ server = "up"
    BY <1>8 DEF WriterWrite, WriterDone, TypeOK, NoHand
  <2>2. tset' \subseteq Fragments /\ lost' \subseteq Fragments
    BY <1>8 DEF WriterWrite, TypeOK
  <2>3. faults' \in 0 .. MaxFaults
    BY <1>8, SearcherBounds DEF WriterWrite, Fault, TypeOK
  <2> QED
    BY <1>8, <2>1, <2>2, <2>3 DEF WriterWrite, TypeOK
<1>9. CASE ReaderPanics \/ QuitPanics
  BY <1>9, DieType DEF ReaderPanics, QuitPanics, TypeOK
<1>10. CASE Crash
  <2>1. faults' \in 0 .. MaxFaults
    BY <1>10, SearcherBounds DEF Crash, Fault, TypeOK
  <2> QED
    BY <1>10, <2>1, DieType DEF Crash
<1>11. CASE Stop
  BY <1>11, SearcherBounds DEF Stop, Fault, TypeOK
<1>12. CASE Restart
  BY <1>12 DEF Restart, StartsWorkers, TypeOK
<1>13. CASE UNCHANGED vars
  BY <1>13 DEF vars, TypeOK
<1> QED
  BY <1>1, <1>2, <1>3, <1>4, <1>5, <1>6, <1>7, <1>8, <1>9, <1>10, <1>11, <1>12,
     <1>13 DEF Next, tSetWriter

\* What a death leaves of the invariant: no call is open.
LEMMA DieInv ==
    ASSUME TypeOK, CallInv, XSetInv, NEW cause \in {"killed", "search", "fetch", "stop"},
           Die(cause)
    PROVE  SearcherInv'
<1>1. \A c \in Clients : /\ got'[c] = 0
                         /\ uPc'[c] # "put"
                         /\ cPc'[c] \notin {"close", "set", "search"}
                         /\ cPc'[c] = "index" => uPc'[c] = "acked"
  BY DEF Die, Idle, CallInv, TypeOK
<1>2. DownInv' /\ CallInv'
  <2>1. \A c \in Clients : 0 <= Len(Frags[c])
    BY FragsAssumption
  <2> QED
    BY <1>1, <2>1 DEF DownInv, CallInv
<1>3. MetaInv'
  BY <1>1 DEF MetaInv, MetaLoadedOnce, Die
<1>4. XSetInv'
  BY DEF XSetInv, Die, diskVars
<1> QED
  BY <1>2, <1>3, <1>4 DEF SearcherInv

\* Uploads of metadata keep the invariant. The channel is closed twice only if
\* two clients were between the test and the assignment.
LEMMA MetaDataInv ==
    ASSUME TypeOK, SearcherInv, NEW c \in Clients, UploadMetaData(c)
    PROVE  SearcherInv'
<1> USE DEF diskVars, metaVars, writeVars, serverVars, upVars
<1>1. CASE MetaPanics(c)
  <2>1. overlap
    BY <1>1 DEF MetaPanics, SearcherInv, MetaInv
  <2>2. \A d \in Clients : /\ got'[d] = 0
                           /\ uPc'[d] # "put"
                           /\ cPc'[d] \notin {"close", "set", "search"}
                           /\ cPc'[d] = "index" => uPc'[d] = "acked"
    BY <1>1 DEF MetaPanics, Die, Idle, SearcherInv, DownInv, CallInv, TypeOK
  <2>3. DownInv' /\ CallInv'
    <3>1. \A d \in Clients : 0 <= Len(Frags[d])
      BY FragsAssumption
    <3> QED
      BY <2>2, <3>1 DEF DownInv, CallInv
  <2>4. MetaInv' /\ XSetInv'
    BY <1>1, <2>1 DEF MetaPanics, Die, SearcherInv, MetaInv, MetaLoadedOnce, XSetInv
  <2> QED
    BY <2>3, <2>4 DEF SearcherInv
<1>2. CASE MetaCheck(c) \/ MetaClose(c) \/ MetaSet(c)
  <2>1. /\ server' = server /\ server = "up" /\ uPc[c] # "put"
        /\ UNCHANGED <<diskVars, uPc, got, xPc>>
    <3>1. server = "up"
      BY <1>2, OpenCall DEF MetaCheck, MetaClose, MetaSet, SearcherInv
    <3>2. cPc[c] \notin {"index", "dead"}
      BY <1>2 DEF MetaCheck, MetaClose, MetaSet
    <3>3. uPc[c] # "put"
      BY <3>2 DEF SearcherInv, DownInv, CallInv
    <3> QED
      BY <1>2, <3>1, <3>3 DEF MetaCheck, MetaClose, MetaSet, MetaUnchanged
  <2>2. \A d \in Clients \ {c} : cPc'[d] = cPc[d]
    BY <1>2 DEF MetaCheck, MetaClose, MetaSet, TypeOK
  <2>3. DownInv' /\ CallInv' /\ XSetInv'
    BY <2>1, <2>2 DEF SearcherInv, DownInv, CallInv, XSetInv
  <2>4. MetaInv'
    <3>1. CASE MetaCheck(c)
      BY <3>1, <2>1, <2>2
         DEF MetaCheck, MetaKnown, SearcherInv, MetaInv, MetaLoadedOnce, TypeOK
    <3>2. CASE MetaClose(c)
      BY <3>2, <2>1, <2>2 DEF MetaClose, SearcherInv, MetaInv, MetaLoadedOnce, TypeOK
    <3>3. CASE MetaSet(c)
      BY <3>3, <2>1, <2>2 DEF MetaSet, SearcherInv, MetaInv, MetaLoadedOnce, TypeOK
    <3> QED
      BY <1>2, <3>1, <3>2, <3>3
  <2> QED
    BY <2>3, <2>4 DEF SearcherInv
<1> QED
  BY <1>1, <1>2 DEF UploadMetaData

\* Every step keeps the invariant.
LEMMA InvStep == TypeOK /\ SearcherInv /\ [Next]_vars => SearcherInv'
<1> SUFFICES ASSUME TypeOK, SearcherInv, [Next]_vars PROVE SearcherInv'
  OBVIOUS
<1> USE DEF diskVars, metaVars, writeVars, serverVars, upVars
<1>1. ASSUME NEW c \in Clients, UploadMetaData(c) PROVE SearcherInv'
  BY <1>1, MetaDataInv
<1>2. ASSUME NEW c \in Clients, UploadTSet(c) PROVE SearcherInv'
  <2>1. /\ UNCHANGED <<metaVars, server, cPc, index, xLost, xPc>>
        /\ \A d \in Clients \ {c} : uPc'[d] = uPc[d] /\ got'[d] = got[d]
    BY <1>2 DEF UploadTSet, RecvFragment, PutTsetFragment, AckTSet, TypeOK
  <2>2. /\ got'[c] <= Len(Frags[c]) /\ server = "up"
        /\ uPc'[c] = "put" => got'[c] < Len(Frags[c]) /\ cPc[c] \in {"index", "dead"}
    <3>1. got[c] \in Nat /\ Len(Frags[c]) \in Nat
      BY FragsAssumption DEF TypeOK
    <3>2. server = "up"
      BY <1>2, OpenCall
         DEF UploadTSet, RecvFragment, PutTsetFragment, AckTSet, SearcherInv
    <3>3. CASE RecvFragment(c)
      BY <3>1, <3>2, <3>3 DEF RecvFragment, TypeOK, SearcherInv, DownInv, CallInv
    <3>4. CASE PutTsetFragment(c)
      BY <3>1, <3>2, <3>4 DEF PutTsetFragment, TypeOK, SearcherInv, DownInv, CallInv
    <3>5. CASE AckTSet(c)
      BY <3>1, <3>2, <3>5 DEF AckTSet, TypeOK, SearcherInv, DownInv, CallInv
    <3> QED
      BY <1>2, <3>3, <3>4, <3>5 DEF UploadTSet
  <2>3. DownInv' /\ CallInv'
    BY <2>1, <2>2 DEF SearcherInv, DownInv, CallInv
  <2> QED
    BY <2>1, <2>3 DEF SearcherInv, MetaInv, MetaLoadedOnce, XSetInv
<1>3. ASSUME NEW c \in Clients, UploadXSetFilter(c) PROVE SearcherInv'
  <2>1. UNCHANGED <<metaVars, server, cPc, uPc, got>>
    BY <1>3 DEF UploadXSetFilter, PutXSetFilter, AckXSet
  <2>2. XSetInv'
    BY <1>3 DEF UploadXSetFilter, PutXSetFilter, AckXSet, SearcherInv, XSetInv, TypeOK
  <2> QED
    BY <2>1, <2>2 DEF SearcherInv, DownInv, CallInv, MetaInv, MetaLoadedOnce
<1>4. ASSUME NEW c \in Clients,
             Indexed(c) \/ CallFails(c) \/ ClientDies(c) \/ Search(c)
      PROVE  SearcherInv'
  <2>1. /\ UNCHANGED <<diskVars, metaVars, server, uPc, got, xPc>>
        /\ \A d \in Clients \ {c} : cPc'[d] = cPc[d]
        /\ cPc[c] \in {"index", "serve"} /\ cPc'[c] \in {"serve", "search", "dead"}
        /\ cPc'[c] = "search" => server = "up"
        /\ uPc[c] = "put" => cPc'[c] = "dead"
    BY <1>4 DEF Indexed, CallFails, ClientDies, Search, TypeOK, SearcherInv, DownInv, CallInv
  <2>2. DownInv' /\ CallInv' /\ XSetInv'
    BY <2>1 DEF SearcherInv, DownInv, CallInv, XSetInv
  <2>3. MetaInv'
    BY <2>1 DEF SearcherInv, MetaInv, MetaLoadedOnce
  <2> QED
    BY <2>2, <2>3 DEF SearcherInv
<1>5. ASSUME NEW c \in Clients, SearcherDies(c) PROVE SearcherInv'
  BY <1>5, DieInv DEF SearcherDies, SearcherInv
<1>6. ASSUME NEW w \in Writers, tSetWriter(w) PROVE SearcherInv'
  <2>1. UNCHANGED <<metaVars, server, cPc, uPc, got, index, xLost, xPc>>
    BY <1>6 DEF tSetWriter, WriterTake, WriterWrite
  <2> QED
    BY <2>1 DEF SearcherInv, DownInv, CallInv, MetaInv, MetaLoadedOnce, XSetInv
<1>7. CASE ReaderPanics \/ QuitPanics \/ Crash
  BY <1>7, DieInv DEF ReaderPanics, QuitPanics, Crash, SearcherInv
<1>8. CASE Stop \/ Restart \/ UNCHANGED vars
  <2>1. /\ UNCHANGED <<metaVars, cPc, uPc, got, index, xLost, xPc>>
        /\ server' \in {server, "up"}
    BY <1>8 DEF Stop, Restart, vars
  <2> QED
    BY <2>1 DEF SearcherInv, DownInv, CallInv, MetaInv, MetaLoadedOnce, XSetInv
<1> QED
  BY <1>1, <1>2, <1>3, <1>4, <1>5, <1>6, <1>7, <1>8 DEF Next

\* The invariant and the types, of the first state and of every later one.
LEMMA Invariance == Spec => [](TypeOK /\ SearcherInv)
<1>1. Init => TypeOK /\ SearcherInv
  <2> SUFFICES ASSUME Init PROVE TypeOK /\ SearcherInv
    OBVIOUS
  <2>1. TypeOK
    <3>1. writeReqs \in Seq(Fragments) /\ Len(writeReqs) <= WriteCap
      BY SearcherBounds DEF Init
    <3>2. readReqs \in Seq(Clients) /\ Len(readReqs) <= ReadCap
      BY SearcherBounds DEF Init
    <3>3. hand \in [Writers -> SUBSET Fragments] /\ faults \in 0 .. MaxFaults
      BY SearcherBounds DEF Init, NoHand
    <3>4. /\ tset \subseteq Fragments /\ lost \subseteq Fragments
          /\ server = "up" /\ workers = TRUE
          /\ cPc \in [Clients -> {"new", "close", "set", "index", "serve", "search", "dead"}]
          /\ uPc \in [Clients -> {"recv", "put", "acked"}] /\ got \in [Clients -> Nat]
          /\ xPc \in [Clients -> {"none", "stored", "acked"}]
      BY DEF Init, StartsWorkers
    <3> QED
      BY <3>1, <3>2, <3>3, <3>4 DEF Init, TypeOK
  <2>2. \A c \in Clients : 0 <= Len(Frags[c])
    BY FragsAssumption
  <2>3. SearcherInv
    BY <2>2 DEF Init, SearcherInv, DownInv, CallInv, MetaInv, MetaLoadedOnce, XSetInv
  <2> QED
    BY <2>1, <2>3
<1>2. TypeOK /\ SearcherInv /\ [Next]_vars => (TypeOK /\ SearcherInv)'
  BY TypeStep, InvStep DEF SearcherInv
<1> QED
  BY <1>1, <1>2, PTL DEF Spec

\* Every variable keeps its type, and a server that is down holds nothing: no
\* handler or goroutine of a dead server takes a step.
THEOREM TypeCorrect == Spec => []TypeOK
BY Invariance, PTL

\* Open calls, metadata and the stored filter stay consistent over deaths and
\* restarts: the inductive invariant, for any number of clients and faults.
THEOREM SearcherCorrect == Spec => []SearcherInv
BY Invariance, PTL

\* Only overlapping uploads of metadata close metaDataRecived twice.
THEOREM MetaDataOnce == Spec => []MetaLoadedOnce
<1>1. SearcherInv => MetaLoadedOnce
  BY DEF SearcherInv, MetaInv
<1> QED
  BY <1>1, Invariance, PTL

\* An X-set filter that PutXSetFilter stored and the handler acknowledged is
\* on disk ever after.
THEOREM XSetPersists == Spec => []XSetKept
<1>1. SearcherInv => XSetKept
  BY DEF SearcherInv, XSetInv, XSetKept
<1> QED
  BY <1>1, Invariance, PTL

\* The fragments that the server has on disk, queued or in hand, and those
\* whose transaction failed.
Held == tset \cup lost \cup Range(writeReqs) \cup UNION Range(hand)

\* A writer passes on what it holds.
LEMMA WriterHolds ==
    ASSUME TypeOK, NEW w \in Writers, tSetWriter(w) PROVE Held \subseteq Held'
<1> USE DEF diskVars, metaVars, writeVars, serverVars, upVars
<1>1. hand \in [Writers -> SUBSET Fragments] /\ writeReqs \in Seq(Fragments)
  BY DEF TypeOK
<1>2. CASE WriterTake(w)
  <2>1. /\ hand[w] = {} /\ writeReqs # <<>> /\ tset' = tset /\ lost' = lost
        /\ hand' = [hand EXCEPT ![w] = {Head(writeReqs)}]
        /\ writeReqs' = Tail(writeReqs)
    BY <1>2 DEF WriterTake
  <2>2. Range(writeReqs) = {Head(writeReqs)} \cup Range(writeReqs')
    BY <1>1, <2>1, TailRange
  <2>3. hand'[w] = {Head(writeReqs)} /\ \A v \in Writers \ {w} : hand'[v] = hand[v]
    BY <1>1, <2>1
  <2>4. DOMAIN hand = Writers /\ DOMAIN hand' = Writers
    BY <1>1, <2>1
  <2>5. Head(writeReqs) \in UNION Range(hand')
    BY <2>3, <2>4 DEF Range
  <2>6. UNION Range(hand) \subseteq UNION Range(hand')
    BY <2>1, <2>3, <2>4 DEF Range
  <2> QED
    BY <2>1, <2>2, <2>5, <2>6 DEF Held
<1>3. CASE WriterWrite(w)
  <2>1. /\ tset \cup lost \cup hand[w] \subseteq tset' \cup lost' /\ writeReqs' = writeReqs
        /\ hand' = [hand EXCEPT ![w] = {}]
    BY <1>3 DEF WriterWrite, WriterDone
  <2>2. \A v \in Writers \ {w} : hand'[v] = hand[v]
    BY <1>1, <2>1
  <2>3. DOMAIN hand = Writers /\ DOMAIN hand' = Writers
    BY <1>1, <2>1
  <2>4. UNION Range(hand) \subseteq hand[w] \cup UNION Range(hand')
    BY <2>2, <2>3 DEF Range
  <2> QED
    BY <2>1, <2>4 DEF Held
<1> QED
  BY <1>2, <1>3 DEF tSetWriter

\* A handler puts one more fragment under the care of the writers.
LEMMA PutHolds ==
    ASSUME TypeOK, CallInv, AckedKept, NEW c \in Clients, PutTsetFragment(c)
    PROVE  AckedKept'
<1> DEFINE f == Frags[c][got[c] + 1]
<1>1. /\ tset' = tset /\ lost' = lost /\ hand' = hand
      /\ writeReqs' = Append(writeReqs, f)
      /\ got' = [got EXCEPT ![c] = got[c] + 1]
  BY DEF PutTsetFragment, diskVars
<1>2. Range(writeReqs') = Range(writeReqs) \cup {f}
  BY <1>1, AppendRange DEF TypeOK
<1>3. Held' = Held \cup {f}
  BY <1>1, <1>2 DEF Held
<1>4. ASSUME NEW d \in Clients, NEW i \in 1 .. got'[d] PROVE Frags[d][i] \in Held'
  <2>1. got \in [Clients -> Nat]
    BY DEF TypeOK
  <2>2. CASE d = c /\ i = got[c] + 1
    BY <1>3, <2>2
  <2>3. CASE ~(d = c /\ i = got[c] + 1)
    <3>1. i \in 1 .. got[d]
      BY <1>1, <2>1, <2>3
    <3> QED
      BY <1>3, <3>1 DEF AckedKept, Held
  <2> QED
    BY <2>2, <2>3
<1> QED
  BY <1>4 DEF AckedKept, Held

\* Every step keeps what is acknowledged, or ends the server.
LEMMA AckedStep == TypeOK /\ CallInv /\ AckedKept /\ [Next]_vars => AckedKept'
<1> SUFFICES ASSUME TypeOK, CallInv, AckedKept, [Next]_vars PROVE AckedKept'
  OBVIOUS
<1> USE DEF diskVars, metaVars, writeVars, serverVars, upVars
<1>1. ASSUME NEW cause, Die(cause) PROVE AckedKept'
  BY <1>1 DEF Die, AckedKept
<1>2. ASSUME Held \subseteq Held', got' = got PROVE AckedKept'
  BY <1>2 DEF AckedKept, Held
<1>3. ASSUME UNCHANGED <<tset, lost, writeReqs, hand, got>> PROVE AckedKept'
  BY <1>3 DEF AckedKept
<1>4. ASSUME NEW w \in Writers, tSetWriter(w) PROVE AckedKept'
  <2>1. got' = got
    BY <1>4 DEF tSetWriter, WriterTake, WriterWrite
  <2> QED
    BY <1>2, <1>4, <2>1, WriterHolds
<1>5. ASSUME NEW c \in Clients, UploadTSet(c) PROVE AckedKept'
  BY <1>3, <1>5, PutHolds DEF UploadTSet, RecvFragment, AckTSet
<1>6. ASSUME NEW c \in Clients, UploadMetaData(c) PROVE AckedKept'
  <2>1. CASE MetaPanics(c)
    BY <1>1, <2>1 DEF MetaPanics
  <2>2. CASE MetaCheck(c) \/ MetaClose(c) \/ MetaSet(c)
    BY <1>3, <2>2 DEF MetaCheck, MetaClose, MetaSet, MetaUnchanged
  <2> QED
    BY <1>6, <2>1, <2>2 DEF UploadMetaData
<1>7. ASSUME NEW c \in Clients,
             UploadXSetFilter(c) \/ Indexed(c) \/ Search(c) \/ CallFails(c) \/ ClientDies(c)
      PROVE  AckedKept'
  BY <1>3, <1>7 DEF UploadXSetFilter, PutXSetFilter, AckXSet, Indexed, Search,
     CallFails, ClientDies
<1>8. CASE ReaderPanics \/ QuitPanics \/ Crash \/ \E c \in Clients : SearcherDies(c)
  BY <1>1, <1>8 DEF ReaderPanics, QuitPanics, Crash, SearcherDies
<1>9. CASE Stop \/ Restart \/ UNCHANGED vars
  BY <1>3, <1>9 DEF Stop, Restart, vars
<1> QED
  BY <1>4, <1>5, <1>6, <1>7, <1>8, <1>9 DEF Next

\* While the server lives, what it acknowledged is on disk, queued or in the
\* hands of a writer, however many writers share the queue.
THEOREM AckedNotLost == Spec => []AckedKept
<1>1. Init => AckedKept
  BY DEF Init, AckedKept
<1>2. TypeOK /\ SearcherInv /\ AckedKept /\ [Next]_vars => AckedKept'
  BY AckedStep DEF SearcherInv
<1> QED
  BY <1>1, <1>2, Invariance, PTL DEF Spec
=============================================================================
