------------------- MODULE EncryptedIndexGeneratorProofs -------------------
(***************************************************************************)
(* Proofs about EncryptedIndexGenerator, for every corpus, every number of *)
(* workers and every bound on failures.                                    *)
(***************************************************************************)
EXTENDS EncryptedIndexGenerator, FiniteSetTheorems, TLAPS

\* The xTags of a document have the type of xTags.
LEMMA XTagsType ==
    ASSUME NEW d \in Docs, NEW fresh \in BOOLEAN,
           NEW order \in SetToSeqs(DocWords[d])
    PROVE  XTagsOf(order, d, fresh) \subseteq XTag
<1> DEFINE n == Cardinality(DocWords[d])
<1>1. n \in Nat
  <2>1. DocWords[d] \subseteq Words
    BY DocWordsAssumption
  <2> QED
    BY <2>1, WordsAssumption, FS_Subset, FS_CardinalityType
<1>2. order \in [1 .. n -> DocWords[d]]
  BY DEF SetToSeqs
<1>3. order \in Seq(Words) /\ Len(order) = n
  BY <1>1, <1>2, DocWordsAssumption
<1>4. ASSUME NEW i \in 1 .. Len(order)
      PROVE  [wtag |-> SubSeq(order, 1, i),
              xind |-> (IF fresh THEN <<0>> ELSE <<>>) \o [j \in 1 .. i |-> d]]
             \in XTag
  <2>1. SubSeq(order, 1, i) \in Seq(Words)
    BY <1>3
  <2>2. [j \in 1 .. i |-> d] \in Seq(Docs \cup {0})
    <3>1. i \in Nat
      BY <1>1, <1>3
    <3> QED
      BY <3>1
  <2>3. (IF fresh THEN <<0>> ELSE <<>>) \in Seq(Docs \cup {0})
    <3>1. <<0>> \in Seq(Docs \cup {0}) /\ <<>> \in Seq(Docs \cup {0})
      OBVIOUS
    <3> QED
      BY <3>1, Zenon
  <2>4. (IF fresh THEN <<0>> ELSE <<>>) \o [j \in 1 .. i |-> d]
            \in Seq(Docs \cup {0})
    BY <2>2, <2>3
  <2> QED
    BY <2>1, <2>4 DEF XTag
<1> QED
  BY <1>4 DEF XTagsOf

\* Reporting an error keeps the types of the error variables.
LEMMA AbortType ==
    ASSUME TypeOK, Abort PROVE errs' \in Nat /\ msg' \in BOOLEAN
<1>1. errs' \in Nat
  BY DEF TypeOK, Abort
<1>2. msg' \in BOOLEAN
  BY Zenon DEF TypeOK, Abort
<1> QED
  BY <1>1, <1>2

\* Every step keeps the types.
LEMMA TypeStep == TypeOK /\ [Next]_vars => TypeOK'
<1> SUFFICES ASSUME TypeOK, [Next]_vars PROVE TypeOK'
  OBVIOUS
<1> USE DEF splVars, xVars, sndVars, strVars, tVars, jVars, errVars
<1>1. ASSUME NEW d \in Docs, SplitterRecv(d) PROVE TypeOK'
  BY <1>1 DEF SplitterRecv, TypeOK
<1>2. CASE SplitterEnd
  BY <1>2 DEF SplitterEnd, TypeOK
<1>3. ASSUME NEW x \in Workers, SplitterSendX(x) PROVE TypeOK'
  BY <1>3 DEF SplitterSendX, TypeOK
<1>4. ASSUME NEW t \in Workers, SplitterSendT(t) PROVE TypeOK'
  BY <1>4, DocWordsAssumption DEF SplitterSendT, TypeOK
<1>5. ASSUME NEW x \in Workers, XCompute(x) PROVE TypeOK'
  <2>1. xDoc[x] \in Docs /\ xFresh[x] \in BOOLEAN
    BY <1>5 DEF XCompute, TypeOK
  <2>2. PICK order \in SetToSeqs(DocWords[xDoc[x]]) :
            xtags' = [xtags EXCEPT ![xDoc[x]] = XTagsOf(order, xDoc[x], xFresh[x])]
    BY <1>5 DEF XCompute
  <2>3. XTagsOf(order, xDoc[x], xFresh[x]) \in SUBSET XTag
    BY <2>1, <2>2, XTagsType
  <2>4. xtags' \in [Docs -> SUBSET XTag]
    BY <2>2, <2>3 DEF TypeOK
  <2> QED
    BY <1>5, <2>4 DEF XCompute, TypeOK
<1>6. ASSUME NEW x \in Workers, XEnd(x) PROVE TypeOK'
  BY <1>6 DEF XEnd, TypeOK
<1>7. ASSUME NEW d \in Docs, SenderSend(d) PROVE TypeOK'
  BY <1>7 DEF SenderSend, TypeOK
<1>8. ASSUME NEW d \in Docs, SenderPanics(d) PROVE TypeOK'
  BY <1>8 DEF SenderPanics, Panic, TypeOK
<1>9. ASSUME NEW d \in Docs, SenderDone(d) PROVE TypeOK'
  BY <1>9 DEF SenderDone, TypeOK
<1>10. CASE CloserSeesZero
  BY <1>10 DEF CloserSeesZero, TypeOK
<1>11. CASE CloserCloses
  BY <1>11 DEF CloserCloses, TypeOK
<1>12. CASE BloomXSetInit
  BY <1>12 DEF BloomXSetInit, TypeOK
<1>13. CASE StreamerStart
  BY <1>13 DEF StreamerStart, TypeOK
<1>14. CASE StreamerQueue
  BY <1>14 DEF StreamerQueue, TypeOK
<1>15. CASE StreamerEnd
  BY <1>15 DEF StreamerEnd, TypeOK
<1>16. ASSUME NEW t \in Workers, TOpen(t) PROVE TypeOK'
  <2>1. errs' \in Nat /\ msg' \in BOOLEAN
    BY <1>16, AbortType DEF TOpen, TypeOK
  <2>2. tStream' \in [Workers -> BOOLEAN]
    BY <1>16 DEF TOpen, TypeOK
  <2> QED
    <3>1. /\ tPc' \in [Workers -> {"open", "recv", "words", "send", "done"}]
          /\ \A u \in Workers : /\ tPc'[u] \in {"words", "send"} => tDoc'[u] \in Docs
                                /\ tPc'[u] = "send" => tFrag'[u] \in Fragment
      BY <1>16 DEF TOpen, TypeOK
    <3> QED
      BY <1>16, <2>1, <2>2, <3>1 DEF TOpen, TypeOK
<1>17. ASSUME NEW t \in Workers, NEW w \in Words, TIndexWord(t, w) PROVE TypeOK'
  <2>1. /\ tPrf[t] \in Seq(Words) /\ tDoc[t] \in Docs
        /\ counter[w].count \in Nat
    BY <1>17 DEF TIndexWord, TypeOK
  <2>2. TsetTuple(tPrf[t], w, counter[w].count + 1, tDoc[t], FALSE) \in Fragment
    BY <2>1 DEF TsetTuple, Fragment
  <2>3. Append(tPrf[t], w) \in Seq(Words)
    BY <2>1
  <2>4. /\ counter' \in [Words -> [count : Nat, lastId : Docs \cup {0}]]
        /\ \A v \in Words : counter'[v].count > 0 => counter'[v].lastId \in Docs
        /\ \A v \in Words : counter[v].count > 0 => counter'[v].count > 0
    BY <1>17, <2>1 DEF TIndexWord, Incremented, TypeOK
  <2> QED
    <3>1. tFrag' \in [Workers -> Fragment \cup {NoFragment}]
      BY <1>17, <2>2 DEF TIndexWord, TypeOK
    <3>2. tPrf' \in [Workers -> Seq(Words)]
      BY <1>17, <2>3 DEF TIndexWord, TypeOK
    <3>3. \A u \in Workers : /\ tPc'[u] \in {"words", "send"} => tDoc'[u] \in Docs
                             /\ tPc'[u] = "send" => tFrag'[u] \in Fragment
      BY <1>17, <2>1, <2>2 DEF TIndexWord, TypeOK
    <3>4. jTodo' \subseteq {v \in Words : counter'[v].count > 0}
      BY <1>17, <2>4 DEF TIndexWord, TypeOK
    <3>5. /\ tPc' \in [Workers -> {"open", "recv", "words", "send", "done"}]
          /\ tTodo' \in [Workers -> SUBSET Words]
      BY <1>17 DEF TIndexWord, TypeOK
    <3>6. UNCHANGED <<splVars, xVars, sndVars, strVars, tDoc, tStream, jVars,
                      tset, errVars, stopPc, panicked>>
      BY <1>17 DEF TIndexWord
    <3> QED
      BY <2>4, <3>1, <3>2, <3>3, <3>4, <3>5, <3>6 DEF TypeOK
<1>18. ASSUME NEW t \in Workers, TSend(t) PROVE TypeOK'
  <2>1. errs' \in Nat /\ msg' \in BOOLEAN
    BY <1>18, AbortType DEF TSend, TypeOK
  <2>2. tset' \subseteq Fragment
    BY <1>18 DEF TSend, TypeOK
  <2>3. tFrag' \in [Workers -> Fragment \cup {NoFragment}]
    BY <1>18 DEF TSend, TypeOK
  <2> QED
    BY <1>18, <2>1, <2>2, <2>3 DEF TSend, TypeOK
<1>19. ASSUME NEW t \in Workers, TDocDone(t) PROVE TypeOK'
  BY <1>19 DEF TDocDone, PrfReset, TypeOK
<1>20. ASSUME NEW t \in Workers, TEnd(t) PROVE TypeOK'
  BY <1>20 DEF TEnd, TypeOK
<1>21. ASSUME NEW t \in Workers, TPanics(t) PROVE TypeOK'
  BY <1>21 DEF TPanics, Panic, TypeOK
<1>22. CASE JWait
  BY <1>22 DEF JWait, TypeOK
<1>23. CASE JOpen
  <2>1. errs' \in Nat /\ msg' \in BOOLEAN
    BY <1>23, AbortType DEF JOpen, TypeOK
  <2>2. jStream' \in BOOLEAN
    BY <1>23, Zenon DEF JOpen, TypeOK
  <2> QED
    BY <1>23, <2>1, <2>2 DEF JOpen, TypeOK
<1>24. ASSUME NEW w \in Words, JMark(w) PROVE TypeOK'
  <2>1. counter[w].count \in Nat /\ counter[w].lastId \in Docs
    BY <1>24 DEF JMark, TypeOK
  <2>2. TsetTuple(<<>>, w, counter[w].count + 1, counter[w].lastId, TRUE)
            \in Fragment
    BY <2>1 DEF TsetTuple, Fragment
  <2> QED
    <3>1. errs' \in Nat /\ msg' \in BOOLEAN
      BY <1>24, AbortType DEF JMark, TypeOK
    <3>2. tset' \subseteq Fragment
      BY <1>24, <2>2 DEF JMark, TypeOK
    <3> QED
      BY <1>24, <3>1, <3>2 DEF JMark, TypeOK
<1>25. CASE JEnd
  BY <1>25 DEF JEnd, TypeOK
<1>26. CASE JPanics
  BY <1>26 DEF JPanics, Panic, TypeOK
<1>27. CASE Stop
  BY <1>27 DEF Stop, TypeOK
<1>28. CASE StopReturn
  BY <1>28 DEF StopReturn, TypeOK
<1>29. CASE HandleErrors
  BY <1>29 DEF HandleErrors, Panic, TypeOK
<1>30. CASE UNCHANGED vars
  BY <1>30 DEF vars, TypeOK
<1> QED
  BY <1>1, <1>2, <1>3, <1>4, <1>5, <1>6, <1>7, <1>8, <1>9, <1>10, <1>11, <1>12, <1>13, <1>14, <1>15, <1>16, <1>17, <1>18, <1>19, <1>20, <1>21, <1>22, <1>23, <1>24, <1>25, <1>26, <1>27, <1>28, <1>29, <1>30
     DEF Next, Splitter, XWorker, TWorker, Sender, Closer, Streamer, Janitor,
         Terminated

\* Type correctness of the generator: in particular the counter, the fragments
\* in flight and the fragments sent are always well formed.
THEOREM TypeCorrect == Spec => []TypeOK
<1>1. Init => TypeOK
  <2> SUFFICES ASSUME Init PROVE TypeOK
    OBVIOUS
  <2>1. tPrf \in [Workers -> Seq(Words)]
    BY DEF Init
  <2>2. tFrag \in [Workers -> Fragment \cup {NoFragment}]
    BY DEF Init
  <2>3. xtags \in [Docs -> SUBSET XTag]
    BY DEF Init
  <2>4. /\ counter \in [Words -> [count : Nat, lastId : Docs \cup {0}]]
        /\ \A w \in Words : counter[w].count > 0 => counter[w].lastId \in Docs
    BY DEF Init
  <2>5. /\ tset \subseteq Fragment /\ unsent \subseteq Docs /\ queued \subseteq Docs
        /\ jTodo \subseteq {w \in Words : counter[w].count > 0}
    BY DEF Init
  <2>6. /\ xInit \in BOOLEAN /\ jStream \in BOOLEAN /\ msg \in BOOLEAN
        /\ panicked \in BOOLEAN
    BY DEF Init
  <2>7. /\ xPc \in [Workers -> {"recv", "tags", "done"}]
        /\ xDoc \in [Workers -> Docs \cup {0}]
        /\ \A x \in Workers : xPc[x] = "tags" => xDoc[x] \in Docs
        /\ xFresh \in [Workers -> BOOLEAN]
        /\ sender \in [Docs -> {"none", "wait", "sent", "done"}]
        /\ tPc \in [Workers -> {"open", "recv", "words", "send", "done"}]
        /\ tDoc \in [Workers -> Docs \cup {0}]
        /\ tTodo \in [Workers -> SUBSET Words]
        /\ \A t \in Workers : /\ tPc[t] \in {"words", "send"} => tDoc[t] \in Docs
                              /\ tPc[t] = "send" => tFrag[t] \in Fragment
        /\ tStream \in [Workers -> BOOLEAN]
    BY DEF Init
  <2> QED
    BY <2>1, <2>2, <2>3, <2>4, <2>5, <2>6, <2>7 DEF Init, TypeOK
<1> QED
  BY <1>1, TypeStep, PTL DEF Spec
----------------------------------------------------------------------------
(***************************************************************************)
(* The T-set invariant.                                                    *)
(***************************************************************************)

\* What the T-set invariant reads, except for quit.
tsetState == <<unsent, splPc, splDoc, counter, tPc, tDoc, tTodo, tFrag, jPc,
               jTodo, tset, errs>>

\* All fragments, sent or in flight, are well typed.
LEMMA IssuedType == TypeOK => Issued \subseteq Fragment
BY DEF TypeOK, Issued

\* The parts of a fragment have the types the numbering needs.
LEMMA FragmentType ==
    ASSUME NEW f \in Fragment
    PROVE  /\ f.word \in Words /\ f.index \in Nat \ {0} /\ f.id \in Docs
           /\ f.last \in BOOLEAN /\ f.stag \in Seq(Words)
BY DEF Fragment

\* A step that changes nothing the invariant reads keeps it. Stop only sets
\* quit.
LEMMA TSetFrame ==
    ASSUME TSetInv, UNCHANGED tsetState, quit => quit'
    PROVE  TSetInv'
<1> USE DEF tsetState
<1>1. Issued' = Issued
  BY DEF Issued
<1>2. \A d, w : Awaiting(d, w)' <=> Awaiting(d, w)
  BY DEF Awaiting, Busy, Copying
<1>4. NumberingInv'
  BY <1>1 DEF TSetInv, NumberingInv
<1>5. OwnershipInv'
  BY <1>1, <1>2 DEF TSetInv, OwnershipInv, Busy, Copying
<1>6. CoverageInv'
  BY <1>1, <1>2 DEF TSetInv, CoverageInv
<1> QED
  BY <1>4, <1>5, <1>6 DEF TSetInv

\* The invariant holds when Start returns.
LEMMA TSetInit == Init => TSetInv
<1> SUFFICES ASSUME Init PROVE TSetInv
  OBVIOUS
<1>1. Issued = {}
  BY DEF Init, Issued
<1>2. \A d \in Docs : \A w : Awaiting(d, w)
  BY DEF Init, Awaiting
<1>3. \A t \in Workers : ~Busy(t) /\ tPc[t] # "done"
  BY DEF Init, Busy
<1>4. ~Copying
  BY DEF Init, Copying
<1>5. \A w \in Words : counter[w].count = 0
  BY DEF Init
<1>6. NumberingInv
  BY <1>1 DEF NumberingInv, Init
<1>7. OwnershipInv
  BY <1>1, <1>3, <1>4 DEF OwnershipInv
<1>8. CoverageInv
  BY <1>1, <1>2, <1>3, <1>5 DEF CoverageInv, Init
<1> QED
  BY <1>6, <1>7, <1>8 DEF TSetInv

\* chanSplitter takes a document from incomingDocuments.
LEMMA SplitterRecvTSet ==
    ASSUME TypeOK, TSetInv, NEW d \in Docs, SplitterRecv(d)
    PROVE  TSetInv'
<1> USE DEF tVars, jVars, errVars, Copying, Busy
<1>1. Issued' = Issued
  BY DEF Issued, SplitterRecv
<1>2. \A e, w : Awaiting(e, w)' <=> Awaiting(e, w)
  BY DEF Awaiting, SplitterRecv
<1>3. NumberingInv'
  BY <1>1 DEF TSetInv, NumberingInv, SplitterRecv
<1>4. OwnershipInv'
  BY <1>1, <1>2 DEF TSetInv, OwnershipInv, SplitterRecv
<1>5. CoverageInv'
  BY <1>1, <1>2 DEF TSetInv, CoverageInv, SplitterRecv, quit
<1> QED
  BY <1>3, <1>4, <1>5 DEF TSetInv

\* chanSplitter leaves its loop, or copies the document to an xSetWorker.
LEMMA SplitterTSet ==
    ASSUME TypeOK, TSetInv,
           SplitterEnd \/ \E x \in Workers : SplitterSendX(x)
    PROVE  TSetInv'
<1> USE DEF tVars, jVars, errVars, Copying, Busy
<1>1. Issued' = Issued
  BY DEF Issued, SplitterEnd, SplitterSendX
<1>2. \A e, w : Awaiting(e, w)' <=> Awaiting(e, w)
  BY DEF Awaiting, SplitterEnd, SplitterSendX
<1>3. NumberingInv'
  BY <1>1 DEF TSetInv, NumberingInv, SplitterEnd, SplitterSendX
<1>4. OwnershipInv'
  BY <1>1, <1>2 DEF TSetInv, OwnershipInv, SplitterEnd, SplitterSendX
<1>5. CoverageInv'
  BY <1>1, <1>2 DEF TSetInv, CoverageInv, SplitterEnd, SplitterSendX, quit
<1> QED
  BY <1>3, <1>4, <1>5 DEF TSetInv

\* chanSplitter hands the document to a tSetWorker, which now owns it.
LEMMA SplitterSendTTSet ==
    ASSUME TypeOK, TSetInv, NEW t \in Workers, SplitterSendT(t)
    PROVE  TSetInv'
<1> USE DEF jVars, errVars, Copying, Busy
<1>1. Issued' = Issued
  BY DEF Issued, SplitterSendT, TypeOK
<1>2. splDoc \in Docs /\ splDoc \notin unsent
  BY DEF SplitterSendT, TypeOK, TSetInv, OwnershipInv
<1>3. \A e, w : Awaiting(e, w)' => Awaiting(e, w)
  BY DEF Awaiting, SplitterSendT, TypeOK
<1>4. \A e \in Docs : \A w \in DocWords[e] : Awaiting(e, w) => Awaiting(e, w)'
  BY DEF Awaiting, SplitterSendT, TypeOK
<1>5. NumberingInv'
  BY <1>1 DEF TSetInv, NumberingInv, SplitterSendT, TypeOK
<1>6. OwnershipInv'
  <2>1. \A u \in Workers : Busy(u)' =>
          /\ tDoc'[u] \notin unsent'
          /\ \A v \in Workers : Busy(v)' /\ tDoc'[v] = tDoc'[u] => v = u
    BY <1>2 DEF TSetInv, OwnershipInv, SplitterSendT, TypeOK
  <2> QED
    BY <1>1, <1>3, <2>1 DEF TSetInv, OwnershipInv, SplitterSendT
<1>7. CoverageInv'
  <2>1. \A u \in Workers : tPc'[u] = "done" => tPc[u] = "done"
    BY DEF SplitterSendT, TypeOK
  <2> QED
    BY <1>1, <1>4, <2>1 DEF TSetInv, CoverageInv, SplitterSendT, quit
<1> QED
  BY <1>5, <1>6, <1>7 DEF TSetInv

\* A tSetWorker opens its stream, finishes a document or leaves.
LEMMA TWorkerTSet ==
    ASSUME TypeOK, TSetInv, NEW t \in Workers,
           TOpen(t) \/ TDocDone(t) \/ TEnd(t)
    PROVE  TSetInv'
<1> USE DEF splVars, jVars, errVars, Copying, Busy
<1>1. Issued' = Issued
  BY DEF Issued, TOpen, TDocDone, TEnd, TypeOK
<1>2. \A e, w : Awaiting(e, w)' <=> Awaiting(e, w)
  <2>1. UNCHANGED <<unsent, splPc, splDoc, tTodo>>
    BY DEF TOpen, TDocDone, TEnd
  <2>2. \A u \in Workers : tTodo[u] # {} =>
           /\ Busy(u)' <=> Busy(u)
           /\ Busy(u) => tDoc'[u] = tDoc[u]
    BY DEF TOpen, TDocDone, TEnd, TypeOK
  <2> QED
    BY <2>1, <2>2 DEF Awaiting
<1>3. errs' = 0 => errs = 0
  BY DEF TOpen, TDocDone, TEnd, Abort, TypeOK
<1>4. NumberingInv'
  <2>1. tPc[t] # "done" /\ UNCHANGED <<counter, jPc, jTodo>>
    BY DEF TOpen, TDocDone, TEnd
  <2> QED
    BY <1>1, <2>1 DEF TSetInv, NumberingInv
<1>5. OwnershipInv'
  <2>1. UNCHANGED splVars
    BY DEF TOpen, TDocDone, TEnd
  <2>2. \A u \in Workers : Busy(u)' => Busy(u) /\ tDoc'[u] = tDoc[u]
    BY DEF TOpen, TDocDone, TEnd, TypeOK
  <2> QED
    BY <1>1, <1>2, <2>1, <2>2 DEF TSetInv, OwnershipInv
<1>6. CoverageInv'
  <2>1. /\ UNCHANGED <<counter, tset, jPc, jTodo, stopPc, splPc, unsent>>
        /\ \A u \in Workers : tPc'[u] = "done" /\ tPc[u] # "done"
                              => quit \/ splPc = "done"
    BY DEF TOpen, TDocDone, TEnd, TypeOK
  <2> QED
    BY <1>1, <1>2, <1>3, <2>1 DEF TSetInv, CoverageInv, quit
<1> QED
  BY <1>4, <1>5, <1>6 DEF TSetInv

\* A tSetWorker takes the next index of a word and computes the fragment. No
\* issued fragment has that number, and none lists the document for the word.
LEMMA TIndexWordTSet ==
    ASSUME TypeOK, TSetInv, NEW t \in Workers, NEW w \in Words,
           TIndexWord(t, w)
    PROVE  TSetInv'
<1> DEFINE new == TsetTuple(tPrf[t], w, counter[w].count + 1, tDoc[t], FALSE)
<1> USE DEF splVars, jVars, errVars
<1>1. /\ tPc[t] = "words" /\ w \in tTodo[t] /\ tDoc[t] \in Docs
      /\ tPrf[t] \in Seq(Words) /\ counter[w].count \in Nat
  BY DEF TIndexWord, TypeOK
<1>2. /\ new.word = w /\ new.index = counter[w].count + 1 /\ new.id = tDoc[t]
      /\ new.last = FALSE /\ new.stag = Append(tPrf[t], w)
  BY DEF TsetTuple
<1>3. Issued' = Issued \cup {new}
  <2>1. tset' = tset
    BY DEF TIndexWord
  <2>2. \A u \in Workers : IF u = t THEN tPc'[u] = "send" /\ tFrag'[u] = new
                                    ELSE tPc'[u] = tPc[u] /\ tFrag'[u] = tFrag[u]
    BY DEF TIndexWord, TypeOK
  <2>3. {tFrag'[u] : u \in {v \in Workers : tPc'[v] = "send"}}
          = {tFrag[u] : u \in {v \in Workers : tPc[v] = "send"}} \cup {new}
    BY <1>1, <2>2
  <2> QED
    BY <2>1, <2>3 DEF Issued
<1> HIDE DEF new
<1>4. \A f \in Issued : /\ f.word \in Words /\ f.index \in Nat
                        /\ f.id \in Docs /\ f.last \in BOOLEAN
  BY IssuedType, FragmentType
<1>5. jPc = "wait" /\ jPc' = "wait" /\ jTodo' = jTodo
  BY <1>1 DEF TSetInv, NumberingInv, TIndexWord
<1>6. \A f \in Issued : ~f.last /\ f.index <= counter[f.word].count
  BY <1>5 DEF TSetInv, NumberingInv
<1>7. /\ counter'[w].count = counter[w].count + 1 /\ counter'[w].lastId = tDoc[t]
      /\ \A v \in Words : v # w => counter'[v] = counter[v]
      /\ \A v \in Words : counter[v].count \in Nat
  BY DEF TIndexWord, Incremented, TypeOK
<1>8. Awaiting(tDoc[t], w)
  BY <1>1 DEF Awaiting, Busy
<1>9. \A f \in Issued : ~(f.word = w /\ f.id = tDoc[t])
  BY <1>6, <1>8 DEF TSetInv, OwnershipInv
<1>10. /\ \A u \in Workers : Busy(u)' <=> Busy(u)
       /\ Copying' <=> Copying
       /\ UNCHANGED <<tDoc, splDoc, unsent, splPc>>
  BY DEF Busy, Copying, TIndexWord, TypeOK
<1>11. \A e, v : Awaiting(e, v)' <=> Awaiting(e, v) /\ ~(e = tDoc[t] /\ v = w)
  <2>1. \A u \in Workers : tTodo'[u] = IF u = t THEN tTodo[u] \ {w} ELSE tTodo[u]
    BY DEF TIndexWord, TypeOK
  <2>2. /\ Busy(t) /\ tDoc[t] \notin unsent /\ ~(Copying /\ splDoc = tDoc[t])
        /\ \A u \in Workers : Busy(u) /\ tDoc[u] = tDoc[t] => u = t
    BY <1>1 DEF TSetInv, OwnershipInv, Busy
  <2> QED
    BY <1>10, <2>1, <2>2 DEF Awaiting
<1>13. NumberingInv'
  <2>1. \A f \in Issued' : ~f.last /\ f.index <= counter'[f.word].count
    BY <1>1, <1>2, <1>3, <1>4, <1>6, <1>7
  <2>2. \A f \in Issued : f.word = w => f.index # new.index
    BY <1>1, <1>2, <1>4, <1>6
  <2>3. \A f, g \in Issued' : f.word = g.word /\ f.index = g.index => f = g
    BY <1>2, <1>3, <2>2 DEF TSetInv, NumberingInv
  <2> QED
    BY <1>5, <2>1, <2>3 DEF NumberingInv
<1>14. OwnershipInv'
  <2>1. \A f \in Issued' : ~f.last => ~Awaiting(f.id, f.word)'
    BY <1>2, <1>3, <1>11 DEF TSetInv, OwnershipInv
  <2>2. \A f, g \in Issued' :
           ~f.last /\ ~g.last /\ f.word = g.word /\ f.id = g.id => f = g
    BY <1>2, <1>3, <1>9 DEF TSetInv, OwnershipInv
  <2> QED
    BY <1>10, <2>1, <2>2 DEF TSetInv, OwnershipInv
<1>15. CoverageInv'
  <2>1. \A u \in Workers : tPc'[u] = "done" => tPc[u] = "done"
    BY DEF TIndexWord, TypeOK
  <2>2. ASSUME errs = 0, NEW v \in Words, NEW i \in 1 .. counter'[v].count
        PROVE  \E f \in Issued' : f.word = v /\ f.index = i /\ ~f.last
    <3>1. CASE v = w /\ i = counter[w].count + 1
      BY <1>2, <1>3, <3>1
    <3>2. CASE ~(v = w /\ i = counter[w].count + 1)
      <4>1. i \in 1 .. counter[v].count
        BY <1>1, <1>7, <3>2
      <4> QED
        BY <1>3, <2>2, <4>1 DEF TSetInv, CoverageInv
    <3> QED
      BY <3>1, <3>2
  <2>3. ASSUME errs = 0, NEW v \in Words, counter'[v].count > 0
        PROVE  \E f \in Issued' : /\ f.word = v /\ f.index = counter'[v].count
                                  /\ f.id = counter'[v].lastId /\ ~f.last
    BY <1>2, <1>3, <1>7, <2>3 DEF TSetInv, CoverageInv
  <2>4. ASSUME errs = 0, NEW e \in Docs, NEW v \in DocWords[e]
        PROVE  \/ Awaiting(e, v)'
               \/ \E f \in Issued' : f.word = v /\ f.id = e /\ ~f.last
    BY <1>2, <1>3, <1>11, <2>4 DEF TSetInv, CoverageInv
  <2>5. errs' = errs /\ quit' = quit /\ splPc' = splPc /\ unsent' = unsent
    BY DEF TIndexWord, quit
  <2> QED
    BY <1>5, <2>1, <2>2, <2>3, <2>4, <2>5 DEF TSetInv, CoverageInv
<1> QED
  BY <1>13, <1>14, <1>15 DEF TSetInv

\* Send delivers the fragment in flight, or loses it and counts an error.
LEMMA TSendTSet ==
    ASSUME TypeOK, TSetInv, NEW t \in Workers, TSend(t)
    PROVE  TSetInv'
<1> USE DEF splVars, jVars
<1>1. \A u \in Workers :
         IF u = t THEN tPc'[u] = "words"
                  ELSE tPc'[u] = tPc[u] /\ tFrag'[u] = tFrag[u]
  BY DEF TSend, TypeOK
<1>2. tPc[t] = "send"
  BY DEF TSend
<1>3. tset \subseteq tset' /\ tset' \subseteq tset \cup {tFrag[t]}
  BY DEF TSend
<1>4. Issued' \subseteq Issued
  BY <1>1, <1>2, <1>3 DEF Issued
<1>5. errs' = 0 => errs = 0 /\ Issued' = Issued
  <2>1. errs' = 0 => errs = 0 /\ tset' = tset \cup {tFrag[t]}
    BY DEF TSend, errVars, Abort, TypeOK
  <2> QED
    BY <1>1, <1>2, <2>1 DEF Issued
<1>6. \A u \in Workers : (Busy(u)' <=> Busy(u)) /\ (tPc'[u] = "done" <=> tPc[u] = "done")
  BY <1>1, <1>2 DEF Busy
<1>7. UNCHANGED <<tDoc, tTodo, unsent, splPc, splDoc, counter, jPc, jTodo, stopPc>>
  BY DEF TSend
<1>8. \A e, w : Awaiting(e, w)' <=> Awaiting(e, w)
  BY <1>6, <1>7 DEF Awaiting, Copying
<1>9. NumberingInv'
  BY <1>4, <1>6, <1>7 DEF TSetInv, NumberingInv
<1>10. OwnershipInv'
  BY <1>4, <1>6, <1>7, <1>8 DEF TSetInv, OwnershipInv, Copying
<1>11. CoverageInv'
  BY <1>3, <1>5, <1>6, <1>7, <1>8 DEF TSetInv, CoverageInv, quit
<1> QED
  BY <1>9, <1>10, <1>11 DEF TSetInv

\* The janitor's Wait returns, it opens its stream, or it leaves.
LEMMA JanitorTSet ==
    ASSUME TypeOK, TSetInv, JWait \/ JOpen \/ JEnd
    PROVE  TSetInv'
<1> USE DEF splVars, tVars
<1>1. /\ UNCHANGED <<unsent, splPc, splDoc, tPc, tDoc, tTodo, tFrag, tset,
                     counter, stopPc>>
      /\ errs' = 0 => errs = 0
  BY DEF JWait, JOpen, JEnd, errVars, Abort, TypeOK
<1>2. Issued' = Issued
  BY <1>1 DEF Issued
<1>3. \A e, w : Awaiting(e, w)' <=> Awaiting(e, w)
  BY <1>1 DEF Awaiting, Busy, Copying
<1>5. /\ jPc \in {"mark", "done"} => jPc' \in {"mark", "done"} /\ jTodo' = jTodo
      /\ jPc' # "wait" => \A t \in Workers : tPc[t] = "done"
  BY DEF JWait, JOpen, JEnd, TSetInv, NumberingInv
<1>6. NumberingInv'
  BY <1>1, <1>2, <1>5 DEF TSetInv, NumberingInv
<1>7. OwnershipInv'
  BY <1>1, <1>2, <1>3 DEF TSetInv, OwnershipInv, Busy, Copying
<1>8. /\ jPc' = "done" => jTodo' = {}
      /\ \A w \in Words : jPc' \in {"mark", "done"} /\ counter[w].count > 0
                          /\ w \notin jTodo'
                          => jPc \in {"mark", "done"} /\ w \notin jTodo
  BY DEF JWait, JOpen, JEnd
<1>9. CoverageInv'
  BY <1>1, <1>2, <1>3, <1>8 DEF TSetInv, CoverageInv, quit
<1> QED
  BY <1>6, <1>7, <1>9 DEF TSetInv

\* The janitor sends the end marker of a word, one past its postings, which
\* are all numbered by now.
LEMMA JMarkTSet ==
    ASSUME TypeOK, TSetInv, NEW w \in Words, JMark(w)
    PROVE  TSetInv'
<1> DEFINE new == TsetTuple(<<>>, w, counter[w].count + 1, counter[w].lastId, TRUE)
<1> USE DEF splVars, tVars
<1>1. /\ new.word = w /\ new.index = counter[w].count + 1
      /\ new.id = counter[w].lastId /\ new.last = TRUE /\ new.stag = <<w>>
  BY DEF TsetTuple
<1>2. /\ UNCHANGED <<unsent, splPc, splDoc, tPc, tDoc, tTodo, tFrag, counter,
                     stopPc, jPc>>
      /\ jPc = "mark" /\ w \in jTodo /\ jTodo' = jTodo \ {w}
  BY DEF JMark
<1>3. \/ tset' = tset \cup {new} /\ errs' = errs
      \/ tset' = tset /\ errs' # 0
  <2>1. \/ tset' = tset \cup {new} /\ UNCHANGED errVars
        \/ Abort /\ UNCHANGED tset
    BY DEF JMark
  <2>2. Abort => errs' # 0
    BY DEF Abort, TypeOK
  <2> QED
    BY <2>1, <2>2 DEF errVars
<1> HIDE DEF new
<1>4. Issued' = Issued \cup {new} \/ (Issued' = Issued /\ errs' # 0)
  BY <1>2, <1>3 DEF Issued
<1>5. Issued \subseteq Issued' /\ Issued' \subseteq Issued \cup {new}
  BY <1>4
<1>6. \A f \in Issued : /\ f.word \in Words /\ f.index \in Nat
                        /\ f.last \in BOOLEAN
  BY IssuedType, FragmentType
<1>7. counter[w].count \in Nat
  BY DEF TypeOK
<1>8. \A e, v : Awaiting(e, v)' <=> Awaiting(e, v)
  BY <1>2 DEF Awaiting, Busy, Copying
<1>10. NumberingInv'
  <2>1. \A f \in Issued : f.word = w => f.index # new.index
    BY <1>1, <1>2, <1>6, <1>7 DEF TSetInv, NumberingInv
  <2>2. \A f, g \in Issued' : f.word = g.word /\ f.index = g.index => f = g
    BY <1>1, <1>5, <2>1 DEF TSetInv, NumberingInv
  <2>3. \A f \in Issued' :
          \/ ~f.last /\ f.index <= counter'[f.word].count
          \/ /\ f.last /\ f.index = counter'[f.word].count + 1
             /\ f.word \notin jTodo' /\ jPc' \in {"mark", "done"}
    BY <1>1, <1>2, <1>5 DEF TSetInv, NumberingInv
  <2> QED
    BY <1>2, <2>2, <2>3 DEF TSetInv, NumberingInv
<1>11. OwnershipInv'
  <2>1. \A f \in Issued' : ~f.last => f \in Issued
    BY <1>1, <1>5
  <2> QED
    BY <1>2, <1>8, <2>1 DEF TSetInv, OwnershipInv, Busy, Copying
<1>12. CoverageInv'
  <2>1. errs' = 0 => errs = 0 /\ new \in tset' /\ tset \subseteq tset'
    BY <1>3
  <2>2. jPc' # "done"
    BY <1>2
  <2>3. ASSUME errs' = 0, NEW v \in Words, counter[v].count > 0, v \notin jTodo'
        PROVE  \E f \in tset' : /\ f.word = v /\ f.last
                                /\ f.index = counter[v].count + 1
                                /\ f.id = counter[v].lastId
    <3>1. CASE v = w
      BY <1>1, <2>1, <2>3, <3>1
    <3>2. CASE v # w
      BY <1>2, <2>1, <2>3, <3>2 DEF TSetInv, CoverageInv
    <3> QED
      BY <3>1, <3>2
  <2> QED
    BY <1>2, <1>5, <1>8, <2>1, <2>2, <2>3 DEF TSetInv, CoverageInv, quit
<1> QED
  BY <1>10, <1>11, <1>12 DEF TSetInv

\* Every step of the generator keeps the T-set invariant.
LEMMA TSetStep == TypeOK /\ TSetInv /\ [Next]_vars => TSetInv'
<1> SUFFICES ASSUME TypeOK, TSetInv, [Next]_vars PROVE TSetInv'
  OBVIOUS
<1>1. CASE \E d \in Docs : SplitterRecv(d)
  BY <1>1, SplitterRecvTSet
<1>2. CASE SplitterEnd \/ \E x \in Workers : SplitterSendX(x)
  BY <1>2, SplitterTSet
<1>3. CASE \E t \in Workers : SplitterSendT(t)
  BY <1>3, SplitterSendTTSet
<1>4. CASE \E t \in Workers : TOpen(t) \/ TDocDone(t) \/ TEnd(t)
  BY <1>4, TWorkerTSet
<1>5. CASE \E t \in Workers, w \in Words : TIndexWord(t, w)
  BY <1>5, TIndexWordTSet
<1>6. CASE \E t \in Workers : TSend(t)
  BY <1>6, TSendTSet
<1>7. CASE JWait \/ JOpen \/ JEnd
  BY <1>7, JanitorTSet
<1>8. CASE \E w \in Words : JMark(w)
  BY <1>8, JMarkTSet
<1> USE DEF splVars, xVars, sndVars, strVars, tVars, jVars, errVars, tsetState
<1>9. CASE \E x \in Workers : XWorker(x)
  BY <1>9, TSetFrame DEF XWorker, XCompute, XEnd, quit
<1>10. CASE \E d \in Docs : Sender(d)
  BY <1>10, TSetFrame DEF Sender, SenderSend, SenderPanics, SenderDone, Panic, quit
<1>11. CASE Closer \/ BloomXSetInit \/ Streamer
  BY <1>11, TSetFrame DEF Closer, CloserSeesZero, CloserCloses, BloomXSetInit,
     Streamer, StreamerStart, StreamerQueue, StreamerEnd, quit
<1>12. CASE HandleErrors \/ JPanics \/ \E t \in Workers : TPanics(t)
  BY <1>12, TSetFrame DEF HandleErrors, JPanics, TPanics, Panic, quit
<1>13. CASE Stop \/ StopReturn
  BY <1>13, TSetFrame DEF Stop, StopReturn, quit
<1>14. CASE UNCHANGED vars
  BY <1>14, TSetFrame DEF vars, quit
<1> QED
  BY <1>1, <1>2, <1>3, <1>4, <1>5, <1>6, <1>7, <1>8, <1>9, <1>10, <1>11, <1>12,
     <1>13, <1>14
     DEF Next, Splitter, TWorker, Janitor, Terminated

\* The T-set invariant holds in every reachable state, for any corpus, any
\* number of workers, any failures and whether or not Stop is called.
THEOREM TSetCorrect == Spec => []TSetInv
<1>1. TypeOK /\ TSetInv /\ [Next]_vars => (TypeOK /\ TSetInv)'
  BY TypeStep, TSetStep
<1> QED
  BY <1>1, TSetInit, TypeCorrect, PTL DEF Spec
----------------------------------------------------------------------------
(***************************************************************************)
(* What the invariant gives.                                               *)
(***************************************************************************)

\* No two fragments of a word ever get the same index.
THEOREM IndicesUnique == Spec => []UniqueIndices
<1>1. TSetInv => UniqueIndices
  BY DEF TSetInv, NumberingInv, Issued, UniqueIndices
<1> QED
  BY <1>1, TSetCorrect, PTL

\* A word's end marker is unique and follows all its postings.
THEOREM MarkersLast == Spec => []EndMarkerLast
<1>1. TypeOK /\ TSetInv => EndMarkerLast
  <2> SUFFICES ASSUME TypeOK, TSetInv, NEW f \in tset, NEW g \in tset,
                      f.last, g.word = f.word, g # f
               PROVE  ~g.last /\ g.index < f.index
    BY DEF EndMarkerLast
  <2>1. f \in Issued /\ g \in Issued
    BY DEF Issued
  <2>2. /\ f.index \in Nat /\ g.index \in Nat /\ f.word \in Words
        /\ counter[f.word].count \in Nat
    BY <2>1, IssuedType, FragmentType DEF TypeOK
  <2>3. f.index = counter[f.word].count + 1
    BY <2>1 DEF TSetInv, NumberingInv
  <2>4. f.index # g.index
    BY <2>1 DEF TSetInv, NumberingInv
  <2>5. \/ ~g.last /\ g.index <= counter[f.word].count
        \/ g.last /\ g.index = counter[f.word].count + 1
    BY <2>1 DEF TSetInv, NumberingInv
  <2> QED
    BY <2>2, <2>3, <2>4, <2>5
<1> QED
  BY <1>1, TypeCorrect, TSetCorrect, PTL

\* A word never lists a document twice.
THEOREM PostedOnce == Spec => []OnePostingPerDoc
<1>1. TypeOK /\ TSetInv => OnePostingPerDoc
  <2> SUFFICES ASSUME TypeOK, TSetInv, NEW f \in tset, NEW g \in tset,
                      f.word = g.word, f.id = g.id, f.last = g.last
               PROVE  f = g
    BY DEF OnePostingPerDoc
  <2>1. f \in Issued /\ g \in Issued
    BY DEF Issued
  <2>2. CASE f.last
    BY <2>1, <2>2 DEF TSetInv, NumberingInv
  <2>3. CASE ~f.last
    BY <2>1, <2>3 DEF TSetInv, OwnershipInv
  <2> QED
    BY <2>2, <2>3
<1> QED
  BY <1>1, TypeCorrect, TSetCorrect, PTL

\* Without failed sends the postings of a word have no gap, and its marker
\* repeats the last of them, when the janitor is done.
THEOREM NoGaps == Spec => []PostingsContiguous
<1>1. TypeOK /\ TSetInv => PostingsContiguous
  <2> SUFFICES ASSUME TypeOK, TSetInv, jPc = "done", errs = 0
               PROVE  \A w \in Words : counter[w].count > 0 =>
            /\ \A i \in 1 .. counter[w].count :
                  \E f \in tset : f.word = w /\ f.index = i /\ ~f.last
            /\ \E f, g \in tset :
                  /\ f.word = w /\ f.index = counter[w].count + 1 /\ f.last
                  /\ g.word = w /\ g.index = counter[w].count /\ g.id = f.id
    BY DEF PostingsContiguous
  <2>1. Issued = tset
    BY DEF TSetInv, NumberingInv, Issued
  <2>2. jTodo = {}
    BY DEF TSetInv, CoverageInv
  <2> QED
    BY <2>1, <2>2 DEF TSetInv, CoverageInv
<1> QED
  BY <1>1, TypeCorrect, TSetCorrect, PTL

\* Without failed sends and without Stop every word of every document is
\* posted when the janitor is done.
THEOREM AllPosted == Spec => []PostingsComplete
<1>1. TypeOK /\ TSetInv => PostingsComplete
  <2> SUFFICES ASSUME TypeOK, TSetInv, jPc = "done", errs = 0, ~quit,
                      NEW d \in Docs, NEW w \in DocWords[d]
               PROVE  \E f \in tset : f.word = w /\ f.id = d /\ ~f.last
    BY DEF PostingsComplete
  <2>1. \A t \in Workers : tPc[t] = "done"
    BY DEF TSetInv, NumberingInv
  <2>2. splPc = "done" /\ unsent = {}
    BY <2>1, WorkersAssumption DEF TSetInv, CoverageInv
  <2>3. Issued = tset
    BY <2>1 DEF Issued
  <2>4. ~Awaiting(d, w)
    BY <2>1, <2>2 DEF Awaiting, Busy, Copying
  <2> QED
    BY <2>3, <2>4 DEF TSetInv, CoverageInv
<1> QED
  BY <1>1, TypeCorrect, TSetCorrect, PTL
----------------------------------------------------------------------------
(***************************************************************************)
(* The generator implements PostingLists.                                  *)
(***************************************************************************)

PostsOf(set) == {[word |-> f.word, index |-> f.index, id |-> f.id] :
                    f \in {g \in set : ~g.last}}
EndsOf(set) == {[word |-> f.word, index |-> f.index] :
                    f \in {g \in set : g.last}}

\* Sending a posting with a fresh number and document, while its word has no
\* end marker, is a Post of the abstract lists.
LEMMA PostRefines ==
    ASSUME TypeOK, NEW f \in Fragment, ~f.last, tset' = tset \cup {f},
           \A g \in tset : g.word = f.word =>
               ~g.last /\ g.index # f.index /\ g.id # f.id
    PROVE  PL!Post
<1> DEFINE p == [word |-> f.word, index |-> f.index, id |-> f.id]
<1>1. PostsOf(tset') = PostsOf(tset) \cup {p}
  BY DEF PostsOf
<1>2. \A q \in PostsOf(tset) : q.word = p.word => q.index # p.index /\ q.id # p.id
  BY DEF PostsOf
<1>3. p \in PostsOf(tset') \ PostsOf(tset)
  BY <1>1, <1>2
<1>4. p \in PL!Posting
  BY DEF PL!Posting, Fragment
<1>5. \A e \in EndsOf(tset) : e.word # p.word
  BY DEF EndsOf
<1>6. EndsOf(tset') = EndsOf(tset)
  BY DEF EndsOf
<1> QED
  BY <1>1, <1>2, <1>3, <1>4, <1>5, <1>6 DEF PL!Post, PL!Closed, PostsOf, EndsOf

\* Sending the first end marker of a word, beyond its postings, is a Close.
LEMMA CloseRefines ==
    ASSUME TypeOK, NEW f \in Fragment, f.last, tset' = tset \cup {f},
           \A g \in tset : g.word = f.word => ~g.last /\ g.index < f.index
    PROVE  PL!Close
<1> DEFINE e == [word |-> f.word, index |-> f.index]
<1>1. EndsOf(tset') = EndsOf(tset) \cup {e}
  BY DEF EndsOf
<1>2. \A d \in EndsOf(tset) : d.word # e.word
  BY DEF EndsOf
<1>3. e \in EndsOf(tset') \ EndsOf(tset)
  BY <1>1, <1>2
<1>4. e \in PL!Marker
  BY DEF PL!Marker, Fragment
<1>5. \A p \in PostsOf(tset) : p.word = e.word => p.index < e.index
  BY DEF PostsOf
<1>6. PostsOf(tset') = PostsOf(tset)
  BY DEF PostsOf
<1> QED
  BY <1>1, <1>2, <1>3, <1>4, <1>5, <1>6 DEF PL!Close, PL!Closed, PostsOf, EndsOf

\* A Send of a tSetWorker posts or, if it fails, changes nothing.
LEMMA TSendRefines ==
    ASSUME TypeOK, TSetInv, NEW t \in Workers, TSend(t)
    PROVE  PL!Post \/ UNCHANGED tset
<1>1. CASE tset' = tset \cup {tFrag[t]}
  <2>1. tFrag[t] \in Fragment /\ tPc[t] = "send"
    BY DEF TSend, TypeOK
  <2>2. tFrag[t] \in Issued
    BY <2>1 DEF Issued
  <2>3. tPc[t] # "done" /\ jPc = "wait"
    BY <2>1 DEF TSetInv, NumberingInv
  <2>4. \A g \in Issued : ~g.last
    BY <2>3 DEF TSetInv, NumberingInv
  <2>5. CASE tFrag[t] \in tset
    BY <1>1, <2>5
  <2>6. CASE tFrag[t] \notin tset
    <3>1. ASSUME NEW g \in tset, g.word = tFrag[t].word
          PROVE  ~g.last /\ g.index # tFrag[t].index /\ g.id # tFrag[t].id
      <4>1. g \in Issued /\ g # tFrag[t]
        BY <2>6 DEF Issued
      <4>2. g.index # tFrag[t].index
        BY <2>2, <3>1, <4>1 DEF TSetInv, NumberingInv
      <4>3. g.id # tFrag[t].id
        BY <2>2, <2>4, <3>1, <4>1 DEF TSetInv, OwnershipInv
      <4> QED
        BY <2>4, <4>1, <4>2, <4>3
    <3> QED
      BY <1>1, <2>1, <2>2, <2>4, <3>1, PostRefines
  <2> QED
    BY <2>5, <2>6
<1>2. CASE tset' = tset
  BY <1>2
<1> QED
  BY <1>1, <1>2 DEF TSend

\* A Send of the janitor closes a list or, if it fails, changes nothing.
LEMMA JMarkRefines ==
    ASSUME TypeOK, TSetInv, NEW w \in Words, JMark(w)
    PROVE  PL!Close \/ UNCHANGED tset
<1> DEFINE f == TsetTuple(<<>>, w, counter[w].count + 1, counter[w].lastId, TRUE)
<1>1. CASE tset' = tset \cup {f}
  <2>1. counter[w].count \in Nat /\ counter[w].lastId \in Docs /\ w \in jTodo
    BY DEF JMark, TypeOK
  <2>2. f \in Fragment /\ f.last /\ f.word = w /\ f.index = counter[w].count + 1
    BY <2>1 DEF TsetTuple, Fragment
  <2> HIDE DEF f
  <2>3. ASSUME NEW g \in tset, g.word = w
        PROVE  ~g.last /\ g.index < f.index
    <3>1. g \in Issued /\ g.index \in Nat
      BY FragmentType, IssuedType DEF Issued
    <3>2. ~g.last /\ g.index <= counter[w].count
      BY <2>1, <2>3, <3>1 DEF TSetInv, NumberingInv
    <3> QED
      BY <2>1, <2>2, <3>1, <3>2
  <2> QED
    BY <1>1, <2>2, <2>3, CloseRefines
<1>2. CASE tset' = tset
  BY <1>2
<1> QED
  BY <1>1, <1>2 DEF JMark

\* What the generator sends builds posting lists: for every corpus, number of
\* workers, failures and Stop, each step is a Post, a Close or leaves the
\* lists alone.
THEOREM PostingListsRefined == Spec => ImplementsPostingLists
<1>1. Init => PL!Init
  BY DEF Init, PL!Init
<1>2. TypeOK /\ TSetInv /\ [Next]_vars =>
          [PL!Next]_<<PostsOf(tset), EndsOf(tset)>>
  <2> SUFFICES ASSUME TypeOK, TSetInv, [Next]_vars
               PROVE  PL!Post \/ PL!Close \/ UNCHANGED tset
    BY DEF PL!Next, PostsOf, EndsOf
  <2>1. CASE \E t \in Workers : TSend(t)
    BY <2>1, TSendRefines
  <2>2. CASE \E w \in Words : JMark(w)
    BY <2>2, JMarkRefines
  <2>3. CASE Splitter \/ Closer \/ BloomXSetInit \/ Streamer
    BY <2>3 DEF Splitter, SplitterRecv, SplitterEnd, SplitterSendX, SplitterSendT,
       Closer, CloserSeesZero, CloserCloses, BloomXSetInit, Streamer,
       StreamerStart, StreamerQueue, StreamerEnd
  <2>4. CASE \E x \in Workers : XWorker(x)
    BY <2>4 DEF XWorker, XCompute, XEnd
  <2>5. CASE \E d \in Docs : Sender(d)
    BY <2>5 DEF Sender, SenderSend, SenderPanics, SenderDone, Panic
  <2>6. CASE \E t \in Workers : \/ TOpen(t) \/ TDocDone(t) \/ TEnd(t) \/ TPanics(t)
                                \/ \E w \in Words : TIndexWord(t, w)
    BY <2>6 DEF TOpen, TDocDone, TEnd, TPanics, TIndexWord, Panic
  <2>7. CASE JWait \/ JOpen \/ JEnd \/ JPanics
    BY <2>7 DEF JWait, JOpen, JEnd, JPanics, Panic
  <2>8. CASE Stop \/ StopReturn \/ HandleErrors \/ UNCHANGED vars
    BY <2>8 DEF Stop, StopReturn, HandleErrors, Panic, vars
  <2> QED
    BY <2>1, <2>2, <2>3, <2>4, <2>5, <2>6, <2>7, <2>8
       DEF Next, TWorker, Janitor, Terminated
<1> QED
  BY <1>1, <1>2, TypeCorrect, TSetCorrect, PTL
     DEF Spec, ImplementsPostingLists, PL!Spec, PostsOf, EndsOf
----------------------------------------------------------------------------
(***************************************************************************)
(* The xTags, of a generator with one xSetWorker, as numWorkers has it     *)
(* unless it is set. With two workers the property is false.               *)
(***************************************************************************)
OneWorker == \E x : Workers = {x}

\* Documents whose xTags a goroutine has still to send, or to count as sent.
Sending == {d \in Docs : sender[d] \in {"wait", "sent"}}

\* A document is in one place until its xTags are computed, once, one for each
\* of its words.
XLineInv(x) ==
    /\ \A d \in Docs : sender[d] = "none" <=>
          \/ d \in unsent
          \/ splPc = "sendX" /\ splDoc = d
          \/ xPc[x] = "tags" /\ xDoc[x] = d
    /\ splPc = "sendX" => splDoc \notin unsent
    /\ xPc[x] = "tags" => xDoc[x] \notin unsent /\ (splPc = "sendX" => splDoc # xDoc[x])
    /\ \A d \in Docs : sender[d] # "none" => Cardinality(xtags[d]) = Cardinality(DocWords[d])
    /\ splPc = "done" => quit \/ unsent = {}

\* pendingXSends counts what is being sent; when it is found to be 0 there is
\* nothing more to send, as the only worker has left before.
XCloseInv(x) ==
    /\ pending = Cardinality(Sending)
    /\ xPc[x] = "done" => quit \/ splPc = "done"
    /\ closer # "none" => xPc[x] = "done"
    /\ closer \in {"closing", "closed"} => Sending = {}
    /\ \A d \in Docs : sender[d] \in {"sent", "done"} =>
          d \in queued \/ (strPc = "queue" /\ strDoc = d)
    /\ strPc = "done" => quit \/ closer = "closed"

\* A document has as many xTags as words, the i-th being made of i words.
LEMMA XTagsCount ==
    ASSUME NEW d \in Docs, NEW fresh \in BOOLEAN, NEW order \in SetToSeqs(DocWords[d])
    PROVE  Cardinality(XTagsOf(order, d, fresh)) = Cardinality(DocWords[d])
<1> DEFINE n == Cardinality(DocWords[d])
           X(i) == [wtag |-> SubSeq(order, 1, i),
                    xind |-> (IF fresh THEN <<0>> ELSE <<>>) \o [j \in 1 .. i |-> d]]
           f == [i \in 1 .. n |-> X(i)]
           T == XTagsOf(order, d, fresh)
<1>1. n \in Nat
  <2>1. DocWords[d] \subseteq Words
    BY DocWordsAssumption
  <2> QED
    BY <2>1, WordsAssumption, FS_Subset, FS_CardinalityType
<1>2. order \in Seq(DocWords[d]) /\ Len(order) = n
  <2>1. order \in [1 .. n -> DocWords[d]]
    BY DEF SetToSeqs
  <2> QED
    BY <1>1, <2>1
<1>3. \A i \in 1 .. n : Len(SubSeq(order, 1, i)) = i
  BY <1>1, <1>2
<1>4. \A i \in 1 .. n : X(i).wtag = SubSeq(order, 1, i)
  OBVIOUS
<1>5. T = {X(i) : i \in 1 .. n}
  BY <1>2 DEF XTagsOf
<1> HIDE DEF X, n, T
<1>6. \A i, j \in 1 .. n : X(i) = X(j) => i = j
  BY <1>3, <1>4
<1>7. f \in Bijection(1 .. n, T)
  <2>1. f \in [1 .. n -> T] /\ \A i \in 1 .. n : f[i] = X(i)
    BY <1>5
  <2>2. \A t \in T : \E i \in 1 .. n : f[i] = t
    BY <1>5, <2>1
  <2>3. \A i, j \in 1 .. n : f[i] = f[j] => i = j
    BY <1>6, <2>1
  <2> HIDE DEF f
  <2> QED
    BY <2>1, <2>2, <2>3 DEF Bijection, Injection, Surjection, IsInjective
<1>8. IsFiniteSet(1 .. n) /\ Cardinality(1 .. n) = n
  BY <1>1, FS_Interval
<1>9. ExistsBijection(1 .. n, T)
  BY <1>7 DEF ExistsBijection
<1> QED
  BY <1>8, <1>9, FS_Bijection DEF n, T

LEMMA SendingFinite == IsFiniteSet(Sending) /\ Cardinality(Sending) \in Nat
BY DocsAssumption, FS_Subset, FS_CardinalityType DEF Sending

\* What the xTag invariant reads, except for quit.
xtagState == <<splVars, xVars, sndVars, strPc, strDoc, queued>>

LEMMA XTagFrame ==
    ASSUME NEW x, XLineInv(x), XCloseInv(x), UNCHANGED xtagState, quit => quit'
    PROVE  XLineInv(x)' /\ XCloseInv(x)'
<1> USE DEF xtagState, splVars, xVars, sndVars
<1>1. Sending' = Sending
  BY DEF Sending
<1> QED
  BY <1>1 DEF XLineInv, XCloseInv

LEMMA XTagInit == ASSUME NEW x \in Workers, Init PROVE XLineInv(x) /\ XCloseInv(x)
<1>1. Sending = {}
  BY DEF Init, Sending
<1> QED
  BY <1>1, FS_EmptySet DEF Init, XLineInv, XCloseInv

\* chanSplitter.
LEMMA SplitterXTag ==
    ASSUME TypeOK, NEW x \in Workers, Workers = {x}, XLineInv(x), XCloseInv(x), Splitter
    PROVE  XLineInv(x)' /\ XCloseInv(x)'
<1> USE DEF xVars, sndVars, strVars
<1>1. UNCHANGED <<sndVars, strVars, stopPc>> /\ quit' = quit
  BY DEF Splitter, SplitterRecv, SplitterEnd, SplitterSendX, SplitterSendT, quit
<1>2. Sending' = Sending
  BY <1>1 DEF Sending
<1>3. splPc # "done" /\ splPc' \in {"recv", "sendX", "sendT", "done"}
  BY DEF Splitter, SplitterRecv, SplitterEnd, SplitterSendX, SplitterSendT
<1>4. (xPc'[x] = "done" <=> xPc[x] = "done") /\ xtags' = xtags
  BY DEF Splitter, SplitterRecv, SplitterEnd, SplitterSendX, SplitterSendT, TypeOK
<1>5. XCloseInv(x)'
  BY <1>1, <1>2, <1>3, <1>4 DEF XCloseInv
<1>6. ASSUME NEW d \in Docs, SplitterRecv(d) PROVE XLineInv(x)'
  BY <1>6 DEF SplitterRecv, XLineInv, quit
<1>7. CASE SplitterEnd
  BY <1>5, <1>7 DEF SplitterEnd, XLineInv, quit
<1>8. CASE SplitterSendX(x)
  BY <1>5, <1>8 DEF SplitterSendX, XLineInv, TypeOK
<1>9. CASE SplitterSendT(x)
  BY <1>5, <1>9 DEF SplitterSendT, XLineInv
<1> QED
  BY <1>5, <1>6, <1>7, <1>8, <1>9 DEF Splitter

\* The xSetWorker.
LEMMA XWorkerXTag ==
    ASSUME TypeOK, NEW x \in Workers, XLineInv(x), XCloseInv(x), XWorker(x)
    PROVE  XLineInv(x)' /\ XCloseInv(x)'
<1> USE DEF splVars, strVars
<1>1. CASE XCompute(x)
  <2>1. PICK d \in Docs : d = xDoc[x]
    BY <1>1 DEF XCompute, TypeOK
  <2>2. /\ xPc[x] = "tags" /\ xPc' = [xPc EXCEPT ![x] = "recv"] /\ pending' = pending + 1
        /\ sender' = [sender EXCEPT ![d] = "wait"] /\ UNCHANGED <<splVars, closer, strVars, stopPc>>
    BY <1>1, <2>1 DEF XCompute
  <2>3. PICK order \in SetToSeqs(DocWords[d]) :
              xtags' = [xtags EXCEPT ![d] = XTagsOf(order, d, xFresh[x])]
    BY <1>1, <2>1 DEF XCompute
  <2>4. \A e \in Docs : xtags'[e] = IF e = d THEN XTagsOf(order, d, xFresh[x]) ELSE xtags[e]
    BY <2>3 DEF TypeOK
  <2>5. \A e \in Docs : sender'[e] = IF e = d THEN "wait" ELSE sender[e]
    BY <2>2 DEF TypeOK
  <2>6. Cardinality(XTagsOf(order, d, xFresh[x])) = Cardinality(DocWords[d])
    BY XTagsCount DEF TypeOK
  <2>7. sender[d] = "none" /\ xPc'[x] = "recv" /\ xPc[x] # "done"
    BY <2>1, <2>2 DEF XLineInv, TypeOK
  <2>8. XLineInv(x)'
    BY <2>1, <2>2, <2>4, <2>5, <2>6, <2>7 DEF XLineInv, quit
  <2>9. Sending' = Sending \cup {d} /\ d \notin Sending
    BY <2>5, <2>7 DEF Sending
  <2>10. pending' = Cardinality(Sending')
    <3>1. Cardinality(Sending \cup {d}) = Cardinality(Sending) + 1
      BY <2>9, SendingFinite, FS_AddElement
    <3>2. Cardinality(Sending') = Cardinality(Sending \cup {d})
      BY <2>9, Zenon
    <3> QED
      BY <2>2, <3>1, <3>2 DEF XCloseInv
  <2>11. closer = "none"
    BY <2>7 DEF XCloseInv, TypeOK
  <2> QED
    BY <2>2, <2>5, <2>7, <2>8, <2>10, <2>11 DEF XCloseInv, quit
<1>2. CASE XEnd(x)
  <2>1. /\ xPc[x] = "recv" /\ (splPc = "done" \/ quit) /\ xPc'[x] = "done"
        /\ closer' = (IF closer = "none" THEN "spin" ELSE closer)
        /\ UNCHANGED <<splVars, xDoc, xtags, sender, pending, strVars, stopPc>>
    BY <1>2 DEF XEnd, TypeOK
  <2>2. Sending' = Sending
    BY <2>1 DEF Sending
  <2> QED
    BY <2>1, <2>2 DEF XLineInv, XCloseInv, quit
<1> QED
  BY <1>1, <1>2 DEF XWorker

\* The goroutines that send xTags.
LEMMA SenderXTag ==
    ASSUME TypeOK, NEW x \in Workers, XLineInv(x), XCloseInv(x), NEW d \in Docs, Sender(d)
    PROVE  XLineInv(x)' /\ XCloseInv(x)'
<1> USE DEF splVars, xVars
<1>1. CASE SenderSend(d)
  <2>1. /\ sender[d] = "wait" /\ sender' = [sender EXCEPT ![d] = "sent"] /\ strPc = "recv"
        /\ strPc' = "queue" /\ strDoc' = d
        /\ UNCHANGED <<splVars, xVars, pending, closer, queued, stopPc>>
    BY <1>1 DEF SenderSend
  <2>2. \A e \in Docs : sender'[e] = IF e = d THEN "sent" ELSE sender[e]
    BY <2>1 DEF TypeOK
  <2>3. Sending' = Sending
    BY <2>1, <2>2 DEF Sending
  <2>4. XLineInv(x)'
    BY <2>1, <2>2 DEF XLineInv, quit
  <2>5. XCloseInv(x)'
    BY <2>1, <2>2, <2>3 DEF XCloseInv, quit
  <2> QED
    BY <2>4, <2>5
<1>2. CASE SenderDone(d)
  <2>1. /\ sender[d] = "sent" /\ sender' = [sender EXCEPT ![d] = "done"] /\ pending' = pending - 1
        /\ UNCHANGED <<splVars, xVars, closer, strVars, stopPc>>
    BY <1>2 DEF SenderDone
  <2>2. \A e \in Docs : sender'[e] = IF e = d THEN "done" ELSE sender[e]
    BY <2>1 DEF TypeOK
  <2>3. Sending' = Sending \ {d} /\ d \in Sending
    BY <2>1, <2>2 DEF Sending
  <2>4. XLineInv(x)'
    BY <2>1, <2>2 DEF XLineInv, quit
  <2>5. pending' = Cardinality(Sending')
    <3>1. Cardinality(Sending \ {d}) = Cardinality(Sending) - 1
      BY <2>3, SendingFinite, FS_RemoveElement
    <3>2. Cardinality(Sending') = Cardinality(Sending \ {d})
      BY <2>3, Zenon
    <3> QED
      BY <2>1, <3>1, <3>2 DEF XCloseInv
  <2>6. XCloseInv(x)'
    BY <2>1, <2>2, <2>3, <2>5 DEF XCloseInv, quit, strVars
  <2> QED
    BY <2>4, <2>6
<1>3. CASE SenderPanics(d)
  BY <1>3, XTagFrame DEF SenderPanics, Panic, xtagState, strVars, quit
<1> QED
  BY <1>1, <1>2, <1>3 DEF Sender

\* The goroutine that closes finishedXtags, and bloomStreamer.
LEMMA StreamerXTag ==
    ASSUME TypeOK, NEW x \in Workers, XLineInv(x), XCloseInv(x), Closer \/ Streamer
    PROVE  XLineInv(x)' /\ XCloseInv(x)'
<1> USE DEF splVars, xVars, sndVars, strVars
<1>1. UNCHANGED <<splVars, xVars, sender, pending, stopPc>>
  BY DEF Closer, CloserSeesZero, CloserCloses, Streamer, StreamerStart, StreamerQueue, StreamerEnd
<1>2. Sending' = Sending
  BY <1>1 DEF Sending
<1>3. XLineInv(x)'
  BY <1>1 DEF XLineInv, quit
<1>4. CASE Closer
  <2>1. CloserSeesZero => Sending = {}
    BY SendingFinite, FS_EmptySet DEF CloserSeesZero, XCloseInv
  <2> QED
    BY <1>1, <1>2, <1>3, <1>4, <2>1 DEF Closer, CloserSeesZero, CloserCloses, XCloseInv, quit
<1>5. CASE Streamer
  BY <1>1, <1>2, <1>3, <1>5 DEF Streamer, StreamerStart, StreamerQueue, StreamerEnd, XCloseInv, quit
<1> QED
  BY <1>4, <1>5

LEMMA XTagStep ==
    ASSUME TypeOK, NEW x \in Workers, Workers = {x}, XLineInv(x), XCloseInv(x), [Next]_vars
    PROVE  XLineInv(x)' /\ XCloseInv(x)'
<1>1. CASE Splitter
  BY <1>1, SplitterXTag
<1>2. CASE \E u \in Workers : XWorker(u)
  BY <1>2, XWorkerXTag
<1>3. CASE \E d \in Docs : Sender(d)
  BY <1>3, SenderXTag
<1>4. CASE Closer \/ Streamer
  BY <1>4, StreamerXTag
<1> USE DEF splVars, xVars, sndVars, strVars, xtagState
<1>5. CASE Janitor \/ \E t \in Workers : TWorker(t)
  <2>1. CASE JPanics \/ \E t \in Workers : TPanics(t)
    BY <2>1, XTagFrame DEF JPanics, TPanics, Panic, quit
  <2>2. CASE \E t \in Workers : TOpen(t) \/ TSend(t) \/ TDocDone(t) \/ TEnd(t)
    BY <2>2, XTagFrame DEF TOpen, TSend, TDocDone, TEnd, quit
  <2>3. CASE \E t \in Workers, w \in Words : TIndexWord(t, w)
    BY <2>3, XTagFrame DEF TIndexWord, quit
  <2>4. CASE JWait \/ JOpen \/ JEnd \/ \E w \in Words : JMark(w)
    BY <2>4, XTagFrame DEF JWait, JOpen, JEnd, JMark, quit
  <2> QED
    BY <1>5, <2>1, <2>2, <2>3, <2>4 DEF TWorker, Janitor
<1>6. CASE BloomXSetInit
  BY <1>6, XTagFrame DEF BloomXSetInit, quit
<1>7. CASE HandleErrors
  BY <1>7, XTagFrame DEF HandleErrors, Panic, quit
<1>8. CASE Stop \/ StopReturn
  BY <1>8, XTagFrame DEF Stop, StopReturn, quit
<1>9. CASE UNCHANGED vars
  BY <1>9, XTagFrame DEF vars, quit
<1> QED
  BY <1>1, <1>2, <1>3, <1>4, <1>5, <1>6, <1>7, <1>8, <1>9 DEF Next, Terminated

\* With one xSetWorker the xTags of every document, one for each of its words,
\* are queued at the bloom master when bloomStreamer ends, unless Stop was called.
THEOREM AllXTagsQueued == OneWorker => (Spec => []XTagsAllQueued)
<1>1. SUFFICES ASSUME NEW x, Workers = {x} PROVE Spec => []XTagsAllQueued
  BY DEF OneWorker
<1> DEFINE I == XLineInv(x) /\ XCloseInv(x)
<1>2. x \in Workers
  BY <1>1
<1>3. Init => I
  BY <1>2, XTagInit
<1>4. TypeOK /\ I /\ [Next]_vars => I'
  BY <1>1, <1>2, XTagStep
<1>5. TypeOK /\ I => XTagsAllQueued
  <2>1. SUFFICES ASSUME TypeOK, I, strPc = "done", ~quit
                 PROVE  /\ queued = Docs
                        /\ \A d \in Docs : Cardinality(xtags[d]) = Cardinality(DocWords[d])
    BY DEF XTagsAllQueued
  <2>2. closer = "closed" /\ xPc[x] = "done" /\ splPc = "done" /\ unsent = {} /\ Sending = {}
    BY <2>1 DEF XLineInv, XCloseInv
  <2>3. \A d \in Docs : sender[d] = "done"
    BY <2>1, <2>2 DEF XLineInv, Sending, TypeOK
  <2> QED
    BY <2>1, <2>3 DEF XLineInv, XCloseInv, TypeOK
<1> HIDE DEF I
<1> QED
  BY <1>3, <1>4, <1>5, TypeCorrect, PTL DEF Spec
=============================================================================
