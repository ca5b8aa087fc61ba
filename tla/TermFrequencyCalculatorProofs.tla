------------------- MODULE TermFrequencyCalculatorProofs -------------------
(***************************************************************************)
(* Proofs about TermFrequencyCalculator: no shuffler is left with a pair   *)
(* whose reducer has gone, and the bucket sizes are those of the corpus.   *)
(***************************************************************************)
EXTENDS TermFrequencyCalculator, FiniteSetTheorems, TLAPS

(***************************************************************************)
(* The invariant                                                           *)
(***************************************************************************)
TypeOK ==
    /\ unsent \in SUBSET Docs
    /\ mPc \in [Mappers -> {"none", "recv", "send", "done"}]
    /\ mDoc \in [Mappers -> SUBSET Docs]
    /\ termClosed \in BOOLEAN /\ reducerQuit \in BOOLEAN
    /\ sPc \in [Reducers -> {"recv", "pairs", "check", "done"}]
    /\ sPairs \in [Reducers -> SUBSET [word : Words, tf : Nat]]
    /\ rPc \in [Reducers -> {"recv", "send", "done"}]
    /\ subSet \in [Reducers -> [Words -> Nat]]
    /\ sizes \in [Buckets -> Nat]
    /\ iPc \in {"recv", "done"}

\* The shufflers that still hold a token, and the reducers still to report.
Shuffling == {s \in Reducers : sPc[s] \in {"recv", "pairs"}}
Reporting == {r \in Reducers : rPc[r] # "done"}

\* Each stage ends only when the one before it has: the documents run out,
\* TermFreq is closed, every shuffler leaves, reducerQuit is closed, every
\* reducer reports, and the initializer leaves.
StagesInv ==
    /\ \A m \in Mappers : mPc[m] # "send" => mDoc[m] = {}
    /\ termClosed => unsent = {}
    /\ \A s \in Reducers : sPc[s] # "pairs" => sPairs[s] = {}
    /\ \A s \in Reducers : sPc[s] \in {"check", "done"} => termClosed
    /\ tokens = Cardinality(Shuffling)
    /\ reducerQuit => Shuffling = {}
    /\ \A r \in Reducers : rPc[r] # "recv" => reducerQuit
    /\ sem = Cardinality(Reporting)
    /\ iPc = "done" => Reporting = {}

\* What the reducer of a word has counted.
CountOf(w) == subSet[HashOf[w]][w]

\* Words that have been reported in a bucket.
Reported(k) == {w \in Words : /\ rPc[HashOf[w]] = "done"
                              /\ CountOf(w) > 0 /\ InBucket(k, CountOf(w))}

\* No reducer counts another one's words, and sizes adds up the reports.
SizesInv ==
    /\ \A r \in Reducers, w \in Words : r # HashOf[w] => subSet[r][w] = 0
    /\ \A k \in Buckets : sizes[k] = Cardinality(Reported(k))

\* Where a document is that has not been counted yet: it waits before the
\* shufflers, or the shuffler whose map was built from it still has the pair.
Waiting == unsent \cup UNION {mDoc[m] : m \in Mappers}
PairOf(d, w) == [word |-> w, tf |-> Count[d][w]]
Pending(src, w) ==
    {d \in Docs : \E s \in Reducers : d \in src[s] /\ PairOf(d, w) \in sPairs[s]}
Counted(src, w) == Docs \ (Waiting \cup Pending(src, w))

\* No document is in two places.
Apart(src) ==
    /\ \A m \in Mappers : mDoc[m] \cap unsent = {}
    /\ \A m, n \in Mappers : m # n => mDoc[m] \cap mDoc[n] = {}
    /\ \A s \in Reducers : src[s] \cap unsent = {}
    /\ \A s \in Reducers, m \in Mappers : src[s] \cap mDoc[m] = {}
    /\ \A s, t \in Reducers : s # t => src[s] \cap src[t] = {}

\* The pairs a shuffler holds are of the one document its map was built from.
Sources(src) ==
    /\ src \in [Reducers -> SUBSET Docs]
    /\ \A m \in Mappers : \A d, e \in mDoc[m] : d = e
    /\ \A s \in Reducers : \A d, e \in src[s] : d = e
    /\ \A s \in Reducers : \A p \in sPairs[s] : \E d \in src[s] : p = PairOf(d, p.word)

\* A reducer's count is the number of occurrences in the documents counted.
Sums(src) ==
    \A w \in Words :
        /\ IsFiniteSet(Occurrences(Counted(src, w), w))
        /\ CountOf(w) = Cardinality(Occurrences(Counted(src, w), w))

CountInv == \E src \in [Reducers -> SUBSET Docs] : Apart(src) /\ Sources(src) /\ Sums(src)

IInv == TypeOK /\ StagesInv /\ SizesInv /\ CountInv
----------------------------------------------------------------------------
(***************************************************************************)
(* Types                                                                   *)
(***************************************************************************)

\* The pairs of a document are typed.
LEMMA PairsType == \A d \in Docs : Pairs(d) \subseteq [word : Words, tf : Nat]
BY CountAssumption DEF Pairs

\* A bucket size is a number of words.
LEMMA BucketSizesType ==
    ASSUME NEW counts \in [Words -> Nat]
    PROVE  BucketSizes(counts) \in [Buckets -> Nat]
<1> SUFFICES ASSUME NEW k \in Buckets
             PROVE  Cardinality({w \in Words : counts[w] > 0 /\ InBucket(k, counts[w])}) \in Nat
  BY DEF BucketSizes
<1> QED
  BY FiniteAssumption, FS_Subset, FS_CardinalityType

LEMMA InitTypeOK == Init => TypeOK
<1> SUFFICES ASSUME Init PROVE TypeOK
  OBVIOUS
<1>1. mPc \in [Mappers -> {"none", "recv", "send", "done"}]
  <2>1. PICK started \in (SUBSET Mappers) \ {{}} :
            mPc = [m \in Mappers |-> IF m \in started THEN "recv" ELSE "none"]
    BY DEF Init
  <2> QED
    BY <2>1
<1>2. mDoc \in [Mappers -> SUBSET Docs]
  BY DEF Init
<1>3. /\ sPc \in [Reducers -> {"recv", "pairs", "check", "done"}]
      /\ rPc \in [Reducers -> {"recv", "send", "done"}]
  BY DEF Init
<1>4. sPairs \in [Reducers -> SUBSET [word : Words, tf : Nat]]
  BY DEF Init
<1>5. subSet \in [Reducers -> [Words -> Nat]]
  BY DEF Init
<1>6. sizes \in [Buckets -> Nat]
  BY DEF Init
<1> QED
  BY <1>1, <1>2, <1>3, <1>4, <1>5, <1>6 DEF Init, TypeOK

LEMMA NextTypeOK == TypeOK /\ [Next]_vars => TypeOK'
<1> SUFFICES ASSUME TypeOK, [Next]_vars PROVE TypeOK'
  OBVIOUS
<1> USE DEF TypeOK
<1>1. ASSUME NEW m \in Mappers, NEW d \in Docs, MapRecv(m, d) PROVE TypeOK'
  BY <1>1 DEF MapRecv, shufVars, redVars, initVars, popVars
<1>2. ASSUME NEW m \in Mappers, NEW s \in Reducers, MapSend(m, s) PROVE TypeOK'
  <2>1. UNION {Pairs(d) : d \in mDoc[m]} \subseteq [word : Words, tf : Nat]
    BY PairsType
  <2>2. sPairs' \in [Reducers -> SUBSET [word : Words, tf : Nat]]
    BY <1>2, <2>1 DEF MapSend
  <2> QED
    BY <1>2, <2>2 DEF MapSend, redVars, initVars, popVars
<1>3. ASSUME NEW m \in Mappers, MapPanics(m) PROVE TypeOK'
  BY <1>3 DEF MapPanics, mapVars, shufVars, redVars, initVars, popVars
<1>4. ASSUME NEW m \in Mappers, MapEnd(m) PROVE TypeOK'
  BY <1>4 DEF MapEnd, shufVars, redVars, initVars, popVars
<1>5. ASSUME NEW s \in Reducers, NEW p \in sPairs[s], ShuffleSend(s, p) PROVE TypeOK'
  <2>1. p.word \in Words /\ p.tf \in Nat /\ HashOf[p.word] \in Reducers
    BY HashAssumption
  <2>2. /\ sPairs' = [sPairs EXCEPT ![s] = @ \ {p}]
        /\ subSet' = [subSet EXCEPT ![HashOf[p.word]][p.word] = @ + p.tf]
    BY <1>5 DEF ShuffleSend
  <2>3. sPairs' \in [Reducers -> SUBSET [word : Words, tf : Nat]]
    BY <2>2
  <2>4. subSet' \in [Reducers -> [Words -> Nat]]
    BY <2>1, <2>2
  <2> QED
    BY <1>5, <2>3, <2>4 DEF ShuffleSend, mapVars, initVars, popVars
<1>6. ASSUME NEW s \in Reducers, ShuffleDocDone(s) PROVE TypeOK'
  BY <1>6 DEF ShuffleDocDone, mapVars, redVars, initVars, popVars
<1>7. ASSUME NEW s \in Reducers, ShuffleEnd(s) PROVE TypeOK'
  BY <1>7 DEF ShuffleEnd, mapVars, redVars, initVars, popVars
<1>8. ASSUME NEW s \in Reducers, ShuffleCheck(s) PROVE TypeOK'
  BY <1>8 DEF ShuffleCheck, mapVars, redVars, initVars, popVars
<1>9. ASSUME NEW r \in Reducers, ReduceQuit(r) PROVE TypeOK'
  BY <1>9 DEF ReduceQuit, mapVars, shufVars, initVars, popVars
<1>10. ASSUME NEW r \in Reducers, ReduceReport(r) PROVE TypeOK'
  <2>1. BucketSizes(subSet[r]) \in [Buckets -> Nat]
    BY BucketSizesType
  <2>2. sizes' \in [Buckets -> Nat]
    BY <1>10, <2>1 DEF ReduceReport
  <2> QED
    BY <1>10, <2>2 DEF ReduceReport, mapVars, shufVars, popVars
<1>11. CASE InitializerEnd
  BY <1>11 DEF InitializerEnd, mapVars, shufVars, redVars, popVars
<1>12. CASE BloomFreqInit
  BY <1>12 DEF BloomFreqInit, mapVars, shufVars, redVars, initVars
<1>13. CASE Populate
  BY <1>13 DEF Populate, mapVars, shufVars, redVars, initVars
<1>14. CASE UNCHANGED vars
  BY <1>14 DEF vars
<1> QED
  BY <1>1, <1>2, <1>3, <1>4, <1>5, <1>6, <1>7, <1>8, <1>9, <1>10, <1>11,
     <1>12, <1>13, <1>14 DEF Next, Mapper, Shuffler, Reducer, Terminated
----------------------------------------------------------------------------
(***************************************************************************)
(* The stages                                                              *)
(***************************************************************************)

LEMMA InitStagesInv == Init => StagesInv
<1> SUFFICES ASSUME Init PROVE StagesInv
  OBVIOUS
<1>1. Shuffling = Reducers /\ Reporting = Reducers
  BY DEF Init, Shuffling, Reporting
<1> QED
  BY <1>1 DEF Init, StagesInv

\* No reducer is left to report only if the count of them is zero.
LEMMA NoneLeft ==
    /\ \A S \in SUBSET Reducers : Cardinality(S) = 0 => S = {}
    /\ \A S \in SUBSET Reducers : \A r \in S : Cardinality(S \ {r}) = Cardinality(S) - 1
BY FiniteAssumption, FS_Subset, FS_EmptySet, FS_RemoveElement

\* frequencyWorker.
LEMMA MapperStages ==
    ASSUME TypeOK, StagesInv, NEW m \in Mappers, Mapper(m)
    PROVE  StagesInv'
<1> USE DEF TypeOK, StagesInv
<1>1. ASSUME NEW d \in Docs, MapRecv(m, d) PROVE StagesInv'
  <2>1. Shuffling' = Shuffling /\ Reporting' = Reporting
    BY <1>1 DEF MapRecv, shufVars, redVars, Shuffling, Reporting
  <2> QED
    BY <1>1, <2>1 DEF MapRecv, shufVars, redVars, initVars
<1>2. ASSUME NEW s \in Reducers, MapSend(m, s) PROVE StagesInv'
  <2>1. Shuffling' = Shuffling /\ Reporting' = Reporting
    BY <1>2 DEF MapSend, redVars, Shuffling, Reporting
  <2>2. \A t \in Reducers : t # s => sPc'[t] = sPc[t] /\ sPairs'[t] = sPairs[t]
    BY <1>2 DEF MapSend
  <2>3. sPc'[s] = "pairs" /\ ~termClosed
    BY <1>2 DEF MapSend
  <2> QED
    BY <1>2, <2>1, <2>2, <2>3 DEF MapSend, redVars, initVars
<1>3. CASE MapPanics(m)
  <2>1. Shuffling' = Shuffling /\ Reporting' = Reporting
    BY <1>3 DEF MapPanics, shufVars, redVars, Shuffling, Reporting
  <2> QED
    BY <1>3, <2>1 DEF MapPanics, mapVars, shufVars, redVars, initVars
<1>4. CASE MapEnd(m)
  <2>1. Shuffling' = Shuffling /\ Reporting' = Reporting
    BY <1>4 DEF MapEnd, shufVars, redVars, Shuffling, Reporting
  <2> QED
    BY <1>4, <2>1 DEF MapEnd, shufVars, redVars, initVars
<1> QED
  BY <1>1, <1>2, <1>3, <1>4 DEF Mapper

\* shuffler: the tokens count the shufflers that have not left, so the one that
\* finds none is the last.
LEMMA ShufflerStages ==
    ASSUME TypeOK, StagesInv, NEW s \in Reducers, Shuffler(s)
    PROVE  StagesInv'
<1> USE DEF TypeOK, StagesInv
<1>1. Reporting' = Reporting
  BY DEF Shuffler, ShuffleDocDone, ShuffleEnd, ShuffleCheck, ShuffleSend, redVars, Reporting
<1>2. ASSUME NEW p \in sPairs[s], ShuffleSend(s, p) PROVE StagesInv'
  <2>1. Shuffling' = Shuffling
    BY <1>2 DEF ShuffleSend, Shuffling
  <2>2. \A t \in Reducers : sPairs'[t] \subseteq sPairs[t]
    BY <1>2 DEF ShuffleSend
  <2> QED
    BY <1>1, <1>2, <2>1, <2>2 DEF ShuffleSend, mapVars, initVars
<1>3. CASE ShuffleDocDone(s)
  <2>1. Shuffling' = Shuffling
    BY <1>3 DEF ShuffleDocDone, Shuffling
  <2>2. \A t \in Reducers : t # s => sPc'[t] = sPc[t]
    BY <1>3 DEF ShuffleDocDone
  <2>3. sPc'[s] = "recv" /\ sPairs[s] = {}
    BY <1>3 DEF ShuffleDocDone
  <2> QED
    BY <1>1, <1>3, <2>1, <2>2, <2>3 DEF ShuffleDocDone, mapVars, redVars, initVars
<1>4. CASE ShuffleEnd(s)
  <2>1. s \in Shuffling /\ Shuffling' = Shuffling \ {s}
    BY <1>4 DEF ShuffleEnd, Shuffling
  <2>2. \A t \in Reducers : t # s => sPc'[t] = sPc[t]
    BY <1>4 DEF ShuffleEnd
  <2>3. sPc'[s] = "check" /\ termClosed /\ sPc[s] = "recv"
    BY <1>4 DEF ShuffleEnd
  <2>4. tokens' = Cardinality(Shuffling')
    BY <1>4, <2>1, NoneLeft DEF ShuffleEnd, Shuffling
  <2> QED
    BY <1>1, <1>4, <2>1, <2>2, <2>3, <2>4 DEF ShuffleEnd, mapVars, redVars, initVars
<1>5. CASE ShuffleCheck(s)
  <2>1. Shuffling' = Shuffling
    BY <1>5 DEF ShuffleCheck, Shuffling
  <2>2. \A t \in Reducers : t # s => sPc'[t] = sPc[t]
    BY <1>5 DEF ShuffleCheck
  <2>3. sPc'[s] = "done" /\ sPc[s] = "check"
    BY <1>5 DEF ShuffleCheck
  <2>4. reducerQuit' => Shuffling' = {}
    BY <1>5, <2>1, NoneLeft DEF ShuffleCheck, Shuffling
  <2>5. reducerQuit => reducerQuit'
    BY <1>5 DEF ShuffleCheck
  <2> QED
    BY <1>1, <1>5, <2>1, <2>2, <2>3, <2>4, <2>5 DEF ShuffleCheck, mapVars, redVars, initVars
<1> QED
  BY <1>2, <1>3, <1>4, <1>5 DEF Shuffler

\* reducer: sem counts those that have not reported.
LEMMA ReducerStages ==
    ASSUME TypeOK, StagesInv, NEW r \in Reducers, Reducer(r)
    PROVE  StagesInv'
<1> USE DEF TypeOK, StagesInv
<1>1. Shuffling' = Shuffling
  BY DEF Reducer, ReduceQuit, ReduceReport, shufVars, Shuffling
<1>2. CASE ReduceQuit(r)
  <2>1. Reporting' = Reporting
    BY <1>2 DEF ReduceQuit, Reporting
  <2>2. \A q \in Reducers : q # r => rPc'[q] = rPc[q]
    BY <1>2 DEF ReduceQuit
  <2> QED
    BY <1>1, <1>2, <2>1, <2>2 DEF ReduceQuit, mapVars, shufVars, initVars
<1>3. CASE ReduceReport(r)
  <2>1. r \in Reporting /\ Reporting' = Reporting \ {r}
    BY <1>3 DEF ReduceReport, Reporting
  <2>2. \A q \in Reducers : q # r => rPc'[q] = rPc[q]
    BY <1>3 DEF ReduceReport
  <2>3. sem' = Cardinality(Reporting')
    BY <1>3, <2>1, NoneLeft DEF ReduceReport, Reporting
  <2>4. rPc[r] = "send" /\ iPc' = "recv"
    BY <1>3 DEF ReduceReport
  <2> QED
    BY <1>1, <1>3, <2>1, <2>2, <2>3, <2>4 DEF ReduceReport, mapVars, shufVars
<1> QED
  BY <1>2, <1>3 DEF Reducer

LEMMA NextStagesInv == TypeOK /\ StagesInv /\ [Next]_vars => StagesInv'
<1> SUFFICES ASSUME TypeOK, StagesInv, [Next]_vars PROVE StagesInv'
  OBVIOUS
<1>1. CASE InitializerEnd
  <2>1. Shuffling' = Shuffling /\ Reporting' = Reporting /\ Reporting = {}
    BY <1>1, NoneLeft DEF InitializerEnd, shufVars, redVars, Shuffling, Reporting, StagesInv
  <2> QED
    BY <1>1, <2>1 DEF InitializerEnd, mapVars, shufVars, redVars, StagesInv
<1>2. CASE UNCHANGED <<mapVars, shufVars, redVars, initVars>>
  <2>1. Shuffling' = Shuffling /\ Reporting' = Reporting
    BY <1>2 DEF shufVars, redVars, Shuffling, Reporting
  <2> QED
    BY <1>2, <2>1 DEF mapVars, shufVars, redVars, initVars, StagesInv
<1>3. BloomFreqInit \/ Populate \/ UNCHANGED vars => UNCHANGED <<mapVars, shufVars, redVars, initVars>>
  BY DEF BloomFreqInit, Populate, vars, mapVars, shufVars, redVars, initVars
<1> QED
  BY <1>1, <1>2, <1>3, MapperStages, ShufflerStages, ReducerStages DEF Next, Terminated
----------------------------------------------------------------------------
(***************************************************************************)
(* The reported sizes                                                      *)
(***************************************************************************)

\* Numbers of words add up.
LEMMA AddWords ==
    ASSUME NEW S \in SUBSET Words, NEW T \in SUBSET Words, S \cap T = {}
    PROVE  Cardinality(S \cup T) = Cardinality(S) + Cardinality(T)
<1>1. IsFiniteSet(S) /\ IsFiniteSet(T)
  BY FiniteAssumption, FS_Subset
<1>2. Cardinality(S \cup T) = Cardinality(S) + Cardinality(T) - Cardinality(S \cap T)
  BY <1>1, FS_Union
<1>3. Cardinality(S \cap T) = 0
  BY FS_EmptySet
<1> QED
  BY <1>1, <1>2, <1>3, FS_CardinalityType

LEMMA InitSizesInv == Init => SizesInv
<1> SUFFICES ASSUME Init PROVE SizesInv
  OBVIOUS
<1>1. \A k \in Buckets : Reported(k) = {} /\ sizes[k] = 0
  BY HashAssumption DEF Init, Reported
<1>2. \A r \in Reducers, w \in Words : subSet[r][w] = 0
  BY DEF Init
<1> QED
  BY <1>1, <1>2, FS_EmptySet DEF SizesInv

\* A pair reaches the reducer of its word while that one has not reported.
LEMMA SendSizes ==
    ASSUME TypeOK, SizesInv, NEW s \in Reducers, NEW p \in sPairs[s], ShuffleSend(s, p)
    PROVE  SizesInv'
<1> DEFINE r == HashOf[p.word]
<1>1. p.word \in Words /\ p.tf \in Nat /\ r \in Reducers
  BY HashAssumption DEF TypeOK
<1>2. /\ rPc[r] = "recv" /\ rPc' = rPc /\ sizes' = sizes
      /\ subSet' = [subSet EXCEPT ![r][p.word] = @ + p.tf]
  BY DEF ShuffleSend, initVars
<1> HIDE DEF r
<1>3. \A q \in Reducers, w \in Words :
          q # r \/ w # p.word => subSet'[q][w] = subSet[q][w]
  BY <1>1, <1>2 DEF TypeOK
<1>4. \A q \in Reducers, w \in Words : q # HashOf[w] => subSet'[q][w] = 0
  <2> SUFFICES ASSUME NEW q \in Reducers, NEW w \in Words, q # HashOf[w]
               PROVE  q # r \/ w # p.word
    BY <1>3 DEF SizesInv
  <2> QED
    BY DEF r
<1>5. \A w \in Words : rPc[HashOf[w]] = "done" => CountOf(w)' = CountOf(w)
  BY <1>2, <1>3, HashAssumption DEF CountOf
<1>6. \A k \in Buckets : Reported(k)' = Reported(k)
  BY <1>2, <1>5 DEF Reported
<1> QED
  BY <1>2, <1>4, <1>6 DEF SizesInv

\* A report adds the words of one more reducer, which nobody else counted.
LEMMA ReportSizes ==
    ASSUME TypeOK, SizesInv, NEW r \in Reducers, ReduceReport(r)
    PROVE  SizesInv'
<1>1. /\ rPc[r] = "send" /\ rPc' = [rPc EXCEPT ![r] = "done"] /\ subSet' = subSet
      /\ sizes' = [k \in Buckets |-> sizes[k] + BucketSizes(subSet[r])[k]]
  BY DEF ReduceReport
<1>2. ASSUME NEW k \in Buckets PROVE sizes'[k] = Cardinality(Reported(k)')
  <2> DEFINE new == {w \in Words : subSet[r][w] > 0 /\ InBucket(k, subSet[r][w])}
  <2>1. \A w \in Words : subSet[r][w] > 0 => HashOf[w] = r
    BY DEF SizesInv
  <2>2. \A q \in Reducers : rPc'[q] = "done" <=> rPc[q] = "done" \/ q = r
    BY <1>1 DEF TypeOK
  <2>3. Reported(k)' = Reported(k) \cup new
    BY <1>1, <2>1, <2>2, HashAssumption DEF Reported, CountOf
  <2>4. Reported(k) \cap new = {}
    BY <1>1, <2>1 DEF Reported
  <2>5. Reported(k) \in SUBSET Words /\ new \in SUBSET Words
    BY DEF Reported
  <2>6. Cardinality(Reported(k)') = Cardinality(Reported(k)) + Cardinality(new)
    BY <2>3, <2>4, <2>5, AddWords
  <2>7. sizes'[k] = sizes[k] + Cardinality(new)
    BY <1>1 DEF BucketSizes
  <2> QED
    BY <2>6, <2>7 DEF SizesInv
<1> QED
  BY <1>1, <1>2 DEF SizesInv

LEMMA NextSizesInv == TypeOK /\ SizesInv /\ [Next]_vars => SizesInv'
<1> SUFFICES ASSUME TypeOK, SizesInv, [Next]_vars PROVE SizesInv'
  OBVIOUS
<1>1. CASE UNCHANGED <<subSet, sizes>> /\ \A r \in Reducers : rPc'[r] = "done" <=> rPc[r] = "done"
  <2>1. \A k \in Buckets : Reported(k)' = Reported(k)
    BY <1>1, HashAssumption DEF Reported, CountOf
  <2> QED
    BY <1>1, <2>1 DEF SizesInv
<1>2. ASSUME NEW m \in Mappers, Mapper(m) PROVE UNCHANGED <<subSet, sizes, rPc>>
  BY <1>2 DEF Mapper, MapRecv, MapSend, MapPanics, MapEnd, redVars, initVars
<1>3. ASSUME NEW s \in Reducers, ShuffleDocDone(s) \/ ShuffleEnd(s) \/ ShuffleCheck(s)
      PROVE  UNCHANGED <<subSet, sizes, rPc>>
  BY <1>3 DEF ShuffleDocDone, ShuffleEnd, ShuffleCheck, redVars, initVars
<1>4. ASSUME NEW r \in Reducers, ReduceQuit(r)
      PROVE  UNCHANGED <<subSet, sizes>> /\ \A q \in Reducers : rPc'[q] = "done" <=> rPc[q] = "done"
  BY <1>4 DEF ReduceQuit, initVars, TypeOK
<1>5. InitializerEnd \/ BloomFreqInit \/ Populate \/ UNCHANGED vars => UNCHANGED <<subSet, sizes, rPc>>
  BY DEF InitializerEnd, BloomFreqInit, Populate, vars, redVars, initVars
<1> QED
  BY <1>1, <1>2, <1>3, <1>4, <1>5, SendSizes, ReportSizes DEF Next, Shuffler, Reducer, Terminated
----------------------------------------------------------------------------
(***************************************************************************)
(* The counts                                                              *)
(***************************************************************************)

\* One more document adds its own occurrences of the word.
LEMMA OccurrencesAdd ==
    ASSUME NEW w \in Words, NEW D \in SUBSET Docs, NEW d \in Docs, d \notin D,
           IsFiniteSet(Occurrences(D, w))
    PROVE  /\ IsFiniteSet(Occurrences(D \cup {d}, w))
           /\ Cardinality(Occurrences(D \cup {d}, w)) =
                  Cardinality(Occurrences(D, w)) + Count[d][w]
<1> DEFINE own == {d} \X (1 .. Count[d][w])
<1>1. Count[d][w] \in Nat
  BY CountAssumption
<1>2. IsFiniteSet(own) /\ Cardinality(own) = Count[d][w]
  <2>1. IsFiniteSet({d}) /\ Cardinality({d}) = 1
    BY FS_Singleton
  <2>2. IsFiniteSet(1 .. Count[d][w]) /\ Cardinality(1 .. Count[d][w]) = Count[d][w]
    <3> DEFINE n == Count[d][w]
    <3> HIDE DEF n
    <3>1. n \in Nat
      BY <1>1 DEF n
    <3>2. IsFiniteSet(1 .. n) /\ Cardinality(1 .. n) = IF 1 > n THEN 0 ELSE n - 1 + 1
      BY <3>1, FS_Interval
    <3> QED
      BY <3>1, <3>2 DEF n
  <2>3. IsFiniteSet(own) /\ Cardinality(own) = 1 * Cardinality(1 .. Count[d][w])
    BY <2>1, <2>2, FS_Product
  <2> QED
    BY <1>1, <2>2, <2>3
<1>3. Occurrences(D \cup {d}, w) = Occurrences(D, w) \cup own
  BY DEF Occurrences
<1>4. Occurrences(D, w) \cap own = {}
  BY DEF Occurrences
<1> HIDE DEF own
<1>5. Cardinality(Occurrences(D, w) \cap own) = 0
  BY <1>4, FS_EmptySet
<1>6. Cardinality(Occurrences(D, w)) \in Nat
  BY FS_CardinalityType
<1>7. /\ IsFiniteSet(Occurrences(D, w) \cup own)
      /\ Cardinality(Occurrences(D, w) \cup own) =
             Cardinality(Occurrences(D, w)) + Cardinality(own)
                 - Cardinality(Occurrences(D, w) \cap own)
  BY <1>2, FS_Union
<1>8. Cardinality(Occurrences(D, w) \cup own) = Cardinality(Occurrences(D, w)) + Count[d][w]
  BY <1>1, <1>2, <1>5, <1>6, <1>7
<1> QED
  BY ONLY <1>3, <1>7, <1>8

\* Documents without the word add nothing.
LEMMA OccurrencesNone ==
    ASSUME NEW w \in Words, NEW D \in SUBSET Docs, NEW E \in SUBSET Docs, D \subseteq E,
           \A d \in E \ D : Count[d][w] = 0
    PROVE  Occurrences(E, w) = Occurrences(D, w)
<1>1. \A d \in E \ D : {d} \X (1 .. Count[d][w]) = {}
  OBVIOUS
<1> QED
  BY <1>1 DEF Occurrences

LEMMA InitCountInv == Init => CountInv
<1> SUFFICES ASSUME Init PROVE CountInv
  OBVIOUS
<1> DEFINE src == [s \in Reducers |-> {}]
<1>1. src \in [Reducers -> SUBSET Docs]
  OBVIOUS
<1>2. Apart(src) /\ Sources(src)
  BY <1>1 DEF Init, Apart, Sources
<1>3. ASSUME NEW w \in Words PROVE Counted(src, w) = {} /\ CountOf(w) = 0
  BY HashAssumption DEF Init, Counted, Waiting, CountOf
<1>4. \A w \in Words : Occurrences({}, w) = {}
  BY DEF Occurrences
<1>5. Sums(src)
  BY <1>3, <1>4, FS_EmptySet DEF Sums
<1> QED
  BY <1>1, <1>2, <1>5 DEF CountInv

\* A step that moves no document and no pair counts nothing.
LEMMA SameCounts ==
    ASSUME CountInv, UNCHANGED <<unsent, mDoc, sPairs, subSet>>
    PROVE  CountInv'
<1>1. PICK src \in [Reducers -> SUBSET Docs] : Apart(src) /\ Sources(src) /\ Sums(src)
  BY DEF CountInv
<1>2. Apart(src)' /\ Sources(src)'
  BY <1>1 DEF Apart, Sources
<1>3. \A w \in Words : Counted(src, w)' = Counted(src, w) /\ CountOf(w)' = CountOf(w)
  BY DEF Counted, Waiting, Pending, CountOf
<1>4. Sums(src)'
  BY <1>1, <1>3 DEF Sums
<1> QED
  BY <1>2, <1>4 DEF CountInv

\* A document that a frequencyWorker takes still waits.
LEMMA MapRecvCounts ==
    ASSUME TypeOK, StagesInv, CountInv, NEW m \in Mappers, NEW d \in Docs, MapRecv(m, d)
    PROVE  CountInv'
<1>1. PICK src \in [Reducers -> SUBSET Docs] : Apart(src) /\ Sources(src) /\ Sums(src)
  BY DEF CountInv
<1>2. /\ d \in unsent /\ unsent' = unsent \ {d} /\ mDoc[m] = {}
      /\ UNCHANGED <<sPairs, subSet>>
  BY DEF MapRecv, shufVars, redVars, StagesInv
<1>3. mDoc'[m] = {d} /\ \A n \in Mappers : n # m => mDoc'[n] = mDoc[n]
  BY DEF MapRecv, TypeOK
<1>4. Apart(src)'
  <2>1. \A n \in Mappers : mDoc'[n] \cap unsent' = {}
    BY <1>1, <1>2, <1>3 DEF Apart
  <2>2. \A n, o \in Mappers : n # o => mDoc'[n] \cap mDoc'[o] = {}
    BY <1>1, <1>2, <1>3 DEF Apart
  <2>3. \A s \in Reducers : src[s] \cap unsent' = {}
    BY <1>1, <1>2 DEF Apart
  <2>4. \A s \in Reducers, n \in Mappers : src[s] \cap mDoc'[n] = {}
    BY <1>1, <1>2, <1>3 DEF Apart
  <2> QED
    BY <1>1, <2>1, <2>2, <2>3, <2>4 DEF Apart
<1>5. Sources(src)'
  BY <1>1, <1>2, <1>3 DEF Sources
<1>6. Waiting' = Waiting
  <2>1. \A e : e \in Waiting' <=> e \in unsent' \/ \E n \in Mappers : e \in mDoc'[n]
    BY DEF Waiting
  <2>2. \A e : e \in Waiting <=> e \in unsent \/ \E n \in Mappers : e \in mDoc[n]
    BY DEF Waiting
  <2>3. ASSUME NEW e PROVE e \in Waiting' <=> e \in Waiting
    BY <1>2, <1>3, <2>1, <2>2
  <2> QED
    BY <2>3
<1>7. \A w \in Words : Counted(src, w)' = Counted(src, w) /\ CountOf(w)' = CountOf(w)
  BY <1>2, <1>6 DEF Counted, Pending, CountOf
<1>8. Sums(src)'
  BY <1>1, <1>7 DEF Sums
<1> QED
  BY <1>4, <1>5, <1>8 DEF CountInv

\* The shuffler that receives the map of a document has all its pairs to send;
\* a word the document lacks is counted without one.
LEMMA MapSendCounts ==
    ASSUME TypeOK, StagesInv, CountInv, NEW m \in Mappers, NEW s \in Reducers, MapSend(m, s)
    PROVE  CountInv'
<1>1. PICK old \in [Reducers -> SUBSET Docs] : Apart(old) /\ Sources(old) /\ Sums(old)
  BY DEF CountInv
<1>0. PICK src : src = [old EXCEPT ![s] = mDoc[m]]
  OBVIOUS
<1>2. /\ sPairs[s] = {} /\ UNCHANGED <<unsent, subSet>>
      /\ sPairs'[s] = UNION {Pairs(d) : d \in mDoc[m]}
      /\ \A t \in Reducers : t # s => sPairs'[t] = sPairs[t]
  BY DEF MapSend, redVars, StagesInv, TypeOK
<1>3. mDoc'[m] = {} /\ \A n \in Mappers : n # m => mDoc'[n] = mDoc[n]
  BY DEF MapSend, TypeOK
<1>4. /\ src \in [Reducers -> SUBSET Docs] /\ src[s] = mDoc[m]
      /\ \A t \in Reducers : t # s => src[t] = old[t]
  BY <1>0 DEF TypeOK
<1>5. Apart(src)'
  <2>1. /\ \A n \in Mappers : mDoc'[n] \cap unsent' = {}
        /\ \A n, o \in Mappers : n # o => mDoc'[n] \cap mDoc'[o] = {}
    BY <1>1, <1>2, <1>3 DEF Apart
  <2>2. \A t \in Reducers : src[t] \cap unsent' = {}
    BY <1>1, <1>2, <1>4 DEF Apart
  <2>3. \A t \in Reducers, n \in Mappers : src[t] \cap mDoc'[n] = {}
    BY <1>1, <1>3, <1>4 DEF Apart
  <2>4. \A t, u \in Reducers : t # u => src[t] \cap src[u] = {}
    BY <1>1, <1>4 DEF Apart
  <2> QED
    BY <2>1, <2>2, <2>3, <2>4 DEF Apart
<1>6. Sources(src)'
  <2>1. \A n \in Mappers : \A d, e \in mDoc'[n] : d = e
    BY <1>1, <1>3 DEF Sources
  <2>2. \A t \in Reducers : \A d, e \in src[t] : d = e
    BY <1>1, <1>4 DEF Sources
  <2>3. \A p \in sPairs'[s] : \E d \in src[s] : p = PairOf(d, p.word)
    BY <1>2, <1>4 DEF Pairs, PairOf
  <2>4. \A t \in Reducers : t # s =>
            \A p \in sPairs'[t] : \E d \in src[t] : p = PairOf(d, p.word)
    BY <1>1, <1>2, <1>4 DEF Sources
  <2> QED
    BY <1>4, <2>1, <2>2, <2>3, <2>4 DEF Sources
<1>7. ASSUME NEW w \in Words
      PROVE  /\ Counted(old, w) \subseteq Counted(src, w)'
             /\ \A d \in Counted(src, w)' \ Counted(old, w) : Count[d][w] = 0
  <2>1. \A d : d \in Waiting <=> d \in Waiting' \/ d \in mDoc[m]
    BY <1>2, <1>3 DEF Waiting
  <2>2. \A d \in Docs : d \in Pending(old, w) <=>
            \E t \in Reducers : t # s /\ d \in old[t] /\ PairOf(d, w) \in sPairs[t]
    BY <1>2 DEF Pending
  <2>3. \A d \in Docs : d \in Pending(src, w)' <=>
            \/ d \in mDoc[m] /\ PairOf(d, w) \in sPairs'[s]
            \/ \E t \in Reducers : t # s /\ d \in old[t] /\ PairOf(d, w) \in sPairs[t]
    BY <1>2, <1>4 DEF Pending, PairOf
  <2>4. \A d \in mDoc[m] : Count[d][w] > 0 => PairOf(d, w) \in sPairs'[s]
    BY <1>2 DEF Pairs, PairOf
  <2>5. \A d \in Docs : Count[d][w] \in Nat
    BY CountAssumption
  <2>6. \A d : d \in mDoc[m] => d \in Docs
    BY DEF TypeOK
  <2> QED
    BY <2>1, <2>2, <2>3, <2>4, <2>5, <2>6 DEF Counted
<1>8. ASSUME NEW w \in Words
      PROVE  Occurrences(Counted(src, w)', w) = Occurrences(Counted(old, w), w)
  <2>1. Counted(old, w) \in SUBSET Docs /\ Counted(src, w)' \in SUBSET Docs
    BY DEF Counted
  <2> QED
    BY <1>7, <2>1, OccurrencesNone
<1>9. Sums(src)'
  BY <1>1, <1>2, <1>8 DEF Sums, CountOf
<1> QED
  BY <1>4, <1>5, <1>6, <1>9 DEF CountInv

\* A pair that reaches its reducer counts its document for its word.
LEMMA ShuffleSendCounts ==
    ASSUME TypeOK, CountInv, NEW s \in Reducers, NEW p \in sPairs[s], ShuffleSend(s, p)
    PROVE  CountInv'
<1>1. PICK src \in [Reducers -> SUBSET Docs] : Apart(src) /\ Sources(src) /\ Sums(src)
  BY DEF CountInv
<1>2. PICK d \in src[s] : p = PairOf(d, p.word)
  BY <1>1 DEF Sources
<1> DEFINE v == p.word
<1>3. v \in Words /\ d \in Docs /\ p = PairOf(d, v) /\ p.tf = Count[d][v] /\ p.tf \in Nat
  BY <1>2 DEF TypeOK, PairOf
<1>4. /\ UNCHANGED <<unsent, mDoc>>
      /\ sPairs'[s] = sPairs[s] \ {p}
      /\ \A t \in Reducers : t # s => sPairs'[t] = sPairs[t]
      /\ subSet' = [subSet EXCEPT ![HashOf[v]][v] = @ + p.tf]
  BY DEF ShuffleSend, mapVars, TypeOK
<1> HIDE DEF v
<1>5. Apart(src)'
  BY <1>1, <1>4 DEF Apart
<1>6. Sources(src)'
  <2>1. \A t \in Reducers : sPairs'[t] \subseteq sPairs[t]
    BY <1>4
  <2> QED
    BY <1>1, <1>4, <2>1 DEF Sources
<1>7. Waiting' = Waiting
  BY <1>4 DEF Waiting
<1>8. CountOf(v)' = CountOf(v) + Count[d][v]
  BY <1>3, <1>4, HashAssumption DEF CountOf, TypeOK
<1>9. \A w \in Words : w # v => CountOf(w)' = CountOf(w)
  BY <1>3, <1>4, HashAssumption DEF CountOf, TypeOK
<1>10. Counted(src, v)' = Counted(src, v) \cup {d} /\ d \notin Counted(src, v)
  <2>1. d \in Pending(src, v)
    BY <1>2, <1>3 DEF Pending
  <2>2. d \notin Waiting
    BY <1>1 DEF Apart, Waiting
  <2>3. \A t \in Reducers : t # s => d \notin src[t]
    BY <1>1 DEF Apart
  <2>4. d \notin Pending(src, v)'
    BY <1>3, <1>4, <2>3 DEF Pending, PairOf
  <2>5. ASSUME NEW e \in Docs, e # d PROVE e \in Pending(src, v)' <=> e \in Pending(src, v)
    <3>1. e \notin src[s]
      BY <1>1, <2>5 DEF Sources
    <3> QED
      BY <1>4, <3>1 DEF Pending, PairOf
  <2> QED
    BY <1>3, <1>7, <2>1, <2>2, <2>4, <2>5 DEF Counted
<1>11. ASSUME NEW w \in Words, w # v PROVE Counted(src, w)' = Counted(src, w)
  <2>1. \A e \in Docs : PairOf(e, w) # p
    BY <1>3, <1>11 DEF PairOf
  <2>2. Pending(src, w)' = Pending(src, w)
    <3>1. \A e \in Docs, t \in Reducers : PairOf(e, w) \in sPairs'[t] <=> PairOf(e, w) \in sPairs[t]
      BY <1>4, <2>1
    <3> QED
      BY <3>1 DEF Pending, PairOf
  <2> QED
    BY <1>7, <2>2 DEF Counted
<1>12. /\ IsFiniteSet(Occurrences(Counted(src, v)', v))
       /\ CountOf(v)' = Cardinality(Occurrences(Counted(src, v)', v))
  <2>1. Counted(src, v) \in SUBSET Docs
    BY DEF Counted
  <2>2. /\ IsFiniteSet(Occurrences(Counted(src, v), v))
        /\ CountOf(v) = Cardinality(Occurrences(Counted(src, v), v))
    BY <1>1, <1>3 DEF Sums
  <2> QED
    BY <1>3, <1>8, <1>10, <2>1, <2>2, OccurrencesAdd
<1>13. Sums(src)'
  BY <1>1, <1>9, <1>11, <1>12 DEF Sums
<1> QED
  BY <1>5, <1>6, <1>13 DEF CountInv

LEMMA NextCountInv == TypeOK /\ StagesInv /\ CountInv /\ [Next]_vars => CountInv'
<1> SUFFICES ASSUME TypeOK, StagesInv, CountInv, [Next]_vars PROVE CountInv'
  OBVIOUS
<1>1. ASSUME NEW m \in Mappers, MapPanics(m) \/ MapEnd(m)
      PROVE  UNCHANGED <<unsent, mDoc, sPairs, subSet>>
  BY <1>1 DEF MapPanics, MapEnd, mapVars, shufVars, redVars
<1>2. ASSUME NEW s \in Reducers, ShuffleDocDone(s) \/ ShuffleEnd(s) \/ ShuffleCheck(s) \/ Reducer(s)
      PROVE  UNCHANGED <<unsent, mDoc, sPairs, subSet>>
  BY <1>2 DEF ShuffleDocDone, ShuffleEnd, ShuffleCheck, Reducer, ReduceQuit, ReduceReport,
              mapVars, shufVars, redVars
<1>3. InitializerEnd \/ BloomFreqInit \/ Populate \/ UNCHANGED vars
          => UNCHANGED <<unsent, mDoc, sPairs, subSet>>
  BY DEF InitializerEnd, BloomFreqInit, Populate, vars, mapVars, shufVars, redVars
<1> QED
  BY <1>1, <1>2, <1>3, SameCounts, MapRecvCounts, MapSendCounts, ShuffleSendCounts
     DEF Next, Mapper, Shuffler, Terminated
----------------------------------------------------------------------------
(***************************************************************************)
(* The theorems                                                            *)
(***************************************************************************)

\* The map-reduce: in every reachable state the stages end in their order, each
\* reducer's counts are the occurrences in the documents counted so far, and
\* the sizes add up what has been reported.
THEOREM CountingCorrect == Spec => []IInv
<1>1. Init => IInv
  BY InitTypeOK, InitStagesInv, InitSizesInv, InitCountInv DEF IInv
<1>2. IInv /\ [Next]_vars => IInv'
  BY NextTypeOK, NextStagesInv, NextSizesInv, NextCountInv DEF IInv
<1> QED
  BY <1>1, <1>2, PTL DEF Spec

\* shuffler and reducer: whatever the numbers of workers and reducers, a
\* shuffler with a pair to send finds the reducer of its word receiving.
THEOREM NoShufflerAbandoned == Spec => []ReducersOutliveShufflers
<1>1. IInv => ReducersOutliveShufflers
  <2> SUFFICES ASSUME IInv, NEW s \in Reducers, NEW p \in sPairs[s]
               PROVE  rPc[HashOf[p.word]] = "recv"
    BY DEF ReducersOutliveShufflers
  <2>1. HashOf[p.word] \in Reducers
    BY HashAssumption DEF IInv, TypeOK
  <2>2. s \in Shuffling
    BY DEF IInv, StagesInv, Shuffling, TypeOK
  <2>3. ~reducerQuit
    BY <2>2 DEF IInv, StagesInv
  <2> QED
    BY <2>1, <2>3 DEF IInv, StagesInv
<1> QED
  BY <1>1, CountingCorrect, PTL

\* calculateBucketSizes and bloomFilterInitializer: for any corpus, hash and
\* bucket limits, the sizes are those of the whole corpus when they are handed
\* to InitFreqBuckets, in any interleaving of the workers.
THEOREM SizesOfTheCorpus == Spec => []SizesExact
<1>1. IInv => SizesExact
  <2> SUFFICES ASSUME IInv, iPc = "done", \A m \in Mappers : mPc[m] # "send"
               PROVE  sizes = BucketSizes([w \in Words |-> Total(w)])
    BY DEF SizesExact
  <2> USE DEF IInv
  <2>1. PICK src \in [Reducers -> SUBSET Docs] : Apart(src) /\ Sources(src) /\ Sums(src)
    BY DEF CountInv
  <2>2. \A r \in Reducers : rPc[r] = "done"
    BY DEF StagesInv, Reporting
  <2>3. \A r \in Reducers : sPc[r] \in {"check", "done"} /\ termClosed /\ sPairs[r] = {}
    BY <2>2 DEF StagesInv, Shuffling, TypeOK
  <2>4. ASSUME NEW w \in Words PROVE Counted(src, w) = Docs
    <3>1. HashOf[w] \in Reducers
      BY HashAssumption
    <3>2. unsent = {}
      BY <2>3, <3>1 DEF StagesInv
    <3>3. Waiting = {}
      BY <3>2 DEF StagesInv, Waiting
    <3>4. Pending(src, w) = {}
      BY <2>3 DEF Pending
    <3> QED
      BY <3>3, <3>4 DEF Counted
  <2>5. \A w \in Words : CountOf(w) = Total(w)
    BY <2>1, <2>4 DEF Sums, Total
  <2>6. ASSUME NEW k \in Buckets
        PROVE  Reported(k) = {w \in Words : Total(w) > 0 /\ InBucket(k, Total(w))}
    BY <2>2, <2>5, HashAssumption DEF Reported
  <2>7. \A k \in Buckets : sizes[k] = Cardinality(Reported(k))
    BY DEF SizesInv
  <2>8. sizes = [k \in Buckets |-> sizes[k]]
    BY DEF TypeOK
  <2>9. BucketSizes([w \in Words |-> Total(w)]) =
            [k \in Buckets |-> Cardinality({w \in Words : Total(w) > 0 /\ InBucket(k, Total(w))})]
    BY DEF BucketSizes
  <2> QED
    BY ONLY <2>6, <2>7, <2>8, <2>9
<1> QED
  BY <1>1, CountingCorrect, PTL
=============================================================================
