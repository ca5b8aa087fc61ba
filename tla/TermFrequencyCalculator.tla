---------------------- MODULE TermFrequencyCalculator ----------------------
(***************************************************************************)
(* client_proxy/tf_calc.go: the map-reduce that counts how often each word *)
(* occurs in the corpus and how many words fall into each frequency bucket.*)
(*                                                                         *)
(*  docIn -> frequencyWorker -> TermFreq -> shuffler -> reduceMap[hash]    *)
(*        -> reducer -> bloomSizeChan -> bloomFilterInitializer            *)
(*        -> bloomMaster -> populateBloomFilters                           *)
(*                                                                         *)
(* All these channels but docIn and shufflerChan have no buffer. quit is   *)
(* never closed: Stop does nothing once Start has run, because it tests    *)
(* started.                                                                *)
(***************************************************************************)
EXTENDS Integers, Sequences, FiniteSets

CONSTANTS
    Docs,     \* the documents
    Words,    \* the words
    Count,    \* Count[d][w]: how often word w occurs in document d
    Mappers,  \* names for frequencyWorkers; numWorkers of them are started
    Reducers, \* numReducers: names a shuffler and a reducer each
    HashOf,   \* Hash(word) % numReducers
    Cuts      \* the bucket limits 100, 1000, 10000, 100000, scaled down

ASSUME FiniteAssumption ==
    IsFiniteSet(Docs) /\ IsFiniteSet(Words) /\ IsFiniteSet(Reducers)
ASSUME CountAssumption == Count \in [Docs -> [Words -> Nat]]
ASSUME HashAssumption == HashOf \in [Words -> Reducers]
ASSUME CutsAssumption ==
    /\ Cuts \in Seq(Nat \ {0})
    /\ \A i, j \in DOMAIN Cuts : i < j => Cuts[i] < Cuts[j]

VARIABLES
    unsent,      \* documents not yet taken from docIn
    mPc,         \* frequencyWorker: "none" if not started, "recv", "send", "done"
    mDoc,        \* the documents each frequencyWorker holds (none or one)
    termClosed,  \* TermFreq is closed
    sPc,         \* shuffler: "recv", "pairs", "check" or "done"
    sPairs,      \* the (word, tf) pairs a shuffler still has to send
    tokens,      \* len(shufflerChan)
    reducerQuit, \* reducerQuit is closed
    rPc,         \* reducer: "recv", "send" or "done"
    subSet,      \* the word counts of each reducer
    sem,         \* bloomFilterInitializer: reducers still to report
    sizes,       \* and the bucket sizes it has summed
    iPc,         \* bloomFilterInitializer: "recv" or "done"
    freqReady,   \* the bloom master has created the frequency filters
    adds,        \* QueueFreqBucketAdd calls of populateBloomFilters
    panicked     \* the process died

vars == <<unsent, mPc, mDoc, termClosed, sPc, sPairs, tokens, reducerQuit,
          rPc, subSet, sem, sizes, iPc, freqReady, adds, panicked>>
mapVars  == <<unsent, mPc, mDoc, termClosed>>
shufVars == <<sPc, sPairs, tokens, reducerQuit>>
redVars  == <<rPc, subSet>>
initVars == <<sem, sizes, iPc>>
popVars  == <<freqReady, adds>>

Buckets == DOMAIN Cuts
----------------------------------------------------------------------------
\* The cases of calculateBucketSizes and populateBloomFilters.
InBucket(k, size) == size < Cuts[k] /\ (k > 1 => Cuts[k - 1] < size)

\* calculateBucketSizes of a map that holds the words counted at least once.
BucketSizes(counts) ==
    [k \in Buckets |-> Cardinality({w \in Words : /\ counts[w] > 0
                                                  /\ InBucket(k, counts[w])})]

\* The map a frequencyWorker builds from the tokens of a document.
Pairs(d) == {[word |-> w, tf |-> Count[d][w]] :
                 w \in {v \in Words : Count[d][v] > 0}}

\* Nothing in the program assigns ResultMap.
ResultMap == [w \in {} |-> 0]
----------------------------------------------------------------------------
\* NewTermFrequencyCalculator and Start, with any number of workers.
Init ==
    /\ unsent = Docs /\ termClosed = FALSE
    /\ \E started \in (SUBSET Mappers) \ {{}} :
          mPc = [m \in Mappers |-> IF m \in started THEN "recv" ELSE "none"]
    /\ mDoc = [m \in Mappers |-> {}]
    /\ sPc = [s \in Reducers |-> "recv"] /\ sPairs = [s \in Reducers |-> {}]
    /\ tokens = Cardinality(Reducers) /\ reducerQuit = FALSE
    /\ rPc = [r \in Reducers |-> "recv"]
    /\ subSet = [r \in Reducers |-> [w \in Words |-> 0]]
    /\ sem = Cardinality(Reducers) /\ sizes = [k \in Buckets |-> 0]
    /\ iPc = "recv" /\ freqReady = FALSE /\ adds = <<>> /\ panicked = FALSE
----------------------------------------------------------------------------
(***************************************************************************)
(* frequencyWorker                                                         *)
(***************************************************************************)
MapRecv(m, d) ==
    /\ ~panicked /\ mPc[m] = "recv" /\ d \in unsent
    /\ unsent' = unsent \ {d}
    /\ mDoc' = [mDoc EXCEPT ![m] = {d}]
    /\ mPc' = [mPc EXCEPT ![m] = "send"]
    /\ UNCHANGED <<termClosed, shufVars, redVars, initVars, popVars, panicked>>

\* TermFreq <- m meets the receive of shuffler s.
MapSend(m, s) ==
    /\ ~panicked /\ mPc[m] = "send" /\ sPc[s] = "recv" /\ ~termClosed
    /\ sPairs' = [sPairs EXCEPT ![s] = UNION {Pairs(d) : d \in mDoc[m]}]
    /\ sPc' = [sPc EXCEPT ![s] = "pairs"]
    /\ mDoc' = [mDoc EXCEPT ![m] = {}]
    /\ mPc' = [mPc EXCEPT ![m] = "recv"]
    /\ UNCHANGED <<unsent, termClosed, tokens, reducerQuit, redVars, initVars,
                   popVars, panicked>>

\* TermFreq <- m after another worker closed TermFreq.
MapPanics(m) ==
    /\ ~panicked /\ mPc[m] = "send" /\ termClosed
    /\ panicked' = TRUE
    /\ UNCHANGED <<mapVars, shufVars, redVars, initVars, popVars>>

\* docIn is closed and drained: mapperOnce closes TermFreq.
MapEnd(m) ==
    /\ ~panicked /\ mPc[m] = "recv" /\ unsent = {}
    /\ mPc' = [mPc EXCEPT ![m] = "done"]
    /\ termClosed' = TRUE
    /\ UNCHANGED <<unsent, mDoc, shufVars, redVars, initVars, popVars, panicked>>
----------------------------------------------------------------------------
(***************************************************************************)
(* shuffler                                                                *)
(***************************************************************************)

\* MUTANT of ShuffleSend: the reducer sets the count instead of adding to it.
ShuffleSendSets(s, p) ==
    LET r == HashOf[p.word]
    IN /\ ~panicked /\ sPc[s] = "pairs" /\ p \in sPairs[s] /\ rPc[r] = "recv"
       /\ sPairs' = [sPairs EXCEPT ![s] = @ \ {p}]
       /\ subSet' = [subSet EXCEPT ![r][p.word] = p.tf]
       /\ UNCHANGED <<mapVars, sPc, tokens, reducerQuit, rPc, initVars, popVars,
                      panicked>>

\* A pair goes to the reducer of its word, which is receiving.
ShuffleSend(s, p) ==
    LET r == HashOf[p.word]
    IN /\ ~panicked /\ sPc[s] = "pairs" /\ p \in sPairs[s] /\ rPc[r] = "recv"
       /\ sPairs' = [sPairs EXCEPT ![s] = @ \ {p}]
       /\ subSet' = [subSet EXCEPT ![r][p.word] = @ + p.tf]
       /\ UNCHANGED <<mapVars, sPc, tokens, reducerQuit, rPc, initVars, popVars,
                      panicked>>

ShuffleDocDone(s) ==
    /\ ~panicked /\ sPc[s] = "pairs" /\ sPairs[s] = {}
    /\ sPc' = [sPc EXCEPT ![s] = "recv"]
    /\ UNCHANGED <<mapVars, sPairs, tokens, reducerQuit, redVars, initVars,
                   popVars, panicked>>

\* TermFreq is closed: leave the loop and take a token from shufflerChan ...
ShuffleEnd(s) ==
    /\ ~panicked /\ sPc[s] = "recv" /\ termClosed
    /\ sPc' = [sPc EXCEPT ![s] = "check"]
    /\ tokens' = tokens - 1
    /\ UNCHANGED <<mapVars, sPairs, reducerQuit, redVars, initVars, popVars,
                   panicked>>

\* MUTANT of ShuffleCheck: the first shuffler to leave dismisses the reducers.
ShuffleCheckFirst(s) ==
    /\ ~panicked /\ sPc[s] = "check"
    /\ reducerQuit' = TRUE
    /\ sPc' = [sPc EXCEPT ![s] = "done"]
    /\ UNCHANGED <<mapVars, sPairs, tokens, redVars, initVars, popVars, panicked>>

\* ... and if that was the last one, shufflerOnce closes reducerQuit.
ShuffleCheck(s) ==
    /\ ~panicked /\ sPc[s] = "check"
    /\ reducerQuit' = (reducerQuit \/ tokens = 0)
    /\ sPc' = [sPc EXCEPT ![s] = "done"]
    /\ UNCHANGED <<mapVars, sPairs, tokens, redVars, initVars, popVars, panicked>>
----------------------------------------------------------------------------
(***************************************************************************)
(* reducer, bloomFilterInitializer, populateBloomFilters                   *)
(***************************************************************************)
ReduceQuit(r) ==
    /\ ~panicked /\ rPc[r] = "recv" /\ reducerQuit
    /\ rPc' = [rPc EXCEPT ![r] = "send"]
    /\ UNCHANGED <<mapVars, shufVars, subSet, initVars, popVars, panicked>>

\* MUTANT of ReduceReport: sem is not decremented.
ReduceReportUncounted(r) ==
    /\ ~panicked /\ rPc[r] = "send" /\ iPc = "recv" /\ sem > 0
    /\ rPc' = [rPc EXCEPT ![r] = "done"]
    /\ sizes' = [k \in Buckets |-> sizes[k] + BucketSizes(subSet[r])[k]]
    /\ UNCHANGED <<mapVars, shufVars, subSet, sem, iPc, popVars, panicked>>

\* bloomSizeChan <- calculateBucketSizes(subSet) meets the initializer.
ReduceReport(r) ==
    /\ ~panicked /\ rPc[r] = "send" /\ iPc = "recv" /\ sem > 0
    /\ rPc' = [rPc EXCEPT ![r] = "done"]
    /\ sem' = sem - 1
    /\ sizes' = [k \in Buckets |-> sizes[k] + BucketSizes(subSet[r])[k]]
    /\ UNCHANGED <<mapVars, shufVars, subSet, iPc, popVars, panicked>>

\* All reducers have reported: close bloomSizeChan and InitFreqBuckets.
InitializerEnd ==
    /\ ~panicked /\ iPc = "recv" /\ sem = 0
    /\ iPc' = "done"
    /\ UNCHANGED <<mapVars, shufVars, redVars, sem, sizes, popVars, panicked>>

\* The bloom master creates the filters.
BloomFreqInit ==
    /\ ~panicked /\ iPc = "done" /\ ~freqReady
    /\ freqReady' = TRUE
    /\ UNCHANGED <<mapVars, shufVars, redVars, initVars, adds, panicked>>

\* QueueFreqBucketAdd for one bucket after the other, with the words of
\* ResultMap in it. (The batches of 10000 are one call here.)
Populate ==
    /\ ~panicked /\ freqReady /\ Len(adds) < Len(Cuts)
    /\ LET k == Len(adds) + 1
       IN adds' = Append(adds, {w \in DOMAIN ResultMap : InBucket(k, ResultMap[w])})
    /\ UNCHANGED <<mapVars, shufVars, redVars, initVars, freqReady, panicked>>

AllDone ==
    /\ \A m \in Mappers : mPc[m] \in {"none", "done"}
    /\ \A r \in Reducers : sPc[r] = "done" /\ rPc[r] = "done"
    /\ iPc = "done" /\ Len(adds) = Len(Cuts)

Terminated == (panicked \/ AllDone) /\ UNCHANGED vars
----------------------------------------------------------------------------
Mapper(m) == \/ MapPanics(m) \/ MapEnd(m)
             \/ \E d \in Docs : MapRecv(m, d)
             \/ \E s \in Reducers : MapSend(m, s)

Shuffler(s) == \/ ShuffleDocDone(s) \/ ShuffleEnd(s) \/ ShuffleCheck(s)
               \/ \E p \in sPairs[s] : ShuffleSend(s, p)

Reducer(r) == ReduceQuit(r) \/ ReduceReport(r)

Next ==
    \/ \E m \in Mappers : Mapper(m)
    \/ \E r \in Reducers : Shuffler(r) \/ Reducer(r)
    \/ InitializerEnd \/ BloomFreqInit \/ Populate \/ Terminated

\* Every goroutine that can run does.
Fairness ==
    /\ \A m \in Mappers : WF_vars(Mapper(m))
    /\ \A r \in Reducers : WF_vars(Shuffler(r)) /\ WF_vars(Reducer(r))
    /\ WF_vars(InitializerEnd) /\ WF_vars(BloomFreqInit) /\ WF_vars(Populate)

Spec == Init /\ [][Next]_vars

FairSpec == Spec /\ Fairness
----------------------------------------------------------------------------
(***************************************************************************)
(* Properties                                                              *)
(***************************************************************************)

\* The occurrences of a word in some documents, numbered in each, and how often
\* the word occurs in the whole corpus.
Occurrences(docs, w) == UNION {{d} \X (1 .. Count[d][w]) : d \in docs}
Total(w) == Cardinality(Occurrences(Docs, w))

\* A shuffler that still has pairs finds their reducers receiving: reducerQuit
\* is closed only after the last shuffler has sent its last pair. Otherwise it
\* would block for ever on a reducer that has left.
ReducersOutliveShufflers ==
    \A s \in Reducers : \A p \in sPairs[s] : rPc[HashOf[p.word]] = "recv"

\* The sizes given to InitFreqBuckets are those of the whole corpus: no count
\* is lost or split between reducers, in any interleaving, unless a second
\* frequencyWorker is left with a map it cannot send any more.
SizesExact ==
    iPc = "done" /\ (\A m \in Mappers : mPc[m] # "send") =>
        sizes = BucketSizes([w \in Words |-> Total(w)])

\* Every goroutine of the calculator finishes. The process dies only of a second
\* frequencyWorker that still sends when the first closes TermFreq.
Finishes ==
    <>(AllDone \/ (panicked /\ \E m, n \in Mappers : mPc[m] = "done" /\ mPc[n] = "send"))
=============================================================================
