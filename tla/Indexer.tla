------------------------------ MODULE Indexer ------------------------------
(***************************************************************************)
(* client_proxy/index.go: one run of Index, with the whole of              *)
(* corpus_reader.go, doc_preprocesser.go and error_handler.go, and the     *)
(* components it starts seen through the channels and the wait group they  *)
(* share with it.                                                          *)
(*                                                                         *)
(*   DirectoryWalker -> DocumentReader -> partitionStreams                 *)
(*       -> TfOut            -> term frequencies ---> bloom master         *)
(*       -> InvIndexOut      -> index generator ----> bloom master         *)
(*       -> KeyWordSummerOut -> totalKeyWordSummer -> bloom master         *)
(*       -> DocEncryptOut    -> document streamer                          *)
(*                                                                         *)
(* The components have numWorkers = 1, the default, and are modelled in    *)
(* detail by modules of their own. The goroutines mainWg counts fall into  *)
(* groups; a group counts as the last of its members to call Done.         *)
(***************************************************************************)
EXTENDS Integers, Sequences, FiniteSets, Functions

CONSTANTS
    Corpora,       \* each has a sequence, the number of distinct words per
                   \* file, and says whether some word is in a frequency bucket
    MaxFaults      \* bound on what may disturb the run: failing operations,
                   \* an interrupt, a call of the preprocessor's Stop

ASSUME CorporaAssumption ==
    Corpora \subseteq [files : Seq(Nat), bucketed : BOOLEAN]
ASSUME MaxFaultsAssumption == MaxFaults \in Nat

VARIABLES
    corpus,     \* the files that DirectoryWalker finds
    bucketed,   \* some word of the documents read is in a frequency bucket: not
                \* all of them occur exactly as often as a limit, or more often
                \* than the last (the words' counts themselves are left out)
    firstTime,  \* bloomMaster.isFirstTime
    mainPc,     \* where Index is
    stopFuncs,  \* the error handler's stopFuncs
    walked,     \* number of paths that DirectoryWalker has sent
    rPc,        \* DocumentReader: "recv", "open", "send" or "done"
    rDoc,       \* the document it holds
    nextDocId,  \* CorpusReader.nextDocId
    pPc,        \* partitionStreams: "recv", "read", a stream or "done"
    pDoc,       \* the document it holds
    out,        \* documents sent on each stream so far
    taken,      \* how many of them were received
    sPc,        \* totalKeyWordSummer: "sum", "sent" or "done"
    msgs,       \* bloomMaster.msgChan
    xSize,      \* xFinalSize, -1 before the X-set filter is created
    xAdded,     \* ids of those whose xTags are in the filter
    xFinished,  \* xFilterFinished is closed
    freqReady,  \* freqBucketsReady is closed
    populated,  \* the bloom master has seen all that populateBloomFilters sent
    group,      \* each group that mainWg counts: "off", "run" or "done"
    wg,         \* the counter of mainWg
    msg,        \* an error sits in the error handler's Message channel
    faults,     \* how often the run was disturbed
    stopPc,     \* DocPreprocessor.Stop: "none", "waiting" or "returned"
    died        \* the process has died: a panic or log.Fatal

mainVars == <<mainPc, stopFuncs>>
readVars == <<walked, rPc, rDoc, nextDocId>>
preVars  == <<pPc, pDoc, out>>
bloomVars == <<xSize, xAdded, xFinished, freqReady, populated>>
wgVars   == <<group, wg>>
errVars  == <<msg, faults>>
\* Index, what feeds the streams, what is fed by them, and the rest.
feedVars == <<readVars, preVars>>
fedVars  == <<taken, sPc, msgs, bloomVars>>
inputVars == <<corpus, bucketed, firstTime>>
endVars  == <<inputVars, stopPc, died>>
vars == <<mainVars, feedVars, fedVars, wgVars, errVars, endVars>>

Streams == {"tf", "inv", "sum", "enc"}

Groups == {"uploader", "saver", "counting", "initializer", "populate",
           "indexing", "streamer"}

Document == [id : Nat, words : Nat, open : BOOLEAN]
NoDocument == [id |-> 0, words |-> 0, open |-> FALSE]

\* The capacity of bloomMaster.msgChan: numWorkers * 3.
MsgCap == 3

\* MUTANT of StreamCap: a second place in every stream.
StreamCapTwo == 2

\* "channels have buffer of size one in case of errors"
StreamCap == 1

quit == stopPc # "none"

\* The order in which Index starts the components, before it waits.
StartOrder == <<"cReader", "preProcessor", "bloomMaster", "tfCalc",
                "eDocStreamer", "encryptedIndexer", "wait", "returned">>

Started(c) == \E n \in 1 .. Len(StartOrder) :
    StartOrder[n] = c /\ \E k \in n + 1 .. Len(StartOrder) : mainPc = StartOrder[k]

\* The sum of the documents' word counts: each word counts once in each
\* document that has it, and documents differ in their ids.
WordsIn(docs) == UNION {{docs[i].id} \X (1 .. docs[i].words) : i \in DOMAIN docs}
TotalWords(docs) == Cardinality(WordsIn(docs))

\* partitionStreams has closed the stream and its receiver has emptied it.
Drained(s) == pPc = "done" /\ taken[s] = Len(out[s])

Received(s) == SubSeq(out[s], 1, taken[s])
----------------------------------------------------------------------------
\* NewErrorHandler, its Start, and the constructors up to the first stopChan.
Init ==
    /\ \E c \in Corpora : corpus = c.files /\ bucketed = c.bucketed
    /\ firstTime \in BOOLEAN
    /\ mainPc = "register" /\ stopFuncs = [i \in 1 .. 10 |-> "nil"]
    /\ walked = 0 /\ rPc = "recv" /\ rDoc = NoDocument /\ nextDocId = 0
    /\ pPc = "recv" /\ pDoc = NoDocument
    /\ out = [s \in Streams |-> <<>>] /\ taken = [s \in Streams |-> 0]
    /\ sPc = "sum" /\ msgs = <<>>
    /\ xSize = -1 /\ xAdded = {} /\ xFinished = FALSE
    /\ freqReady = FALSE /\ populated = FALSE
    /\ group = [g \in Groups |-> "off"] /\ wg = 0
    /\ msg = FALSE /\ faults = 0
    /\ stopPc = "none" /\ died = FALSE

Die ==
    /\ died' = TRUE
    /\ UNCHANGED <<mainVars, feedVars, fedVars, wgVars, msg, inputVars, stopPc>>

Fault == faults < MaxFaults /\ faults' = faults + 1

\* abort(quit, err): waits for room in Message, or for its component's quit.
Abort(stopped) ==
    /\ Fault
    /\ \/ ~msg /\ msg' = TRUE
       \/ stopped /\ msg' = msg
----------------------------------------------------------------------------
(***************************************************************************)
(* Index                                                                   *)
(***************************************************************************)

\* The components in the order in which Index hands their Stop functions to
\* collectStopFuncs.
Stoppables == <<"cReader", "preProcessor", "bloomMaster", "keyManager", "tfCalc">>

\* stopChan <- Stop meets the receive of collectStopFuncs.
Register ==
    /\ ~died /\ mainPc = "register"
    /\ stopFuncs' = Append(stopFuncs, Stoppables[Len(stopFuncs) - 9])
    /\ mainPc' = IF Len(stopFuncs') = 15 THEN "cReader" ELSE "register"
    /\ UNCHANGED <<feedVars, fedVars, wgVars, errVars, endVars>>

\* newBloomMaster or NewKeyManager fails: log.Fatal.
RegisterFatal ==
    /\ ~died /\ mainPc = "register" /\ Len(stopFuncs) \in {12, 13}
    /\ Fault
    /\ Die

\* MUTANT of Add: the uploader is added to the bloom master's own wg only.
AddAllButUploader(gs) ==
    /\ group' = [g \in Groups |-> IF g \in gs THEN "run" ELSE group[g]]
    /\ wg' = wg + Cardinality(gs \ {"uploader"})

\* AddToWg for the goroutines of the groups, and go.
Add(gs) ==
    /\ group' = [g \in Groups |-> IF g \in gs THEN "run" ELSE group[g]]
    /\ wg' = wg + Cardinality(gs)

\* The groups that a component's Start adds to mainWg: none for the document
\* streamer, nor for a bloom master that finds saved filters.
Counted == [c \in Range(StartOrder) |->
    CASE c = "bloomMaster" -> IF firstTime THEN {"uploader", "saver"} ELSE {}
      [] c = "tfCalc" -> {"counting", "initializer", "populate"}
      [] c = "encryptedIndexer" -> {"indexing", "streamer"}
      [] OTHER -> {}]

\* Index starts the next component; it ignores the errors of Start.
Start ==
    /\ ~died /\ \E n \in 1 .. Len(StartOrder) - 2 :
          /\ mainPc = StartOrder[n]
          /\ mainPc' = StartOrder[n + 1]
          /\ Add(Counted[mainPc])
    /\ UNCHANGED <<stopFuncs, feedVars, fedVars, errVars, endVars>>

\* mainWg.Wait returns.
Return ==
    /\ ~died /\ mainPc = "wait" /\ wg = 0
    /\ mainPc' = "returned"
    /\ UNCHANGED <<stopFuncs, feedVars, fedVars, wgVars, errVars, endVars>>
----------------------------------------------------------------------------
(***************************************************************************)
(* Corpus reader. Its Stop does nothing once Start has run: both count the *)
(* same variable.                                                          *)
(***************************************************************************)

\* outPaths <- path meets the receive of DocumentReader.
WalkerSend ==
    /\ ~died /\ Started("cReader") /\ rPc = "recv" /\ walked < Len(corpus)
    /\ walked' = walked + 1
    /\ rPc' = "open"
    /\ UNCHANGED <<mainVars, rDoc, nextDocId, preVars, fedVars, wgVars,
           errVars, endVars>>

\* A file that disappears during the walk has no FileInfo.
WalkerPanics ==
    /\ ~died /\ Started("cReader") /\ walked < Len(corpus) /\ Fault
    /\ Die

\* os.Open. A file that cannot be opened is reported and passed on as nil.
ReaderOpen ==
    /\ ~died /\ rPc = "open"
    /\ nextDocId' = nextDocId + 1
    /\ rPc' = "send"
    /\ \/ /\ rDoc' = [id |-> nextDocId', words |-> corpus[walked], open |-> TRUE]
          /\ UNCHANGED errVars
       \/ /\ rDoc' = [id |-> nextDocId', words |-> 0, open |-> FALSE]
          /\ Abort(FALSE)
    /\ UNCHANGED <<mainVars, walked, preVars, fedVars, wgVars, endVars>>

\* docOut <- d meets the receive of partitionStreams.
ReaderSend ==
    /\ ~died /\ rPc = "send" /\ Started("preProcessor") /\ pPc = "recv"
    /\ pDoc' = rDoc
    /\ pPc' = "read"
    /\ rDoc' = NoDocument
    /\ rPc' = "recv"
    /\ UNCHANGED <<mainVars, walked, nextDocId, out, fedVars, wgVars, errVars,
           endVars>>

\* The walk is over and outPaths closed: close(docOut).
ReaderEnd ==
    /\ ~died /\ Started("cReader") /\ rPc = "recv" /\ walked = Len(corpus)
    /\ rPc' = "done"
    /\ UNCHANGED <<mainVars, walked, rDoc, nextDocId, preVars, fedVars, wgVars,
           errVars, endVars>>
----------------------------------------------------------------------------
(***************************************************************************)
(* Document preprocessor                                                   *)
(***************************************************************************)

\* io.Copy and ParseTokens. Of a file that fails to be read, the words read
\* so far are used.
PreRead ==
    /\ ~died /\ pPc = "read"
    /\ pPc' = "tf"
    /\ \/ /\ pDoc.open
          /\ UNCHANGED <<pDoc, errVars>>
       \/ /\ \E n \in 0 .. pDoc.words : pDoc' = [pDoc EXCEPT !.words = n]
          /\ Abort(quit)
    /\ UNCHANGED <<mainVars, readVars, out, fedVars, wgVars, endVars>>

\* The order in which the four streams are served.
NextStream == [tf |-> "inv", inv |-> "sum", sum |-> "enc", enc |-> "recv"]

PreSend(s) ==
    /\ ~died /\ pPc = s /\ Len(out[s]) - taken[s] < StreamCap
    /\ out' = [out EXCEPT ![s] = Append(@, pDoc)]
    /\ pPc' = NextStream[s]
    /\ UNCHANGED <<mainVars, readVars, pDoc, fedVars, wgVars, errVars,
           endVars>>

\* MUTANT of AtSelect: quit is watched in every send as well.
AtSelectOrSend == pPc \in {"recv"} \cup Streams

\* Where partitionStreams watches quit.
AtSelect == pPc = "recv"

\* MUTANT of DocOutClosed: DocumentReader leaves the channel open.
DocOutLeftOpen == FALSE

DocOutClosed == rPc = "done" /\ pPc = "recv"

\* docOut is closed, or quit is: close the four streams.
PreEnd ==
    /\ ~died /\ Started("preProcessor")
    /\ DocOutClosed \/ (quit /\ AtSelect)
    /\ pPc' = "done"
    /\ UNCHANGED <<mainVars, readVars, pDoc, out, fedVars, wgVars, errVars,
           endVars>>

\* DocPreprocessor.Stop, and its return from wg.Wait.
PreStop ==
    /\ ~died /\ Started("preProcessor") /\ stopPc = "none" /\ Fault
    /\ stopPc' = "waiting"
    /\ UNCHANGED <<mainVars, feedVars, fedVars, wgVars, msg, inputVars, died>>

PreStopReturn ==
    /\ ~died /\ stopPc = "waiting" /\ pPc = "done"
    /\ stopPc' = "returned"
    /\ UNCHANGED <<mainVars, feedVars, fedVars, wgVars, errVars, inputVars, died>>
----------------------------------------------------------------------------
(***************************************************************************)
(* The receivers of the four streams                                       *)
(***************************************************************************)
Take(s) ==
    /\ ~died /\ taken[s] < Len(out[s])
    /\ taken' = [taken EXCEPT ![s] = @ + 1]
    /\ UNCHANGED <<mainVars, feedVars, sPc, msgs, bloomVars, wgVars, errVars,
           endVars>>

\* frequencyWorker, a docEncrypter and totalKeyWordSummer.
TakeTf == group["counting"] = "run" /\ Take("tf")
TakeEnc == Started("eDocStreamer") /\ Take("enc")
TakeSum == sPc = "sum" /\ Take("sum")

\* MUTANT of TakeInv: xTags are sent from the worker itself, which waits for
\* the X-set filter with the document in hand.
TakeInvWaits ==
    /\ group["indexing"] = "run"
    /\ taken["inv"] = 0 \/ xSize >= 0
    /\ Take("inv")

\* chanSplitter; the goroutines that wait for the X-set filter to send a
\* document's xTags hold nobody up.
TakeInv == group["indexing"] = "run" /\ Take("inv")

\* MUTANT of AllSummed: a stream that is empty for now is taken for closed.
NothingToSum == taken["sum"] = Len(out["sum"])

AllSummed == Drained("sum")

\* totalKeyWordSummer announces the size of the X-set ...
SummerInit ==
    /\ ~died /\ sPc = "sum" /\ AllSummed /\ Len(msgs) < MsgCap
    /\ msgs' = Append(msgs, [type |-> "xInit", val |-> TotalWords(Received("sum"))])
    /\ sPc' = "sent"
    /\ UNCHANGED <<mainVars, feedVars, taken, bloomVars, wgVars, errVars,
           endVars>>

\* wg.Done on mainWg panics when there is nothing left to be done.
WgDone == IF wg = 0 THEN died' = TRUE ELSE UNCHANGED died

\* ... and calls Done, for which nobody called Add.
SummerDone ==
    /\ ~died /\ sPc = "sent"
    /\ sPc' = "done"
    /\ wg' = wg - 1
    /\ WgDone
    /\ UNCHANGED <<mainVars, feedVars, taken, msgs, bloomVars, group, errVars,
           inputVars, stopPc>>
----------------------------------------------------------------------------
(***************************************************************************)
(* The groups                                                              *)
(***************************************************************************)

\* The last goroutine of a group calls Done.
Finish(g) ==
    /\ ~died /\ group[g] = "run"
    /\ group' = [group EXCEPT ![g] = "done"]
    /\ wg' = wg - 1
    /\ WgDone
    /\ UNCHANGED <<mainVars, feedVars, taken, sPc, bloomVars, inputVars, stopPc>>

\* Mappers, shufflers and reducers; splitter, workers and janitor.
CountingEnd == Drained("tf") /\ Finish("counting") /\ UNCHANGED <<msgs, errVars>>
IndexingEnd == Drained("inv") /\ Finish("indexing") /\ UNCHANGED <<msgs, errVars>>

\* bloomFilterInitializer has all reports: InitFreqBuckets.
InitializerEnd ==
    /\ Drained("tf") /\ Len(msgs) < MsgCap
    /\ msgs' = Append(msgs, [type |-> "freqInit", val |-> 0])
    /\ Finish("initializer")
    /\ UNCHANGED errVars

\* populateBloomFilters: ResultMap is empty, and so are the leftovers of the
\* four buckets, here one message.
PopulateEnd ==
    /\ freqReady /\ Len(msgs) < MsgCap
    /\ msgs' = Append(msgs, [type |-> "freqAdd", val |-> 0])
    /\ Finish("populate")
    /\ UNCHANGED errVars

\* Documents whose xTags the bloom master has or finds in msgChan.
Queued == xAdded \cup {m.val : m \in {n \in Range(msgs) : n.type = "xAdd"}}

\* bloomStreamer passes on the xTags of a document.
StreamerQueue(d) ==
    /\ ~died /\ group["streamer"] = "run" /\ xSize >= 0
    /\ d \in Range(Received("inv")) /\ d.id \notin Queued
    /\ Len(msgs) < MsgCap
    /\ msgs' = Append(msgs, [type |-> "xAdd", val |-> d.id])
    /\ UNCHANGED <<mainVars, feedVars, taken, sPc, bloomVars, wgVars, errVars,
           endVars>>

\* finishedXtags is closed after the last xTags.
StreamerEnd ==
    /\ xSize >= 0 /\ Drained("inv")
    /\ Queued = {d.id : d \in Range(out["inv"])}
    /\ Finish("streamer")
    /\ UNCHANGED <<msgs, errVars>>

\* xFilterUploader: the filter goes to the server.
UploaderEnd ==
    /\ xFinished
    /\ Finish("uploader")
    /\ UNCHANGED errVars \/ Abort(FALSE)
    /\ UNCHANGED msgs

\* calculateBucketSizes finds no word for any bucket.
BucketsEmpty == ~bucketed \/ TotalWords(out["tf"]) = 0

\* freqBloomSaver has saved numBuckets filters. A bucket is sent to it only
\* when it is full, and no word is ever added: all buckets have to be of size
\* 0, and then each is full when its empty leftovers come.
SaverEnd ==
    /\ populated /\ BucketsEmpty
    /\ Finish("saver")
    /\ UNCHANGED <<msgs, errVars>>
----------------------------------------------------------------------------
(***************************************************************************)
(* bloomWorker, which runs only in a client without saved filters          *)
(***************************************************************************)
WordsOf(ids) == Cardinality({p \in WordsIn(out["inv"]) : p[1] \in ids})

BloomHandle(type) ==
    /\ ~died /\ group["saver"] # "off" /\ msgs # <<>> /\ Head(msgs).type = type
    /\ msgs' = Tail(msgs)
    /\ UNCHANGED <<mainVars, feedVars, taken, sPc, wgVars, errVars, inputVars,
           stopPc>>

HandleXSetInit ==
    /\ BloomHandle("xInit")
    /\ xSize' = Head(msgs).val
    /\ UNCHANGED <<xAdded, xFinished, freqReady, populated, died>>

\* close(xFilterFinished) whenever the filter is found complete.
HandleXSetAdd ==
    /\ BloomHandle("xAdd")
    /\ xAdded' = xAdded \cup {Head(msgs).val}
    /\ xFinished' = (xFinished \/ WordsOf(xAdded') = xSize)
    /\ died' = (xFinished /\ WordsOf(xAdded') = xSize)
    /\ UNCHANGED <<xSize, freqReady, populated>>

HandleFreqInit ==
    /\ BloomHandle("freqInit")
    /\ freqReady' = TRUE
    /\ UNCHANGED <<xSize, xAdded, xFinished, populated, died>>

HandleFreqAdd ==
    /\ BloomHandle("freqAdd")
    /\ populated' = TRUE
    /\ UNCHANGED <<xSize, xAdded, xFinished, freqReady, died>>
----------------------------------------------------------------------------
(***************************************************************************)
(* Error handler                                                           *)
(***************************************************************************)

\* handleOSCalls gets a signal and passes it on, once Message has room.
HandleOSCalls ==
    /\ ~died /\ ~msg /\ Fault
    /\ msg' = TRUE
    /\ UNCHANGED <<mainVars, feedVars, fedVars, wgVars, endVars>>

\* handleErrors calls stopFuncs in order; the first is nil.
HandleErrors == ~died /\ msg /\ Head(stopFuncs) = "nil" /\ Die /\ UNCHANGED faults
----------------------------------------------------------------------------
Main == Register \/ Start \/ Return

Reader == WalkerSend \/ ReaderOpen \/ ReaderSend \/ ReaderEnd

Pre == PreRead \/ PreEnd \/ \E s \in Streams : PreSend(s)

Summer == TakeSum \/ SummerInit \/ SummerDone

Ends == CountingEnd \/ IndexingEnd \/ InitializerEnd \/ PopulateEnd
        \/ StreamerEnd \/ UploaderEnd \/ SaverEnd

Streamer == \E d \in Range(out["inv"]) : StreamerQueue(d)

BloomWorker == HandleXSetInit \/ HandleXSetAdd \/ HandleFreqInit \/ HandleFreqAdd

\* Steps of the program's goroutines.
Program ==
    \/ Main \/ Reader \/ Pre \/ PreStopReturn \/ TakeTf \/ TakeInv \/ TakeEnc
    \/ Summer \/ Ends \/ Streamer \/ BloomWorker \/ HandleErrors

Next == Program \/ RegisterFatal \/ WalkerPanics \/ PreStop \/ HandleOSCalls

\* The Go scheduler does not stop while some goroutine can run. No goroutine
\* can take steps for ever, so this is all the fairness that is needed.
Fairness == WF_vars(Program)

Spec == Init /\ [][Next]_vars /\ Fairness
----------------------------------------------------------------------------
(***************************************************************************)
(* Properties                                                              *)
(***************************************************************************)

\* When partitionStreams has closed its streams, the four components got the
\* same documents in the same order, numbered 1, 2, ...: a document is never
\* indexed and not stored, or counted and not indexed. Unless Stop was called
\* they are all the files of the corpus.
StreamsAgree ==
    pPc = "done" =>
        /\ \A s \in Streams : out[s] = out["tf"]
        /\ \A i \in 1 .. Len(out["tf"]) : out["tf"][i].id = i
        /\ ~quit => Len(out["tf"]) = Len(corpus)

\* The X-set filter that goes to the server has the xTags of every document.
UploadsFullXSet ==
    group["uploader"] = "done" /\ ~died =>
        \A d \in Range(out["inv"]) : d.words > 0 => d.id \in xAdded

\* Index leaves no more than one of the goroutines it counts behind, although
\* totalKeyWordSummer calls Done once too often, and if a bucket has words that
\* one is freqBloomSaver, which never ends. An uploader or a streamer whose call
\* failed is done as well, and the document streamer is not counted.
ReturnsComplete ==
    mainPc = "returned" =>
        /\ Cardinality({g \in Groups : group[g] = "run"}) <= 1
        /\ ~BucketsEmpty =>
              \A g \in Groups : group[g] = IF g = "saver" THEN "run" ELSE "done"

\* A corpus of at least two documents, all with words, is indexed without a
\* panic if nothing fails, nobody interrupts and, on a new client, some word
\* belongs in a bucket: totalKeyWordSummer cannot call Done before
\* bloomMaster.Start has called Add, because the second document waits for the
\* mappers to take the first, and afterwards freqBloomSaver, which waits for the
\* bucket to fill, keeps the counter up, or populateBloomFilters on an old client.
NoPanic ==
    /\ Len(corpus) >= 2 /\ \A i \in 1 .. Len(corpus) : corpus[i] > 0
    /\ firstTime => bucketed
    /\ faults = 0
    => ~died

\* Index returns or the process dies, if the client has no saved filters: no
\* component waits for another that waits for it, although the X-set filter
\* is created last and the index generator needs it.
IndexReturns == firstTime => <>(mainPc = "returned" \/ died)

\* Every document reaches all four components, on a client with saved filters
\* too, none of them is left waiting for more, and DocPreprocessor.Stop returns.
PipelineDrains ==
    <>[](died \/ (stopPc # "waiting" /\ \A s \in Streams : Drained(s)))

=============================================================================
