---------------------------- MODULE BloomMaster ----------------------------
(***************************************************************************)
(* client_proxy/bloom_master.go: the goroutines that build the X-set bloom *)
(* filter, uploaded to the search server, and the word-frequency bloom     *)
(* filters, saved to the client's database; and what a restart of the      *)
(* client finds there.                                                     *)
(*                                                                         *)
(* A bloom filter is the set of the items added to it. Its Add is not      *)
(* synchronised, so it is a read step and a write step.                    *)
(***************************************************************************)
EXTENDS Naturals, Sequences, FiniteSets

CONSTANTS
    Buckets,    \* the frequency buckets; numBuckets is their number
    Items,      \* xTags and words
    XSize,      \* the argument of InitXSet: the number of xTags to come
    XAdds,      \* the arguments of the calls of QueueXSetAdd, in order
    FreqSize,   \* the argument of InitFreqBuckets
    FreqAdds,   \* the arguments of the calls of QueueFreqBucketAdd, in order
    Workers,    \* the bloomWorkers
    MaxErrs,    \* bound on failing database and RPC operations
    MaxCrashes, \* bound on crashes of the client
    MayStop     \* whether Stop may be called

NumBuckets == Cardinality(Buckets)

\* The filter of the X-set, beside those of the frequency buckets.
XSet == "xSet"
Filters == Buckets \cup {XSet}

\* What the producers add, over all their calls.
AllXTags == UNION {XAdds[i] : i \in DOMAIN XAdds}
AllWords(b) == UNION {FreqAdds[i].items : i \in {j \in DOMAIN FreqAdds :
                                                 FreqAdds[j].bucket = b}}

ASSUME FilterAssumption ==
    IsFiniteSet(Items) /\ IsFiniteSet(Buckets) /\ XSet \notin Buckets
ASSUME XSizeAssumption == XSize \in Nat
ASSUME XAddsAssumption == XAdds \in Seq(SUBSET Items)
ASSUME FreqSizeAssumption == FreqSize \in [Buckets -> Nat]
ASSUME FreqAddsAssumption ==
    FreqAdds \in Seq([bucket : Buckets, items : SUBSET Items])

\* An xTag is of one word in one document, and bloomStreamer sends each
\* document's once; the count announced covers them all.
ASSUME XTagsAssumption ==
    /\ \A i, j \in DOMAIN XAdds : i # j => XAdds[i] \cap XAdds[j] = {}
    /\ Cardinality(AllXTags) <= XSize

\* A word is sent once and has one bucket, no bucket is sent more words than
\* announced (ResultMap is empty, so in fact none), and the call with what is
\* left over, which may be empty, is then the bucket's only one.
ASSUME WordsAssumption ==
    /\ \A i, j \in DOMAIN FreqAdds : i # j =>
           /\ FreqAdds[i].items \cap FreqAdds[j].items = {}
           /\ FreqAdds[i].bucket = FreqAdds[j].bucket => FreqAdds[i].items # {}
    /\ \A b \in Buckets : Cardinality(AllWords(b)) <= FreqSize[b]

VARIABLES
    mode,      \* "indexing" when isFirstTime, "serving" when the filters were
               \* loaded, "failed" when Start returned an error
    disk,      \* the saved frequency filters, a function on the saved buckets
    msgChan,   \* the message channel
    pos,       \* for each producer, the number of calls it has made
    checked,   \* the producer has found shutdown = 0 and is about to send
    xReady,    \* xSetReady is closed
    freqReady, \* freqBucketsReady is closed
    xFinished, \* xFilterFinished is closed
    filter,    \* the contents of each filter in memory
    xAdded,    \* xNumAddedElements
    current,   \* currentBucketSize
    mutex,     \* the worker holding bucketStatsMtx, or Free
    finished,  \* the finishedFreqBlooms channel
    wPc,       \* bloomWorker: "recv", "add", "write", "count", "send", "done"
    wTo,       \* the filter a worker adds to
    wTodo,     \* the items of its message still to be added
    wItem,     \* the item being added
    wRead,     \* the contents of the filter when Add read it
    wNum,      \* numAdded of handleFreqBucketAdd
    savPc,     \* freqBloomSaver: "recv" or "done"
    numSaved,  \* its counter
    upPc,      \* xFilterUploader: "wait" or "done"
    uploaded,  \* the filters the server was sent
    queryPc,   \* queryHandler: "recv", "done" or "none" if not started
    msg,       \* an error sits in the error handler's Message channel
    errs,      \* number of operations that failed
    stopPc,    \* Stop: "none", "waiting" or "returned"
    panicked,  \* the process died of a panic
    crashes    \* number of restarts

vars == <<mode, disk, msgChan, pos, checked, xReady, freqReady, xFinished,
          filter, xAdded, current, mutex, finished, wPc, wTo, wTodo, wItem,
          wRead, wNum, savPc, numSaved, upPc, uploaded, queryPc, msg, errs, stopPc,
          panicked, crashes>>

chanVars   == <<msgChan, pos, checked>>
readyVars  == <<xReady, freqReady, xFinished>>
freqVars   == <<current, mutex, finished>>
workerVars == <<wPc, wTo, wTodo, wItem, wRead, wNum>>
saverVars  == <<savPc, numSaved, disk>>
upVars     == <<upPc, uploaded>>
procVars   == <<mode, queryPc, msg, errs, stopPc, panicked, crashes>>

\* No worker holds bucketStatsMtx.
Free == "free"

quit == stopPc # "none"
----------------------------------------------------------------------------
(***************************************************************************)
(* The calls of the bloom master's clients: totalKeyWordSummer and then    *)
(* bloomStreamer send the X-set messages, bloomFilterInitializer and then  *)
(* populateBloomFilters those of the frequency buckets.                    *)
(***************************************************************************)
Producers == {XSet, "freq"}

NumCalls(p) == 1 + (IF p = XSet THEN Len(XAdds) ELSE Len(FreqAdds))

\* The message of a call. That it names the call is for the proof only.
Call(p, n) ==
    IF n = 1 THEN [kind |-> "init", to |-> p, items |-> {}, call |-> <<p, n>>]
    ELSE [kind |-> "add",
          to |-> IF p = XSet THEN XSet ELSE FreqAdds[n - 1].bucket,
          items |-> IF p = XSet THEN XAdds[n - 1] ELSE FreqAdds[n - 1].items,
          call |-> <<p, n>>]

MsgCap == 3 * Cardinality(Workers)

\* MUTANT of FinishedCap: one place short.
FinishedCapShort == NumBuckets - 1

FinishedCap == NumBuckets
----------------------------------------------------------------------------
\* newBloomMaster and Start: isFirstTime is that nothing was ever saved. If
\* it is not the first time, all the filters must be on disk, or Start fails;
\* no worker, saver or uploader is started.
BootMode(d) ==
    CASE DOMAIN d = {} -> "indexing"
      [] DOMAIN d = Buckets -> "serving"
      [] OTHER -> "failed"

\* MUTANT of Booted: loadFiltersFromDb decodes the filters and drops them.
BootedEmpty(d) ==
    LET m == BootMode(d)
        started(pc) == IF m = "indexing" THEN pc ELSE "done"
    IN [mode |-> m,
        filter |-> [f \in Filters |-> {}],
        wPc |-> [w \in Workers |-> started("recv")],
        savPc |-> started("recv"),
        upPc |-> started("wait"),
        queryPc |-> IF m = "failed" THEN "none" ELSE "recv"]

\* The state of a process that starts with d in its database, as a record.
Booted(d) ==
    LET m == BootMode(d)
        started(pc) == IF m = "indexing" THEN pc ELSE "done"
    IN [mode |-> m,
        filter |-> [f \in Filters |-> IF m = "serving" /\ f \in Buckets
                                      THEN d[f] ELSE {}],
        wPc |-> [w \in Workers |-> started("recv")],
        savPc |-> started("recv"),
        upPc |-> started("wait"),
        queryPc |-> IF m = "failed" THEN "none" ELSE "recv"]

NothingSaved == [b \in {} |-> {}]

Init ==
    LET p == Booted(NothingSaved)
    IN /\ disk = NothingSaved
       /\ mode = p.mode /\ filter = p.filter /\ wPc = p.wPc
       /\ savPc = p.savPc /\ upPc = p.upPc /\ queryPc = p.queryPc
       /\ msgChan = <<>> /\ pos = [q \in Producers |-> 0]
       /\ checked = [q \in Producers |-> FALSE]
       /\ xReady = FALSE /\ freqReady = FALSE /\ xFinished = FALSE
       /\ xAdded = 0 /\ current = [b \in Buckets |-> 0]
       /\ mutex = Free /\ finished = <<>>
       /\ wTo = [w \in Workers |-> XSet] /\ wTodo = [w \in Workers |-> {}]
       /\ wItem = [w \in Workers |-> {}] /\ wRead = [w \in Workers |-> {}]
       /\ wNum = [w \in Workers |-> 0]
       /\ numSaved = 0 /\ uploaded = {}
       /\ msg = FALSE /\ errs = 0 /\ stopPc = "none"
       /\ panicked = FALSE /\ crashes = 0

\* The client dies, at any moment, and is started again on the same database:
\* everything but the database and what the server received is lost, and
\* Index makes the same calls again.
Crash ==
    /\ crashes < MaxCrashes
    /\ crashes' = crashes + 1
    /\ LET p == Booted(disk)
       IN /\ mode' = p.mode /\ filter' = p.filter /\ wPc' = p.wPc
          /\ savPc' = p.savPc /\ upPc' = p.upPc /\ queryPc' = p.queryPc
    /\ msgChan' = <<>> /\ pos' = [q \in Producers |-> 0]
    /\ checked' = [q \in Producers |-> FALSE]
    /\ xReady' = FALSE /\ freqReady' = FALSE /\ xFinished' = FALSE
    /\ xAdded' = 0 /\ current' = [b \in Buckets |-> 0]
    /\ mutex' = Free /\ finished' = <<>>
    /\ wTo' = [w \in Workers |-> XSet] /\ wTodo' = [w \in Workers |-> {}]
    /\ wItem' = [w \in Workers |-> {}] /\ wRead' = [w \in Workers |-> {}]
    /\ wNum' = [w \in Workers |-> 0]
    /\ numSaved' = 0
    /\ msg' = FALSE /\ stopPc' = "none" /\ panicked' = FALSE
    /\ UNCHANGED <<disk, uploaded, errs>>
----------------------------------------------------------------------------
\* The calls after the first wait until the filters exist.
Ready(p) == pos[p] > 0 => IF p = XSet THEN xReady ELSE freqReady

\* InitXSet, QueueXSetAdd, InitFreqBuckets or QueueFreqBucketAdd reads
\* shutdown, and gives up if it is set ...
CallCheck(p) ==
    /\ ~panicked /\ ~checked[p] /\ pos[p] < NumCalls(p) /\ Ready(p)
    /\ IF quit THEN /\ pos' = [pos EXCEPT ![p] = @ + 1]
                    /\ UNCHANGED checked
               ELSE /\ checked' = [checked EXCEPT ![p] = TRUE]
                    /\ UNCHANGED pos
    /\ UNCHANGED <<msgChan, readyVars, filter, xAdded, freqVars, workerVars,
                   saverVars, upVars, procVars>>

\* ... and then sends, which blocks while the channel is full.
CallSend(p) ==
    /\ ~panicked /\ checked[p] /\ Len(msgChan) < MsgCap
    /\ msgChan' = Append(msgChan, Call(p, pos[p] + 1))
    /\ pos' = [pos EXCEPT ![p] = @ + 1]
    /\ checked' = [checked EXCEPT ![p] = FALSE]
    /\ UNCHANGED <<readyVars, filter, xAdded, freqVars, workerVars, saverVars,
                   upVars, procVars>>
----------------------------------------------------------------------------
(***************************************************************************)
(* bloomWorker                                                             *)
(***************************************************************************)

\* handleXSetInit and handleFreqBucketInit: create the filters, wake waiters.
WInit(w) ==
    /\ ~panicked /\ wPc[w] = "recv" /\ msgChan # <<>>
    /\ Head(msgChan).kind = "init"
    /\ msgChan' = Tail(msgChan)
    /\ IF Head(msgChan).to = XSet
       THEN /\ filter' = [filter EXCEPT ![XSet] = {}]
            /\ xReady' = TRUE
            /\ UNCHANGED freqReady
       ELSE /\ filter' = [f \in Filters |-> IF f = XSet THEN filter[f] ELSE {}]
            /\ freqReady' = TRUE
            /\ UNCHANGED xReady
    /\ UNCHANGED <<pos, checked, xFinished, xAdded, freqVars, workerVars,
                   saverVars, upVars, procVars>>

\* handleXSetAdd and handleFreqBucketAdd start. (A bucket without a filter
\* would be ignored; producers only add once it exists.)
WRecv(w) ==
    /\ ~panicked /\ wPc[w] = "recv" /\ msgChan # <<>>
    /\ Head(msgChan).kind = "add"
    /\ msgChan' = Tail(msgChan)
    /\ wTo' = [wTo EXCEPT ![w] = Head(msgChan).to]
    /\ wTodo' = [wTodo EXCEPT ![w] = Head(msgChan).items]
    /\ wNum' = [wNum EXCEPT ![w] = 0]
    /\ wPc' = [wPc EXCEPT ![w] = "add"]
    /\ UNCHANGED <<pos, checked, readyVars, filter, xAdded, freqVars, wItem,
                   wRead, saverVars, upVars, procVars>>

\* filter.Add reads the filter ...
WAddRead(w, item) ==
    /\ ~panicked /\ wPc[w] = "add" /\ item \in wTodo[w]
    /\ wTodo' = [wTodo EXCEPT ![w] = @ \ {item}]
    /\ wItem' = [wItem EXCEPT ![w] = {item}]
    /\ wRead' = [wRead EXCEPT ![w] = filter[wTo[w]]]
    /\ wPc' = [wPc EXCEPT ![w] = "write"]
    /\ UNCHANGED <<chanVars, readyVars, filter, xAdded, freqVars, wTo, wNum,
                   saverVars, upVars, procVars>>

\* ... and writes it back, here losing what others wrote in between, or not
\* when their bits are in other words of the bit set. Words are counted in
\* numAdded, which no other goroutine sees ...
WAddWrite(w) ==
    /\ ~panicked /\ wPc[w] = "write"
    /\ \E old \in {wRead[w], filter[wTo[w]]} :
          filter' = [filter EXCEPT ![wTo[w]] = old \cup wItem[w]]
    /\ wNum' = [wNum EXCEPT ![w] = @ + 1]
    /\ wItem' = [wItem EXCEPT ![w] = {}]
    /\ wRead' = [wRead EXCEPT ![w] = {}]
    /\ wPc' = [wPc EXCEPT ![w] = IF wTo[w] = XSet THEN "count" ELSE "add"]
    /\ UNCHANGED <<chanVars, readyVars, xAdded, freqVars, wTo, wTodo,
                   saverVars, upVars, procVars>>

\* ... and xTags in xNumAddedElements, which all workers share, by an atomic
\* addition after each Add.
WXSetCount(w) ==
    /\ ~panicked /\ wPc[w] = "count"
    /\ xAdded' = xAdded + 1
    /\ wPc' = [wPc EXCEPT ![w] = "add"]
    /\ UNCHANGED <<chanVars, readyVars, filter, freqVars, wTo, wTodo, wItem,
                   wRead, wNum, saverVars, upVars, procVars>>

\* MUTANT of WXSetCheck: signals one xTag too early, and again at the last.
WXSetCheckEarly(w) ==
    /\ ~panicked /\ wPc[w] = "add" /\ wTodo[w] = {} /\ wTo[w] = XSet
    /\ wPc' = [wPc EXCEPT ![w] = "recv"]
    /\ xFinished' = (xFinished \/ xAdded + 1 >= XSize)
    /\ panicked' = (xFinished /\ xAdded + 1 >= XSize)
    /\ UNCHANGED <<chanVars, xReady, freqReady, filter, xAdded, freqVars, wTo,
                   wTodo, wItem, wRead, wNum, saverVars, upVars, mode, queryPc,
                   msg, errs, stopPc, crashes>>

\* End of handleXSetAdd: signal the uploader when all xTags are counted.
\* Closing xFilterFinished a second time panics.
WXSetCheck(w) ==
    /\ ~panicked /\ wPc[w] = "add" /\ wTodo[w] = {} /\ wTo[w] = XSet
    /\ wPc' = [wPc EXCEPT ![w] = "recv"]
    /\ xFinished' = (xFinished \/ xAdded = XSize)
    /\ panicked' = (xFinished /\ xAdded = XSize)
    /\ UNCHANGED <<chanVars, xReady, freqReady, filter, xAdded, freqVars, wTo,
                   wTodo, wItem, wRead, wNum, saverVars, upVars, mode, queryPc,
                   msg, errs, stopPc, crashes>>

\* MUTANT of WFreqCheck: the count is set, not added to.
WFreqCheckSets(w) ==
    /\ ~panicked /\ wPc[w] = "add" /\ wTodo[w] = {} /\ wTo[w] \in Buckets
    /\ mutex = Free
    /\ current' = [current EXCEPT ![wTo[w]] = wNum[w]]
    /\ IF FreqSize[wTo[w]] = current'[wTo[w]]
       THEN mutex' = w /\ wPc' = [wPc EXCEPT ![w] = "send"]
       ELSE mutex' = mutex /\ wPc' = [wPc EXCEPT ![w] = "recv"]
    /\ UNCHANGED <<chanVars, readyVars, filter, xAdded, finished, wTo, wTodo,
                   wItem, wRead, wNum, saverVars, upVars, procVars>>

\* MUTANT of WFreqCheck: a bucket is sent off one word short of full.
WFreqCheckEarly(w) ==
    /\ ~panicked /\ wPc[w] = "add" /\ wTodo[w] = {} /\ wTo[w] \in Buckets
    /\ mutex = Free
    /\ current' = [current EXCEPT ![wTo[w]] = @ + wNum[w]]
    /\ IF FreqSize[wTo[w]] <= current'[wTo[w]] + 1
       THEN mutex' = w /\ wPc' = [wPc EXCEPT ![w] = "send"]
       ELSE mutex' = mutex /\ wPc' = [wPc EXCEPT ![w] = "recv"]
    /\ UNCHANGED <<chanVars, readyVars, filter, xAdded, finished, wTo, wTodo,
                   wItem, wRead, wNum, saverVars, upVars, procVars>>

\* End of handleFreqBucketAdd: take the lock and count the terms. A bucket
\* that is now full is sent to the saver with the lock held.
WFreqCheck(w) ==
    /\ ~panicked /\ wPc[w] = "add" /\ wTodo[w] = {} /\ wTo[w] \in Buckets
    /\ mutex = Free
    /\ current' = [current EXCEPT ![wTo[w]] = @ + wNum[w]]
    /\ IF FreqSize[wTo[w]] = current'[wTo[w]]
       THEN mutex' = w /\ wPc' = [wPc EXCEPT ![w] = "send"]
       ELSE mutex' = mutex /\ wPc' = [wPc EXCEPT ![w] = "recv"]
    /\ UNCHANGED <<chanVars, readyVars, filter, xAdded, finished, wTo, wTodo,
                   wItem, wRead, wNum, saverVars, upVars, procVars>>

\* The bucket goes to the saver when there is room; then the lock is released.
WFreqSend(w) ==
    /\ ~panicked /\ wPc[w] = "send" /\ Len(finished) < FinishedCap
    /\ finished' = Append(finished, wTo[w])
    /\ mutex' = Free
    /\ wPc' = [wPc EXCEPT ![w] = "recv"]
    /\ UNCHANGED <<chanVars, readyVars, filter, xAdded, current, wTo, wTodo,
                   wItem, wRead, wNum, saverVars, upVars, procVars>>

\* msgChan is never closed: a worker only leaves when quit is.
WEnd(w) ==
    /\ ~panicked /\ wPc[w] = "recv" /\ quit
    /\ wPc' = [wPc EXCEPT ![w] = "done"]
    /\ UNCHANGED <<chanVars, readyVars, filter, xAdded, freqVars, wTo, wTodo,
                   wItem, wRead, wNum, saverVars, upVars, procVars>>
----------------------------------------------------------------------------
(***************************************************************************)
(* freqBloomSaver, xFilterUploader, queryHandler                           *)
(***************************************************************************)

\* b.abort(b.quit, err)
Abort ==
    /\ errs < MaxErrs
    /\ errs' = errs + 1
    /\ \/ ~msg /\ msg' = TRUE
       \/ quit /\ msg' = msg

\* MUTANT of SaverSave: the loop ends one bucket early.
SaverSaveStopsEarly ==
    /\ ~panicked /\ savPc = "recv" /\ finished # <<>>
    /\ \/ /\ disk' = [b \in DOMAIN disk \cup {Head(finished)} |->
                         IF b = Head(finished) THEN filter[b] ELSE disk[b]]
          /\ UNCHANGED <<msg, errs>>
       \/ Abort /\ UNCHANGED disk
    /\ finished' = Tail(finished)
    /\ numSaved' = numSaved + 1
    /\ savPc' = IF numSaved + 2 < NumBuckets THEN "recv" ELSE "done"
    /\ UNCHANGED <<chanVars, readyVars, filter, xAdded, current, mutex,
                   workerVars, upVars, mode, queryPc, stopPc, panicked, crashes>>

\* One transaction saves a finished filter as it is now. A failure is
\* reported, and counted all the same.
SaverSave ==
    /\ ~panicked /\ savPc = "recv" /\ finished # <<>>
    /\ \/ /\ disk' = [b \in DOMAIN disk \cup {Head(finished)} |->
                         IF b = Head(finished) THEN filter[b] ELSE disk[b]]
          /\ UNCHANGED <<msg, errs>>
       \/ Abort /\ UNCHANGED disk
    /\ finished' = Tail(finished)
    /\ numSaved' = numSaved + 1
    /\ savPc' = IF numSaved + 1 < NumBuckets THEN "recv" ELSE "done"
    /\ UNCHANGED <<chanVars, readyVars, filter, xAdded, current, mutex,
                   workerVars, upVars, mode, queryPc, stopPc, panicked, crashes>>

SaverQuit ==
    /\ ~panicked /\ savPc = "recv" /\ quit
    /\ savPc' = "done"
    /\ UNCHANGED <<chanVars, readyVars, filter, xAdded, freqVars, workerVars,
                   numSaved, disk, upVars, procVars>>

\* Encode and upload the X-set filter as it is now.
UploaderUpload ==
    /\ ~panicked /\ upPc = "wait" /\ xFinished
    /\ \/ uploaded' = uploaded \cup {filter[XSet]} /\ UNCHANGED <<msg, errs>>
       \/ Abort /\ UNCHANGED uploaded
    /\ upPc' = "done"
    /\ UNCHANGED <<chanVars, readyVars, filter, xAdded, freqVars, workerVars,
                   saverVars, mode, queryPc, stopPc, panicked, crashes>>

UploaderQuit ==
    /\ ~panicked /\ upPc = "wait" /\ quit
    /\ upPc' = "done"
    /\ UNCHANGED <<chanVars, readyVars, filter, xAdded, freqVars, workerVars,
                   saverVars, uploaded, procVars>>

\* queryHandler answers with a bucket whose filter holds the word, in the
\* order the map is ranged over, or with BucketUnknown.
QueryAnswers(word) ==
    LET holding == {b \in Buckets : word \in filter[b]}
    IN IF holding = {} THEN {"BucketUnknown"} ELSE holding

QueryQuit ==
    /\ ~panicked /\ queryPc = "recv" /\ quit
    /\ queryPc' = "done"
    /\ UNCHANGED <<chanVars, readyVars, filter, xAdded, freqVars, workerVars,
                   saverVars, upVars, mode, msg, errs, stopPc, panicked, crashes>>
----------------------------------------------------------------------------
Stop ==
    /\ ~panicked /\ MayStop /\ stopPc = "none"
    /\ stopPc' = "waiting"
    /\ UNCHANGED <<chanVars, readyVars, filter, xAdded, freqVars, workerVars,
                   saverVars, upVars, mode, queryPc, msg, errs, panicked, crashes>>

StopReturn ==
    /\ ~panicked /\ stopPc = "waiting"
    /\ savPc = "done" /\ upPc = "done" /\ queryPc # "recv"
    /\ \A w \in Workers : wPc[w] = "done"
    /\ stopPc' = "returned"
    /\ UNCHANGED <<chanVars, readyVars, filter, xAdded, freqVars, workerVars,
                   saverVars, upVars, mode, queryPc, msg, errs, panicked, crashes>>

\* handleErrors calls the nil entries of stopFuncs.
HandleErrors ==
    /\ ~panicked /\ msg
    /\ panicked' = TRUE
    /\ UNCHANGED <<chanVars, readyVars, filter, xAdded, freqVars, workerVars,
                   saverVars, upVars, mode, queryPc, msg, errs, stopPc, crashes>>
----------------------------------------------------------------------------
Producer(p) == CallCheck(p) \/ CallSend(p)

Worker(w) == \/ WInit(w) \/ WRecv(w) \/ WAddWrite(w) \/ WXSetCount(w)
             \/ WXSetCheck(w) \/ WFreqCheck(w) \/ WFreqSend(w) \/ WEnd(w)
             \/ \E item \in Items : WAddRead(w, item)

Saver == SaverSave \/ SaverQuit

Uploader == UploaderUpload \/ UploaderQuit

Next ==
    \/ \E p \in Producers : Producer(p)
    \/ \E w \in Workers : Worker(w)
    \/ Saver \/ Uploader \/ QueryQuit
    \/ Stop \/ StopReturn \/ HandleErrors \/ Crash

\* Goroutines that can run do; crashes and Stop happen or not.
Fairness ==
    /\ \A p \in Producers : WF_vars(Producer(p))
    /\ \A w \in Workers : WF_vars(Worker(w))
    /\ WF_vars(Saver) /\ WF_vars(Uploader) /\ WF_vars(QueryQuit)
    /\ WF_vars(StopReturn) /\ WF_vars(HandleErrors)

Spec == Init /\ [][Next]_vars

FairSpec == Spec /\ Fairness
----------------------------------------------------------------------------
(***************************************************************************)
(* Properties                                                              *)
(***************************************************************************)

\* The filter the server receives holds every xTag: it is uploaded only after
\* the last one was added (the element counter, not the messages, decides).
UploadComplete == \A u \in uploaded : u = AllXTags

\* A frequency filter on disk holds every word of its bucket, whatever
\* crashes came between two saves.
SavedComplete == \A b \in DOMAIN disk : disk[b] = AllWords(b)

\* After a restart that loads the filters, queries are answered from what was
\* indexed before: each word is in its bucket and in no other (up to the
\* false positives of a bloom filter, which the sets do not have).
RestartAnswers ==
    mode = "serving" =>
        \A b \in Buckets : \A word \in AllWords(b) : QueryAnswers(word) = {b}

\* The saver leaves its loop only when every bucket is on disk (unless it was
\* stopped or a transaction failed).
SaverDoneAllSaved ==
    savPc = "done" /\ ~quit /\ errs = 0 /\ mode = "indexing" => DOMAIN disk = Buckets

\* The uploader and the saver of a client get to their end, whenever it was
\* started again, unless an operation fails or Stop is called.
Completes == <>[]((upPc = "done" /\ savPc = "done") \/ errs > 0 \/ quit)

\* Stop returns: no worker stays blocked on a full finishedFreqBlooms once
\* the saver is gone, because the channel has room for every bucket.
StopReturns == stopPc = "waiting" ~> (stopPc = "returned" \/ panicked)

\* What newBloomMaster asks: on a start that is not the first, all the filters
\* are saved.
NotFirstTimeAllSaved == mode # "indexing" => DOMAIN disk = Buckets
=============================================================================
