---------------------- MODULE EncryptedIndexGenerator ----------------------
(***************************************************************************)
(* client_proxy/encrypted_index.go: the goroutines that turn the inverted  *)
(* index of every document into T-set fragments, streamed to the search    *)
(* server, and xTags, queued at the bloom master.                          *)
(*                                                                         *)
(*   incomingDocuments -> chanSplitter -> xSetWorker -> senders            *)
(*                              |                         | finishedXtags  *)
(*                              |                      bloomStreamer       *)
(*                              +-----> tSetWorker -> server               *)
(*                                      tSetJanitor -> server              *)
(*                                                                         *)
(* A channel without a buffer is a joint step of its sender and receiver.  *)
(* A keyed PRF is modelled by what was written into it since its last      *)
(* Reset, the only thing its Sum depends on. The words it was fed are kept *)
(* apart, where cmac sees their concatenation: no property relies on two   *)
(* different sequences of words having different stags.                    *)
(***************************************************************************)
EXTENDS Integers, Sequences, FiniteSets, SequencesExt

CONSTANTS
    Docs,      \* ids of the documents of the corpus (NextDocId starts at 1)
    Words,     \* the words that occur in the corpus
    DocWords,  \* the keys of InvIndexDocument.Words, for each document
    Workers,   \* numWorkers: names one xSetWorker and one tSetWorker each
    MaxErrs,   \* bound on the number of failing stream operations
    MayStop    \* whether Stop may be called

ASSUME DocsAssumption == Docs \subseteq Nat \ {0} /\ IsFiniteSet(Docs)
ASSUME DocWordsAssumption == DocWords \in [Docs -> SUBSET Words]
ASSUME WordsAssumption == IsFiniteSet(Words)
ASSUME WorkersAssumption == Workers # {}
ASSUME MaxErrsAssumption == MaxErrs \in Nat
ASSUME MayStopAssumption == MayStop \in BOOLEAN

VARIABLES
    unsent,   \* documents not yet taken from incomingDocuments
    splPc,    \* chanSplitter: "recv", "sendX", "sendT" or "done"
    splDoc,   \* the document chanSplitter is copying, 0 if none
    xPc,      \* xSetWorker: "recv", "tags" or "done"
    xDoc,     \* the document of each xSetWorker, 0 if none
    xFresh,   \* indBuf still holds the four zero bytes it was created with
    xtags,    \* the xTags computed for each document
    sender,   \* the goroutine sending a document's xTags: "none" before it
              \* is spawned, "wait", "sent" or "done"
    pending,  \* pendingXSends
    closer,   \* the goroutine of closeXtagChan: "none" before closeOnce,
              \* "spin", "closing" or "closed"
    xInit,    \* the bloom master has created the X-set filter
    strPc,    \* bloomStreamer: "wait", "recv", "queue" or "done"
    strDoc,   \* the document whose xTags bloomStreamer holds
    queued,   \* documents whose xTags reached QueueXSetAdd
    counter,  \* wordIndexCounter; count is 0 for a word not in the map
    tPc,      \* tSetWorker: "open", "recv", "words", "send" or "done"
    tDoc,     \* the document of each tSetWorker, 0 if none
    tTodo,    \* words of that document still to be indexed
    tPrf,     \* what sTagPRF has been fed since its last Reset
    tFrag,    \* the fragment each tSetWorker is about to Send
    tStream,  \* whether the worker's UploadTSet stream was opened
    jPc,      \* tSetJanitor: "wait", "open", "mark" or "done"
    jTodo,    \* words whose end marker the janitor still has to send
    jStream,  \* whether the janitor's stream was opened
    tset,     \* fragments the server was sent
    msg,      \* an error sits in the error handler's Message channel
    errs,     \* number of stream operations that failed
    stopPc,   \* Stop: "none", "waiting" in wg.Wait, or "returned"
    panicked  \* the process died

splVars == <<unsent, splPc, splDoc>>
xVars   == <<xPc, xDoc, xFresh, xtags>>
sndVars == <<sender, pending, closer>>
strVars == <<xInit, strPc, strDoc, queued>>
tVars   == <<tPc, tDoc, tTodo, tPrf, tFrag, tStream>>
jVars   == <<jPc, jTodo, jStream>>
errVars == <<msg, errs>>
vars == <<splVars, xVars, sndVars, strVars, tVars, jVars, counter, tset,
          errVars, stopPc, panicked>>

\* Stop closes the quit channel before it waits.
quit == stopPc # "none"

XTag == [wtag : Seq(Words), xind : Seq(Docs \cup {0})]

\* The plaintext content of a TSetFragment. Its server-side address (bucket
\* and label) and its pad are functions of stag and index alone.
Fragment == [word : Words, stag : Seq(Words), index : Nat \ {0},
             id : Docs, last : BOOLEAN]

NoFragment == [index |-> 0]
----------------------------------------------------------------------------
(***************************************************************************)
(* The values the workers compute.                                         *)
(***************************************************************************)

\* MUTANT of Incremented: lastId is updated, count is not.
IncrementLost(w, d) == [counter EXCEPT ![w] = [count |-> @.count, lastId |-> d]]

\* readThenIncrement: under the counter's lock.
Incremented(w, d) == [counter EXCEPT ![w] = [count |-> @.count + 1, lastId |-> d]]

\* MUTANT of TsetTuple: called with blindCounter, one less than docCounter.
TsetTupleBlind(prf, w, i, d, isLast) ==
    [word |-> w, stag |-> Append(prf, w), index |-> i - 1, id |-> d,
     last |-> isLast]

\* calcTsetTuple, prf being what sTagPRF was fed before this word.
TsetTuple(prf, w, i, d, isLast) ==
    [word |-> w, stag |-> Append(prf, w), index |-> i, id |-> d,
     last |-> isLast]

\* The xTags of document d, its words taken in the given order. Neither PRF
\* is Reset between two words, so the i-th xTag is computed from the first i
\* words and from i copies of the document id, which follow the zero bytes
\* indBuf holds when the worker handles its first document.
XTagsOf(order, d, fresh) ==
    { [wtag |-> SubSeq(order, 1, i),
       xind |-> (IF fresh THEN <<0>> ELSE <<>>) \o [j \in 1 .. i |-> d]] :
          i \in 1 .. Len(order) }

\* sTagPRF as the next document finds it.
PrfReset(prf) == <<>>
----------------------------------------------------------------------------
\* NewEncryptedIndexGenerator, then Start.
Init ==
    /\ unsent = Docs /\ splPc = "recv" /\ splDoc = 0
    /\ xPc = [w \in Workers |-> "recv"]
    /\ xDoc = [w \in Workers |-> 0]
    /\ xFresh = [w \in Workers |-> TRUE]
    /\ xtags = [d \in Docs |-> {}]
    /\ sender = [d \in Docs |-> "none"] /\ pending = 0 /\ closer = "none"
    /\ xInit = FALSE /\ strPc = "wait" /\ strDoc = 0 /\ queued = {}
    /\ counter = [w \in Words |-> [count |-> 0, lastId |-> 0]]
    /\ tPc = [w \in Workers |-> "open"]
    /\ tDoc = [w \in Workers |-> 0]
    /\ tTodo = [w \in Workers |-> {}]
    /\ tPrf = [w \in Workers |-> <<>>]
    /\ tFrag = [w \in Workers |-> NoFragment]
    /\ tStream = [w \in Workers |-> FALSE]
    /\ jPc = "wait" /\ jTodo = {} /\ jStream = FALSE
    /\ tset = {}
    /\ msg = FALSE /\ errs = 0 /\ stopPc = "none" /\ panicked = FALSE

(***************************************************************************)
(* e.abort(e.quit, err) after a stream operation failed: it returns once   *)
(* the Message channel has room, or at any time after Stop.                *)
(***************************************************************************)
Abort ==
    /\ errs < MaxErrs
    /\ errs' = errs + 1
    /\ \/ ~msg /\ msg' = TRUE
       \/ quit /\ msg' = msg

\* A goroutine uses a nil stream or sends on a closed channel.
Panic ==
    /\ panicked' = TRUE
    /\ UNCHANGED <<splVars, xVars, sndVars, strVars, tVars, jVars, counter,
                   tset, errVars, stopPc>>
----------------------------------------------------------------------------
(***************************************************************************)
(* chanSplitter                                                            *)
(***************************************************************************)
SplitterRecv(d) ==
    /\ ~panicked /\ splPc = "recv" /\ d \in unsent
    /\ unsent' = unsent \ {d}
    /\ splDoc' = d
    /\ splPc' = "sendX"
    /\ UNCHANGED <<xVars, sndVars, strVars, tVars, jVars, counter, tset,
                   errVars, stopPc, panicked>>

\* MUTANT of SplitterEnd: leaves with documents still in incomingDocuments.
SplitterEndEarly ==
    /\ ~panicked /\ splPc = "recv"
    /\ splPc' = "done"
    /\ UNCHANGED <<unsent, splDoc, xVars, sndVars, strVars, tVars, jVars,
                   counter, tset, errVars, stopPc, panicked>>

\* incomingDocuments is closed and drained, or quit is: close both outputs.
SplitterEnd ==
    /\ ~panicked /\ splPc = "recv"
    /\ unsent = {} \/ quit
    /\ splPc' = "done"
    /\ UNCHANGED <<unsent, splDoc, xVars, sndVars, strVars, tVars, jVars,
                   counter, tset, errVars, stopPc, panicked>>

\* xSetChan <- docIndex meets case index := <-workChan of xSetWorker x.
SplitterSendX(x) ==
    /\ ~panicked /\ splPc = "sendX" /\ xPc[x] = "recv"
    /\ splPc' = "sendT"
    /\ xPc' = [xPc EXCEPT ![x] = "tags"]
    /\ xDoc' = [xDoc EXCEPT ![x] = splDoc]
    /\ UNCHANGED <<unsent, splDoc, xFresh, xtags, sndVars, strVars, tVars,
                   jVars, counter, tset, errVars, stopPc, panicked>>

\* tSetChan <- docIndex meets case index := <-workChan of tSetWorker t.
SplitterSendT(t) ==
    /\ ~panicked /\ splPc = "sendT" /\ tPc[t] = "recv"
    /\ splPc' = "recv"
    /\ splDoc' = 0
    /\ tPc' = [tPc EXCEPT ![t] = "words"]
    /\ tDoc' = [tDoc EXCEPT ![t] = splDoc]
    /\ tTodo' = [tTodo EXCEPT ![t] = DocWords[splDoc]]
    /\ UNCHANGED <<unsent, tPrf, tFrag, tStream, xVars, sndVars, strVars,
                   jVars, counter, tset, errVars, stopPc, panicked>>
----------------------------------------------------------------------------
(***************************************************************************)
(* xSetWorker, the goroutine that sends each document's xTags, and the     *)
(* goroutine that closes finishedXtags                                     *)
(***************************************************************************)

\* Compute the xTags, count the pending send, spawn its goroutine, and Reset.
XCompute(x) ==
    /\ ~panicked /\ xPc[x] = "tags"
    /\ \E order \in SetToSeqs(DocWords[xDoc[x]]) :
          xtags' = [xtags EXCEPT ![xDoc[x]] = XTagsOf(order, xDoc[x], xFresh[x])]
    /\ xFresh' = [xFresh EXCEPT ![x] = FALSE]
    /\ pending' = pending + 1
    /\ sender' = [sender EXCEPT ![xDoc[x]] = "wait"]
    /\ xPc' = [xPc EXCEPT ![x] = "recv"]
    /\ xDoc' = [xDoc EXCEPT ![x] = 0]
    /\ UNCHANGED <<splVars, closer, strVars, tVars, jVars, counter, tset,
                   errVars, stopPc, panicked>>

\* workChan is closed, or quit is: closeOnce.Do(closeXtagChan) and leave.
XEnd(x) ==
    /\ ~panicked /\ xPc[x] = "recv"
    /\ splPc = "done" \/ quit
    /\ xPc' = [xPc EXCEPT ![x] = "done"]
    /\ closer' = IF closer = "none" THEN "spin" ELSE closer
    /\ UNCHANGED <<splVars, xDoc, xFresh, xtags, sender, pending, strVars,
                   tVars, jVars, counter, tset, errVars, stopPc, panicked>>

\* finishedXtags <- xTags meets the receive of bloomStreamer.
SenderSend(d) ==
    /\ ~panicked /\ sender[d] = "wait" /\ xInit /\ strPc = "recv"
    /\ closer # "closed"
    /\ sender' = [sender EXCEPT ![d] = "sent"]
    /\ strPc' = "queue"
    /\ strDoc' = d
    /\ UNCHANGED <<splVars, xVars, pending, closer, xInit, queued, tVars,
                   jVars, counter, tset, errVars, stopPc, panicked>>

\* finishedXtags <- xTags after close(finishedXtags) panics.
SenderPanics(d) ==
    /\ ~panicked /\ sender[d] = "wait" /\ xInit /\ closer = "closed"
    /\ Panic

\* MUTANT of SenderDone: pendingXSends is never decremented.
SenderForgetsPending(d) ==
    /\ ~panicked /\ sender[d] = "sent"
    /\ sender' = [sender EXCEPT ![d] = "done"]
    /\ UNCHANGED <<splVars, xVars, pending, closer, strVars, tVars, jVars,
                   counter, tset, errVars, stopPc, panicked>>

SenderDone(d) ==
    /\ ~panicked /\ sender[d] = "sent"
    /\ pending' = pending - 1
    /\ sender' = [sender EXCEPT ![d] = "done"]
    /\ UNCHANGED <<splVars, xVars, closer, strVars, tVars, jVars, counter,
                   tset, errVars, stopPc, panicked>>

\* MUTANT of CloserSeesZero: closes without waiting for the pending sends.
CloserDoesNotWait ==
    /\ ~panicked /\ closer = "spin"
    /\ closer' = "closing"
    /\ UNCHANGED <<splVars, xVars, sender, pending, strVars, tVars, jVars,
                   counter, tset, errVars, stopPc, panicked>>

\* The spin on pendingXSends sees 0 ...
CloserSeesZero ==
    /\ ~panicked /\ closer = "spin" /\ pending = 0
    /\ closer' = "closing"
    /\ UNCHANGED <<splVars, xVars, sender, pending, strVars, tVars, jVars,
                   counter, tset, errVars, stopPc, panicked>>

\* ... and finishedXtags is closed.
CloserCloses ==
    /\ ~panicked /\ closer = "closing"
    /\ closer' = "closed"
    /\ UNCHANGED <<splVars, xVars, sender, pending, strVars, tVars, jVars,
                   counter, tset, errVars, stopPc, panicked>>
----------------------------------------------------------------------------
(***************************************************************************)
(* bloomStreamer                                                           *)
(***************************************************************************)

\* The bloom master creates the X-set filter. It is asked to by
\* totalKeyWordSummer after the last document left the preprocessor, when at
\* most that one is still in the buffer of incomingDocuments.
BloomXSetInit ==
    /\ ~panicked /\ ~xInit /\ Cardinality(unsent) <= 1
    /\ xInit' = TRUE
    /\ UNCHANGED <<splVars, xVars, sndVars, strPc, strDoc, queued, tVars,
                   jVars, counter, tset, errVars, stopPc, panicked>>

StreamerStart ==
    /\ ~panicked /\ strPc = "wait" /\ xInit
    /\ strPc' = "recv"
    /\ UNCHANGED <<splVars, xVars, sndVars, xInit, strDoc, queued, tVars,
                   jVars, counter, tset, errVars, stopPc, panicked>>

\* QueueXSetAdd of the xTags received.
StreamerQueue ==
    /\ ~panicked /\ strPc = "queue"
    /\ queued' = queued \cup {strDoc}
    /\ strPc' = "recv"
    /\ strDoc' = 0
    /\ UNCHANGED <<splVars, xVars, sndVars, xInit, tVars, jVars, counter,
                   tset, errVars, stopPc, panicked>>

StreamerEnd ==
    /\ ~panicked /\ strPc = "recv"
    /\ closer = "closed" \/ quit
    /\ strPc' = "done"
    /\ UNCHANGED <<splVars, xVars, sndVars, xInit, strDoc, queued, tVars,
                   jVars, counter, tset, errVars, stopPc, panicked>>
----------------------------------------------------------------------------
(***************************************************************************)
(* tSetWorker                                                              *)
(***************************************************************************)
TOpen(t) ==
    /\ ~panicked /\ tPc[t] = "open"
    /\ tPc' = [tPc EXCEPT ![t] = "recv"]
    /\ \/ /\ tStream' = [tStream EXCEPT ![t] = TRUE]
          /\ UNCHANGED errVars
       \/ /\ Abort
          /\ UNCHANGED tStream
    /\ UNCHANGED <<splVars, xVars, sndVars, strVars, tDoc, tTodo, tPrf, tFrag,
                   jVars, counter, tset, stopPc, panicked>>

\* The next word of the document: take its index and compute the fragment.
TIndexWord(t, w) ==
    /\ ~panicked /\ tPc[t] = "words" /\ w \in tTodo[t]
    /\ counter' = Incremented(w, tDoc[t])
    /\ tFrag' = [tFrag EXCEPT ![t] =
                    TsetTuple(tPrf[t], w, counter[w].count + 1, tDoc[t], FALSE)]
    /\ tPrf' = [tPrf EXCEPT ![t] = Append(tPrf[t], w)]
    /\ tTodo' = [tTodo EXCEPT ![t] = tTodo[t] \ {w}]
    /\ tPc' = [tPc EXCEPT ![t] = "send"]
    /\ UNCHANGED <<splVars, xVars, sndVars, strVars, tDoc, tStream, jVars,
                   tset, errVars, stopPc, panicked>>

\* tSetStream.Send: the fragment reaches the server, or is lost and reported.
TSend(t) ==
    /\ ~panicked /\ tPc[t] = "send" /\ tStream[t]
    /\ \/ /\ tset' = tset \cup {tFrag[t]}
          /\ UNCHANGED errVars
       \/ /\ Abort
          /\ UNCHANGED tset
    /\ tPc' = [tPc EXCEPT ![t] = "words"]
    /\ tFrag' = [tFrag EXCEPT ![t] = NoFragment]
    /\ UNCHANGED <<splVars, xVars, sndVars, strVars, tDoc, tTodo, tPrf,
                   tStream, jVars, counter, stopPc, panicked>>

\* All words done: Reset the PRFs and select again.
TDocDone(t) ==
    /\ ~panicked /\ tPc[t] = "words" /\ tTodo[t] = {}
    /\ tPrf' = [tPrf EXCEPT ![t] = PrfReset(tPrf[t])]
    /\ tDoc' = [tDoc EXCEPT ![t] = 0]
    /\ tPc' = [tPc EXCEPT ![t] = "recv"]
    /\ UNCHANGED <<splVars, xVars, sndVars, strVars, tTodo, tFrag, tStream,
                   jVars, counter, tset, errVars, stopPc, panicked>>

\* workChan is closed: CloseAndRecv (its error is ignored) and leave.
\* quit is closed: leave without closing the stream.
TEnd(t) ==
    /\ ~panicked /\ tPc[t] = "recv"
    /\ (splPc = "done" /\ tStream[t]) \/ quit
    /\ tPc' = [tPc EXCEPT ![t] = "done"]
    /\ UNCHANGED <<splVars, xVars, sndVars, strVars, tDoc, tTodo, tPrf, tFrag,
                   tStream, jVars, counter, tset, errVars, stopPc, panicked>>

\* Send or CloseAndRecv on the stream that UploadTSet failed to open.
TPanics(t) ==
    /\ ~panicked /\ ~tStream[t]
    /\ tPc[t] = "send" \/ (tPc[t] = "recv" /\ splPc = "done")
    /\ Panic
----------------------------------------------------------------------------
(***************************************************************************)
(* tSetJanitor                                                             *)
(***************************************************************************)

\* MUTANT of JWait: the janitor waits for one worker only.
JWaitsForOne ==
    /\ ~panicked /\ jPc = "wait"
    /\ \E t \in Workers : tPc[t] = "done"
    /\ jPc' = "open"
    /\ UNCHANGED <<splVars, xVars, sndVars, strVars, tVars, jTodo, jStream,
                   counter, tset, errVars, stopPc, panicked>>

\* janitorWG.Wait returns: every tSetWorker is done.
JWait ==
    /\ ~panicked /\ jPc = "wait"
    /\ \A t \in Workers : tPc[t] = "done"
    /\ jPc' = "open"
    /\ UNCHANGED <<splVars, xVars, sndVars, strVars, tVars, jTodo, jStream,
                   counter, tset, errVars, stopPc, panicked>>

\* MUTANT of JOpen: words of a single document get no end marker.
JOpenSkipsRareWords ==
    /\ ~panicked /\ jPc = "open"
    /\ jPc' = "mark"
    /\ jTodo' = {w \in Words : counter[w].count > 1}
    /\ \/ /\ jStream' = TRUE
          /\ UNCHANGED errVars
       \/ /\ Abort
          /\ UNCHANGED jStream
    /\ UNCHANGED <<splVars, xVars, sndVars, strVars, tVars, counter, tset,
                   stopPc, panicked>>

\* Open a stream and range over the counter.
JOpen ==
    /\ ~panicked /\ jPc = "open"
    /\ jPc' = "mark"
    /\ jTodo' = {w \in Words : counter[w].count > 0}
    /\ \/ /\ jStream' = TRUE
          /\ UNCHANGED errVars
       \/ /\ Abort
          /\ UNCHANGED jStream
    /\ UNCHANGED <<splVars, xVars, sndVars, strVars, tVars, counter, tset,
                   stopPc, panicked>>

\* Send the end marker of a word, one past its last index. The PRFs are
\* Reset after every word here.
JMark(w) ==
    /\ ~panicked /\ jPc = "mark" /\ w \in jTodo /\ jStream
    /\ jTodo' = jTodo \ {w}
    /\ \/ /\ tset' = tset \cup {TsetTuple(<<>>, w, counter[w].count + 1,
                                          counter[w].lastId, TRUE)}
          /\ UNCHANGED errVars
       \/ /\ Abort
          /\ UNCHANGED tset
    /\ UNCHANGED <<splVars, xVars, sndVars, strVars, tVars, jPc, jStream,
                   counter, stopPc, panicked>>

JEnd ==
    /\ ~panicked /\ jPc = "mark" /\ jTodo = {} /\ jStream
    /\ jPc' = "done"
    /\ UNCHANGED <<splVars, xVars, sndVars, strVars, tVars, jTodo, jStream,
                   counter, tset, errVars, stopPc, panicked>>

\* Send or CloseAndRecv on the stream that UploadTSet failed to open.
JPanics == ~panicked /\ jPc = "mark" /\ ~jStream /\ Panic
----------------------------------------------------------------------------
(***************************************************************************)
(* Stop and the error handler                                              *)
(***************************************************************************)
Stop ==
    /\ ~panicked /\ MayStop /\ stopPc = "none"
    /\ stopPc' = "waiting"
    /\ UNCHANGED <<splVars, xVars, sndVars, strVars, tVars, jVars, counter,
                   tset, errVars, panicked>>

\* The goroutines counted by e.wg have all called Done.
GoroutinesDone ==
    /\ splPc = "done" /\ strPc = "done" /\ jPc = "done"
    /\ \A w \in Workers : xPc[w] = "done" /\ tPc[w] = "done"

StopReturn ==
    /\ ~panicked /\ stopPc = "waiting" /\ GoroutinesDone
    /\ stopPc' = "returned"
    /\ UNCHANGED <<splVars, xVars, sndVars, strVars, tVars, jVars, counter,
                   tset, errVars, panicked>>

\* handleErrors ranges over stopFuncs, whose first ten entries are nil.
HandleErrors == ~panicked /\ msg /\ Panic

\* Nothing is left to do.
Terminated ==
    /\ panicked \/ (GoroutinesDone /\ (MayStop => stopPc = "returned"))
    /\ UNCHANGED vars
----------------------------------------------------------------------------
Splitter == \/ \E d \in Docs : SplitterRecv(d)
            \/ SplitterEnd
            \/ \E w \in Workers : SplitterSendX(w) \/ SplitterSendT(w)

XWorker(x) == XCompute(x) \/ XEnd(x)

Sender(d) == SenderSend(d) \/ SenderPanics(d) \/ SenderDone(d)

Closer == CloserSeesZero \/ CloserCloses

Streamer == StreamerStart \/ StreamerQueue \/ StreamerEnd

TWorker(t) == \/ TOpen(t) \/ TSend(t) \/ TDocDone(t) \/ TEnd(t) \/ TPanics(t)
              \/ \E w \in Words : TIndexWord(t, w)

Janitor == \/ JWait \/ JOpen \/ JEnd \/ JPanics
           \/ \E w \in Words : JMark(w)

Next ==
    \/ Splitter
    \/ \E w \in Workers : XWorker(w) \/ TWorker(w)
    \/ \E d \in Docs : Sender(d)
    \/ Closer \/ BloomXSetInit \/ Streamer \/ Janitor
    \/ Stop \/ StopReturn \/ HandleErrors \/ Terminated

\* The Go scheduler runs every goroutine that can run. The decision to Stop
\* is the caller's.
Fairness ==
    /\ WF_vars(Splitter)
    /\ \A w \in Workers : WF_vars(XWorker(w)) /\ WF_vars(TWorker(w))
    /\ \A d \in Docs : WF_vars(Sender(d))
    /\ WF_vars(Closer) /\ WF_vars(BloomXSetInit) /\ WF_vars(Streamer)
    /\ WF_vars(Janitor) /\ WF_vars(StopReturn) /\ WF_vars(HandleErrors)

Spec == Init /\ [][Next]_vars

FairSpec == Spec /\ Fairness
----------------------------------------------------------------------------
(***************************************************************************)
(* Properties                                                              *)
(***************************************************************************)

\* Every variable keeps its type; the fragment a tSetWorker is about to Send
\* is always a complete one.
TypeOK ==
    /\ unsent \subseteq Docs
    /\ splPc \in {"recv", "sendX", "sendT", "done"}
    /\ splDoc \in Docs \cup {0}
    /\ splPc \in {"sendX", "sendT"} => splDoc \in Docs
    /\ xPc \in [Workers -> {"recv", "tags", "done"}]
    /\ xDoc \in [Workers -> Docs \cup {0}]
    /\ \A x \in Workers : xPc[x] = "tags" => xDoc[x] \in Docs
    /\ xFresh \in [Workers -> BOOLEAN]
    /\ xtags \in [Docs -> SUBSET XTag]
    /\ sender \in [Docs -> {"none", "wait", "sent", "done"}]
    /\ pending \in Int
    /\ closer \in {"none", "spin", "closing", "closed"}
    /\ xInit \in BOOLEAN
    /\ strPc \in {"wait", "recv", "queue", "done"}
    /\ strDoc \in Docs \cup {0}
    /\ strPc = "queue" => strDoc \in Docs
    /\ queued \subseteq Docs
    /\ counter \in [Words -> [count : Nat, lastId : Docs \cup {0}]]
    /\ tPc \in [Workers -> {"open", "recv", "words", "send", "done"}]
    /\ tDoc \in [Workers -> Docs \cup {0}]
    /\ tTodo \in [Workers -> SUBSET Words]
    /\ tPrf \in [Workers -> Seq(Words)]
    /\ tFrag \in [Workers -> Fragment \cup {NoFragment}]
    /\ \A t \in Workers : /\ tPc[t] \in {"words", "send"} => tDoc[t] \in Docs
                          /\ tPc[t] = "send" => tFrag[t] \in Fragment
    /\ tStream \in [Workers -> BOOLEAN]
    /\ jPc \in {"wait", "open", "mark", "done"}
    /\ \A w \in Words : counter[w].count > 0 => counter[w].lastId \in Docs
    /\ jTodo \subseteq {w \in Words : counter[w].count > 0}
    /\ jStream \in BOOLEAN
    /\ tset \subseteq Fragment
    /\ msg \in BOOLEAN
    /\ errs \in Nat
    /\ stopPc \in {"none", "waiting", "returned"}
    /\ panicked \in BOOLEAN

\* No two fragments of a word get the same index, whichever tSetWorkers
\* issued them and however they interleave (readThenIncrement's lock), the end
\* marker included: the server's address of a fragment is computed from stag
\* and index, and the later of two would overwrite the earlier.
UniqueIndices ==
    \A f, g \in tset : f.word = g.word /\ f.index = g.index => f = g

\* The end marker of a word's postings comes after all of them: one past the
\* counter, which no tSetWorker can advance any more (janitorWG), so that no
\* fragment of the word is ever numbered at or beyond its marker.
EndMarkerLast ==
    \A f, g \in tset :
        f.last /\ g.word = f.word /\ g # f => ~g.last /\ g.index < f.index

\* A document is listed at most once for a word, whichever worker handled it.
OnePostingPerDoc ==
    \A f, g \in tset :
        f.word = g.word /\ f.id = g.id /\ f.last = g.last => f = g

\* Once the janitor is done and unless a Send failed, the postings of every
\* word are numbered 1, 2, ... without a gap up to the end marker, which
\* repeats the last document. It holds after Stop too: a tSetWorker leaves
\* only between two documents and the janitor always runs.
PostingsContiguous ==
    jPc = "done" /\ errs = 0 =>
        \A w \in Words : counter[w].count > 0 =>
            /\ \A i \in 1 .. counter[w].count :
                  \E f \in tset : f.word = w /\ f.index = i /\ ~f.last
            /\ \E f, g \in tset :
                  /\ f.word = w /\ f.index = counter[w].count + 1 /\ f.last
                  /\ g.word = w /\ g.index = counter[w].count /\ g.id = f.id

\* Once the janitor is done, every word of every document has been posted,
\* unless Stop was called or a Send failed.
PostingsComplete ==
    jPc = "done" /\ errs = 0 /\ ~quit =>
        \A d \in Docs : \A w \in DocWords[d] :
            \E f \in tset : f.word = w /\ f.id = d /\ ~f.last

\* When bloomStreamer has seen finishedXtags closed, the xTags of every
\* document have been queued at the bloom master, as many as the document has
\* words, which is the count the bloom master waits for: the channel is closed
\* after the last send. This needs the closing goroutine to see the sends that
\* workers have still to announce in pendingXSends.
XTagsAllQueued ==
    strPc = "done" /\ ~quit =>
        /\ queued = Docs
        /\ \A d \in Docs : Cardinality(xtags[d]) = Cardinality(DocWords[d])

\* Every goroutine of the generator finishes and Index can return, if the
\* server answers and Stop is not called.
Finishes == <>(GoroutinesDone \/ errs > 0 \/ quit)

\* The posting lists and the end markers among the fragments sent.
PL == INSTANCE PostingLists WITH
    posts <- {[word |-> f.word, index |-> f.index, id |-> f.id] :
                 f \in {g \in tset : ~g.last}},
    ends  <- {[word |-> f.word, index |-> f.index] : f \in {g \in tset : g.last}}

\* The tSetWorkers and the janitor together build posting lists: every Send
\* adds a posting with a new number and a new document to a list that has no
\* end marker yet, or the one marker beyond all postings; nothing else
\* touches the lists, and a list once closed is never added to.
ImplementsPostingLists == PL!Spec
----------------------------------------------------------------------------
(***************************************************************************)
(* The inductive invariant behind the T-set properties.                    *)
(***************************************************************************)

\* Fragments sent, and those computed and about to be sent.
Issued == tset \cup {tFrag[t] : t \in {u \in Workers : tPc[u] = "send"}}

\* tSetWorker t is working on a document; chanSplitter holds one.
Busy(t) == tPc[t] \in {"words", "send"}
Copying == splPc \in {"sendX", "sendT"}

\* Word w of document d has still to be given an index.
Awaiting(d, w) ==
    \/ d \in unsent
    \/ Copying /\ splDoc = d
    \/ \E t \in Workers : Busy(t) /\ tDoc[t] = d /\ w \in tTodo[t]

\* Postings are numbered up to the counter, end markers come right after it
\* and only once every tSetWorker is done; no number is used twice.
NumberingInv ==
    /\ \A f \in Issued :
          \/ ~f.last /\ f.index <= counter[f.word].count
          \/ /\ f.last /\ f.index = counter[f.word].count + 1
             /\ f.word \notin jTodo /\ jPc \in {"mark", "done"}
    /\ \A f, g \in Issued : f.word = g.word /\ f.index = g.index => f = g
    /\ jPc # "wait" => \A t \in Workers : tPc[t] = "done"

\* A document is in one place at a time, and what is posted is not awaited.
OwnershipInv ==
    /\ Copying => splDoc \notin unsent
    /\ \A t \in Workers : Busy(t) =>
          /\ tDoc[t] \notin unsent
          /\ ~(Copying /\ splDoc = tDoc[t])
          /\ \A u \in Workers : Busy(u) /\ tDoc[u] = tDoc[t] => u = t
    /\ \A f \in Issued : ~f.last => ~Awaiting(f.id, f.word)
    /\ \A f, g \in Issued :
          ~f.last /\ ~g.last /\ f.word = g.word /\ f.id = g.id => f = g

\* Unless a stream operation failed, every index given out is in use, every
\* word the janitor has passed has its marker, and every word of a document
\* is posted or awaited.
CoverageInv ==
    /\ jPc = "done" => jTodo = {}
    /\ \A t \in Workers : tPc[t] = "done" => quit \/ splPc = "done"
    /\ splPc = "done" => quit \/ unsent = {}
    /\ errs = 0 =>
        /\ \A w \in Words : \A i \in 1 .. counter[w].count :
              \E f \in Issued : f.word = w /\ f.index = i /\ ~f.last
        /\ \A w \in Words : counter[w].count > 0 =>
              \E f \in Issued : /\ f.word = w /\ f.index = counter[w].count
                                /\ f.id = counter[w].lastId /\ ~f.last
        /\ \A w \in Words :
              jPc \in {"mark", "done"} /\ counter[w].count > 0 /\ w \notin jTodo
              => \E f \in tset : /\ f.word = w /\ f.last
                                 /\ f.index = counter[w].count + 1
                                 /\ f.id = counter[w].lastId
        /\ \A d \in Docs : \A w \in DocWords[d] :
              Awaiting(d, w) \/ \E f \in Issued : f.word = w /\ f.id = d /\ ~f.last

\* The T-set invariant: numbering, ownership and coverage of the postings,
\* which the tSetWorkers and the janitor keep at every step.
TSetInv == NumberingInv /\ OwnershipInv /\ CoverageInv
=============================================================================
