----------------------- MODULE EncryptedDocStreamer -----------------------
(***************************************************************************)
(* client_proxy/doc_encrypter.go: docEncrypters encrypt the documents of   *)
(* docStream and hand them, through the channel encryptedDocs, to one      *)
(* docUploader, which streams them to the server.                          *)
(***************************************************************************)
EXTENDS Naturals, Sequences, FiniteSets, Functions

CONSTANTS
    Docs,     \* the documents
    Workers,  \* names for docEncrypters; numWorkers of them are started
    MaxErrs,  \* bound on failing file and stream operations
    MayStop   \* whether Stop may be called

ASSUME DocsAssumption == IsFiniteSet(Docs)
ASSUME WorkersAssumption == IsFiniteSet(Workers)

VARIABLES
    unsent,   \* documents not yet taken from docStream
    ePc,      \* docEncrypter: "none" if not started, "recv", "send" or "done"
    eDoc,     \* the encrypted documents each docEncrypter holds (none or one)
    chan,     \* encryptedDocs
    closed,   \* encryptedDocs is closed
    uPc,      \* docUploader: "open", "recv" or "done"
    stream,   \* UploadCipherDocs succeeded
    uploaded, \* what the server was sent, in order
    msg,      \* an error sits in the error handler's Message channel
    errs,     \* number of operations that failed
    stopPc,   \* Stop: "none", "waiting" or "returned"
    panicked  \* the process died

vars == <<unsent, ePc, eDoc, chan, closed, uPc, stream, uploaded, msg, errs,
          stopPc, panicked>>
encVars == <<unsent, ePc, eDoc>>
upVars  == <<uPc, stream, uploaded>>
errVars == <<msg, errs>>

quit == stopPc # "none"

\* The docEncrypters that Start ran, and the buffer of encryptedDocs.
Started == {w \in Workers : ePc[w] # "none"}
ChanCap == Cardinality(Started)
----------------------------------------------------------------------------
\* NewEncryptedDocStreamer and Start, with any number of workers.
Init ==
    /\ unsent = Docs
    /\ \E started \in (SUBSET Workers) \ {{}} :
          ePc = [w \in Workers |-> IF w \in started THEN "recv" ELSE "none"]
    /\ eDoc = [w \in Workers |-> {}]
    /\ chan = <<>> /\ closed = FALSE
    /\ uPc = "open" /\ stream = FALSE /\ uploaded = <<>>
    /\ msg = FALSE /\ errs = 0 /\ stopPc = "none" /\ panicked = FALSE

\* e.abort(e.quit, err)
Abort ==
    /\ errs < MaxErrs
    /\ errs' = errs + 1
    /\ \/ ~msg /\ msg' = TRUE
       \/ quit /\ msg' = msg

Panic ==
    /\ panicked' = TRUE
    /\ UNCHANGED <<encVars, chan, closed, upVars, errVars, stopPc>>
----------------------------------------------------------------------------
(***************************************************************************)
(* docEncrypter                                                            *)
(***************************************************************************)

\* MUTANT of EncryptDoc: the document stays in docStream.
EncryptDocPeeks(w, d) ==
    /\ ~panicked /\ ePc[w] = "recv" /\ d \in unsent
    /\ eDoc' = [eDoc EXCEPT ![w] = {d}]
    /\ ePc' = [ePc EXCEPT ![w] = "send"]
    /\ UNCHANGED <<unsent, chan, closed, upVars, errVars, stopPc, panicked>>

\* Read, close and encrypt the file. An error is reported, and what was read
\* before it is sent all the same. A document stands for its id and content.
EncryptDoc(w, d) ==
    /\ ~panicked /\ ePc[w] = "recv" /\ d \in unsent
    /\ unsent' = unsent \ {d}
    /\ eDoc' = [eDoc EXCEPT ![w] = {d}]
    /\ UNCHANGED errVars \/ Abort
    /\ ePc' = [ePc EXCEPT ![w] = "send"]
    /\ UNCHANGED <<chan, closed, upVars, stopPc, panicked>>

\* encryptedDocs <- doc, which blocks while the channel is full.
EncrypterSend(w) ==
    /\ ~panicked /\ ePc[w] = "send" /\ ~closed /\ Len(chan) < ChanCap
    /\ \E doc \in eDoc[w] : chan' = Append(chan, doc)
    /\ eDoc' = [eDoc EXCEPT ![w] = {}]
    /\ ePc' = [ePc EXCEPT ![w] = "recv"]
    /\ UNCHANGED <<unsent, closed, upVars, errVars, stopPc, panicked>>

\* Another docEncrypter closed the channel: the send panics.
EncrypterSendPanics(w) == ~panicked /\ ePc[w] = "send" /\ closed /\ Panic

\* MUTANT of EncrypterEnd: leaves with a document still in docStream.
EncrypterEndEarly(w) ==
    /\ ~panicked /\ ePc[w] = "recv" /\ ~closed
    /\ Cardinality(unsent) <= 1 \/ quit
    /\ closed' = TRUE
    /\ ePc' = [ePc EXCEPT ![w] = "done"]
    /\ UNCHANGED <<unsent, eDoc, chan, upVars, errVars, stopPc, panicked>>

\* docStream is closed, or quit is: every docEncrypter closes the channel.
EncrypterEnd(w) ==
    /\ ~panicked /\ ePc[w] = "recv" /\ (unsent = {} \/ quit) /\ ~closed
    /\ closed' = TRUE
    /\ ePc' = [ePc EXCEPT ![w] = "done"]
    /\ UNCHANGED <<unsent, eDoc, chan, upVars, errVars, stopPc, panicked>>

\* The second close panics.
EncrypterEndPanics(w) ==
    ~panicked /\ ePc[w] = "recv" /\ (unsent = {} \/ quit) /\ closed /\ Panic
----------------------------------------------------------------------------
(***************************************************************************)
(* docUploader                                                             *)
(***************************************************************************)
UploaderOpen ==
    /\ ~panicked /\ uPc = "open"
    /\ uPc' = "recv"
    /\ \/ stream' = TRUE /\ UNCHANGED errVars
       \/ Abort /\ UNCHANGED stream
    /\ UNCHANGED <<encVars, chan, closed, uploaded, stopPc, panicked>>

\* Send: the document reaches the server, or is lost and reported.
UploaderSend ==
    /\ ~panicked /\ uPc = "recv" /\ chan # <<>> /\ stream
    /\ chan' = Tail(chan)
    /\ \/ uploaded' = Append(uploaded, Head(chan)) /\ UNCHANGED errVars
       \/ Abort /\ UNCHANGED uploaded
    /\ UNCHANGED <<encVars, closed, uPc, stream, stopPc, panicked>>

\* MUTANT of UploaderEnd: more is not tested.
UploaderEndOnlyQuit ==
    /\ ~panicked /\ uPc = "recv" /\ quit
    /\ uPc' = "done"
    /\ UNCHANGED <<encVars, chan, closed, stream, uploaded, errVars, stopPc,
                   panicked>>

\* The channel is closed and drained (CloseSend), or quit is closed.
UploaderEnd ==
    /\ ~panicked /\ uPc = "recv"
    /\ (closed /\ chan = <<>> /\ stream) \/ quit
    /\ uPc' = "done"
    /\ UNCHANGED <<encVars, chan, closed, stream, uploaded, errVars, stopPc,
                   panicked>>

\* Send or CloseSend on the stream that could not be opened.
UploaderPanics ==
    ~panicked /\ uPc = "recv" /\ ~stream /\ (closed \/ chan # <<>>) /\ Panic
----------------------------------------------------------------------------
Stop ==
    /\ ~panicked /\ MayStop /\ stopPc = "none"
    /\ stopPc' = "waiting"
    /\ UNCHANGED <<encVars, chan, closed, upVars, errVars, panicked>>

AllDone == uPc = "done" /\ \A w \in Started : ePc[w] = "done"

StopReturn ==
    /\ ~panicked /\ stopPc = "waiting" /\ AllDone
    /\ stopPc' = "returned"
    /\ UNCHANGED <<encVars, chan, closed, upVars, errVars, panicked>>

\* handleErrors calls the nil entries of stopFuncs.
HandleErrors == ~panicked /\ msg /\ Panic

Terminated ==
    /\ panicked \/ (AllDone /\ (MayStop => stopPc = "returned"))
    /\ UNCHANGED vars
----------------------------------------------------------------------------
Encrypter(w) == \/ \E d \in Docs : EncryptDoc(w, d)
                \/ EncrypterSend(w) \/ EncrypterSendPanics(w)
                \/ EncrypterEnd(w) \/ EncrypterEndPanics(w)

Uploader == UploaderOpen \/ UploaderSend \/ UploaderEnd \/ UploaderPanics

Next == \/ \E w \in Workers : Encrypter(w)
        \/ Uploader \/ Stop \/ StopReturn \/ HandleErrors \/ Terminated

\* Every goroutine that can run does; Stop is the caller's decision.
Fairness ==
    /\ \A w \in Workers : WF_vars(Encrypter(w))
    /\ WF_vars(Uploader) /\ WF_vars(StopReturn) /\ WF_vars(HandleErrors)

Spec == Init /\ [][Next]_vars

FairSpec == Spec /\ Fairness
----------------------------------------------------------------------------
(***************************************************************************)
(* Properties                                                              *)
(***************************************************************************)

\* A document is in exactly one place on its way to the server; none is sent
\* twice, and none is dropped while no Send failed and Stop was not called.
EachDocOnce ==
    /\ IsInjective(uploaded)
    /\ errs = 0 => Docs = unsent \cup Range(chan) \cup Range(uploaded)
                            \cup UNION {eDoc[w] : w \in Workers}

\* When the uploader has closed the stream, every document has been sent: the
\* channel is closed after the last send and drained before the uploader ends
\* (with one docEncrypter, as a second one may be left with a document).
AllUploaded ==
    uPc = "done" /\ ~quit /\ errs = 0 /\ Cardinality(Started) = 1 =>
        Range(uploaded) = Docs

\* The streamer finishes, unless Stop is called. With one docEncrypter and without
\* failures neither close nor send hits a closed channel.
Finishes ==
    <>(\/ AllDone \/ quit
       \/ panicked /\ (errs > 0 \/ Cardinality(Started) > 1))
=============================================================================
