-------------------------- MODULE DocumentDatabase --------------------------
(***************************************************************************)
(* server/doc_db.go: the store of encrypted documents. PutDoc queues a     *)
(* document for the single writeHandler; RetrieveDoc queues a request for  *)
(* one of several readHandlers and waits for its two replies. Callers are  *)
(* the RPC handlers UploadCipherDocs and FetchDocuments of server.go.      *)
(***************************************************************************)
EXTENDS Naturals, Sequences, FiniteSets

CONSTANTS
    DocIds,     \* document ids
    Ciphers,    \* encrypted documents, other than the empty one
    Readers,    \* the readHandlers
    Callers,    \* FetchDocuments handlers, which call RetrieveDoc
    BufSize,    \* chanBufSize
    MaxPuts,    \* bound on the calls of PutDoc
    MaxErrs,    \* bound on failing write transactions
    MaxCrashes, \* bound on crashes of the server
    MayStop     \* whether Stop may be called

ASSUME BufSizeAssumption == BufSize \in Nat \ {0}

NoDoc == "none"
EmptyDoc == "empty"

VARIABLES
    stored,  \* the bucket docs, with NoDoc for a missing key
    writes,  \* writeRequests
    reads,   \* readRequests: the callers whose request is queued
    wPc,     \* writeHandler: "recv" or "done"
    rPc,     \* readHandler: "recv", "err", "resp" or "done"
    rReq,    \* the caller a readHandler serves (none or one)
    rDoc,    \* the document it found
    cPc,     \* RetrieveDoc: "idle", "resp", "err" or "returned"
    cId,     \* its argument
    cErr,    \* the error channel of the request
    cResp,   \* the response channel of the request
    cDoc,    \* the document returned
    lastPut, \* history: the last document given to PutDoc for each id
    failed,  \* history: the ids of writes that failed, in order
    puts,    \* number of calls of PutDoc
    stopPc,  \* Stop: "none", "waiting" or "returned"
    crashes  \* number of crashes

vars == <<stored, writes, reads, wPc, rPc, rReq, rDoc, cPc, cId, cErr, cResp,
          cDoc, lastPut, failed, puts, stopPc, crashes>>
writeVars  == <<stored, writes, wPc, lastPut, failed, puts>>
readerVars == <<rPc, rReq, rDoc>>
callerVars == <<cPc, cId, cDoc>>

quit == stopPc # "none"

\* MUTANT of ReplyCap: the reply channels have no buffer. (RetrieveDoc then
\* never meets a send of req.err, for it receives from req.resp first.)
ReplyCapNone == 0

\* The buffer of the reply channels that RetrieveDoc makes.
ReplyCap == 1
----------------------------------------------------------------------------
\* NewDocumentDatabase and Start, on the given bucket.
Running ==
    [wPc |-> "recv", rPc |-> [r \in Readers |-> "recv"],
     rReq |-> [r \in Readers |-> {}], rDoc |-> [r \in Readers |-> NoDoc],
     cPc |-> [c \in Callers |-> "idle"], none |-> [c \in Callers |-> <<>>]]

Init ==
    /\ stored = [d \in DocIds |-> NoDoc] /\ lastPut = stored
    /\ writes = <<>> /\ reads = <<>> /\ wPc = Running.wPc
    /\ rPc = Running.rPc /\ rReq = Running.rReq /\ rDoc = Running.rDoc
    /\ cPc = Running.cPc /\ cId = Running.none
    /\ cErr = Running.none /\ cResp = Running.none
    /\ cDoc = [c \in Callers |-> NoDoc]
    /\ failed = <<>> /\ puts = 0 /\ stopPc = "none" /\ crashes = 0

\* The server dies and is started again: the queues are lost. (A stream that
\* breaks is enough: FetchDocuments uses the request that Recv did not return.)
Crash ==
    /\ crashes < MaxCrashes
    /\ crashes' = crashes + 1
    /\ writes' = <<>> /\ reads' = <<>> /\ wPc' = Running.wPc
    /\ rPc' = Running.rPc /\ rReq' = Running.rReq /\ rDoc' = Running.rDoc
    /\ cPc' = Running.cPc /\ cErr' = Running.none /\ cResp' = Running.none
    /\ cDoc' = [c \in Callers |-> NoDoc]
    /\ cId' = Running.none /\ lastPut' = stored /\ stopPc' = "none"
    /\ UNCHANGED <<stored, failed, puts>>
----------------------------------------------------------------------------
(***************************************************************************)
(* PutDoc and writeHandler                                                 *)
(***************************************************************************)

\* The request is queued; nobody waits for the write.
PutDoc(d, v) ==
    /\ puts < MaxPuts /\ Len(writes) < BufSize
    /\ writes' = Append(writes, [id |-> d, doc |-> v])
    /\ lastPut' = [lastPut EXCEPT ![d] = v]
    /\ puts' = puts + 1
    /\ UNCHANGED <<stored, wPc, failed, reads, readerVars, cErr, cResp, callerVars,
                   stopPc, crashes>>

\* MUTANT of WriteDoc: the newest request is served first.
WriteDocNewest ==
    /\ wPc = "recv" /\ writes # <<>>
    /\ stored' = [stored EXCEPT ![writes[Len(writes)].id] = writes[Len(writes)].doc]
    /\ writes' = SubSeq(writes, 1, Len(writes) - 1)
    /\ UNCHANGED <<wPc, lastPut, failed, puts, reads, readerVars, cErr, cResp,
                   callerVars, stopPc, crashes>>

\* MUTANT of WriteDoc: the handler leaves its loop after one request.
WriteDocOnce ==
    /\ wPc = "recv" /\ writes # <<>>
    /\ stored' = [stored EXCEPT ![Head(writes).id] = Head(writes).doc]
    /\ writes' = Tail(writes)
    /\ wPc' = "done"
    /\ UNCHANGED <<lastPut, failed, puts, reads, readerVars, cErr, cResp,
                   callerVars, stopPc, crashes>>

\* One transaction per request.
WriteDoc ==
    /\ wPc = "recv" /\ writes # <<>>
    /\ stored' = [stored EXCEPT ![Head(writes).id] = Head(writes).doc]
    /\ writes' = Tail(writes)
    /\ UNCHANGED <<wPc, lastPut, failed, puts, reads, readerVars, cErr, cResp,
                   callerVars, stopPc, crashes>>

\* An error of the transaction is printed or dropped, and the document lost.
WriteFails ==
    /\ wPc = "recv" /\ writes # <<>> /\ Len(failed) < MaxErrs
    /\ failed' = Append(failed, Head(writes).id)
    /\ writes' = Tail(writes)
    /\ UNCHANGED <<stored, wPc, lastPut, puts, reads, readerVars, cErr, cResp,
                   callerVars, stopPc, crashes>>

WriterQuit ==
    /\ wPc = "recv" /\ quit
    /\ wPc' = "done"
    /\ UNCHANGED <<stored, writes, lastPut, failed, puts, reads, readerVars,
                   cErr, cResp, callerVars, stopPc, crashes>>
----------------------------------------------------------------------------
(***************************************************************************)
(* RetrieveDoc and readHandler                                             *)
(***************************************************************************)
Retrieve(c, d) ==
    /\ cPc[c] = "idle" /\ Len(reads) < BufSize
    /\ reads' = Append(reads, c)
    /\ cId' = [cId EXCEPT ![c] = d]
    /\ cPc' = [cPc EXCEPT ![c] = "resp"]
    /\ UNCHANGED <<writeVars, readerVars, cErr, cResp, cDoc, stopPc, crashes>>

\* The lookup is a View transaction, in which CreateBucketIfNotExists always
\* fails. The handler ignores that error and goes on with an empty buffer.
Lookup(d) == EmptyDoc

\* MUTANT of ReadRecv: the request stays in the queue.
ReadRecvPeeks(r) ==
    /\ rPc[r] = "recv" /\ reads # <<>>
    /\ rReq' = [rReq EXCEPT ![r] = {Head(reads)}]
    /\ rDoc' = [rDoc EXCEPT ![r] = Lookup(cId[Head(reads)])]
    /\ rPc' = [rPc EXCEPT ![r] = "err"]
    /\ UNCHANGED <<writeVars, reads, cErr, cResp, callerVars, stopPc, crashes>>

ReadRecv(r) ==
    /\ rPc[r] = "recv" /\ reads # <<>>
    /\ reads' = Tail(reads)
    /\ rReq' = [rReq EXCEPT ![r] = {Head(reads)}]
    /\ rDoc' = [rDoc EXCEPT ![r] = Lookup(cId[Head(reads)])]
    /\ rPc' = [rPc EXCEPT ![r] = "err"]
    /\ UNCHANGED <<writeVars, cErr, cResp, callerVars, stopPc, crashes>>

\* req.err <- nil, before req.resp is sent.
ReadSendErr(r, c) ==
    /\ rPc[r] = "err" /\ c \in rReq[r] /\ Len(cErr[c]) < ReplyCap
    /\ cErr' = [cErr EXCEPT ![c] = Append(@, "nil")]
    /\ rPc' = [rPc EXCEPT ![r] = "resp"]
    /\ UNCHANGED <<writeVars, reads, rReq, rDoc, cResp, callerVars, stopPc, crashes>>

ReadSendResp(r, c) ==
    /\ rPc[r] = "resp" /\ c \in rReq[r] /\ Len(cResp[c]) < ReplyCap
    /\ cResp' = [cResp EXCEPT ![c] = Append(@, rDoc[r])]
    /\ rReq' = [rReq EXCEPT ![r] = {}]
    /\ rDoc' = [rDoc EXCEPT ![r] = NoDoc]
    /\ rPc' = [rPc EXCEPT ![r] = "recv"]
    /\ UNCHANGED <<writeVars, reads, cErr, callerVars, stopPc, crashes>>

ReaderQuit(r) ==
    /\ rPc[r] = "recv" /\ quit
    /\ rPc' = [rPc EXCEPT ![r] = "done"]
    /\ UNCHANGED <<writeVars, reads, rReq, rDoc, cErr, cResp, callerVars,
                   stopPc, crashes>>

\* return <-req.resp, <-req.err
RetrieveResp(c) ==
    /\ cPc[c] = "resp" /\ cResp[c] # <<>>
    /\ cDoc' = [cDoc EXCEPT ![c] = Head(cResp[c])]
    /\ cResp' = [cResp EXCEPT ![c] = Tail(@)]
    /\ cPc' = [cPc EXCEPT ![c] = "err"]
    /\ UNCHANGED <<writeVars, reads, readerVars, cErr, cId, stopPc, crashes>>

RetrieveErr(c) ==
    /\ cPc[c] = "err" /\ cErr[c] # <<>>
    /\ cErr' = [cErr EXCEPT ![c] = Tail(@)]
    /\ cPc' = [cPc EXCEPT ![c] = "returned"]
    /\ UNCHANGED <<writeVars, reads, readerVars, cResp, cId, cDoc, stopPc,
                   crashes>>

\* FetchDocuments sends the document and receives the next request, or returns
\* with the error of the stream and another call takes its place.
FetchSend(c) ==
    /\ cPc[c] = "returned"
    /\ cPc' = [cPc EXCEPT ![c] = "idle"]
    /\ cDoc' = [cDoc EXCEPT ![c] = NoDoc]
    /\ cId' = [cId EXCEPT ![c] = <<>>]
    /\ UNCHANGED <<writeVars, reads, readerVars, cErr, cResp, stopPc, crashes>>
----------------------------------------------------------------------------
Stop ==
    /\ MayStop /\ stopPc = "none"
    /\ stopPc' = "waiting"
    /\ UNCHANGED <<writeVars, reads, readerVars, cErr, cResp, callerVars, crashes>>

StopReturn ==
    /\ stopPc = "waiting" /\ wPc = "done" /\ \A r \in Readers : rPc[r] = "done"
    /\ stopPc' = "returned"
    /\ UNCHANGED <<writeVars, reads, readerVars, cErr, cResp, callerVars, crashes>>
----------------------------------------------------------------------------
Writer == WriteDoc \/ WriteFails \/ WriterQuit

Reader(r) == \/ ReadRecv(r) \/ ReaderQuit(r)
             \/ \E c \in Callers : ReadSendErr(r, c) \/ ReadSendResp(r, c)

Caller(c) == RetrieveResp(c) \/ RetrieveErr(c)

\* A document of the stream is put; no document ends the call without an error.
UploadCipherDocs == \E d \in DocIds, v \in Ciphers : PutDoc(d, v)

FetchDocuments(c) == (\E d \in DocIds : Retrieve(c, d)) \/ Caller(c) \/ FetchSend(c)

Next ==
    \/ UploadCipherDocs \/ (\E c \in Callers : FetchDocuments(c))
    \/ Writer \/ (\E r \in Readers : Reader(r))
    \/ Stop \/ StopReturn \/ Crash

\* The goroutines of the server run when they can. A select chooses among its
\* ready cases at random, so that a reader under load sees quit in the end.
Fairness ==
    /\ WF_vars(Writer) /\ WF_vars(StopReturn)
    /\ \A r \in Readers : WF_vars(Reader(r)) /\ SF_vars(ReaderQuit(r))
    /\ \A c \in Callers : WF_vars(Caller(c))

Spec == Init /\ [][Next]_vars

FairSpec == Spec /\ Fairness
----------------------------------------------------------------------------
(***************************************************************************)
(* Properties                                                              *)
(***************************************************************************)

\* Of several documents put under one id the last wins: it is stored, or it
\* is the last one queued for that id, unless a write of that id failed. (A
\* crash takes the queue with it.)
LastPutWins ==
    \A d \in DocIds \ {failed[i] : i \in DOMAIN failed} :
        LET queued == {i \in DOMAIN writes : writes[i].id = d}
        IN IF queued = {}
           THEN stored[d] = lastPut[d]
           ELSE \E i \in queued : /\ \A j \in queued : j <= i
                                  /\ writes[i].doc = lastPut[d]

\* Replies reach the caller that asked, one each: a caller never finds a
\* reply left over, and a readHandler serves a caller that is waiting.
RepliesMatch ==
    /\ \A r \in Readers : \A c \in rReq[r] : cPc[c] = "resp" /\ cResp[c] = <<>>
    /\ \A c \in Callers : cPc[c] = "returned" => cErr[c] = <<>> /\ cResp[c] = <<>>

\* RetrieveDoc returns unless the database is stopped, although it waits for
\* the response first and readHandler sends the error first.
RetrieveReturns ==
    \A c \in Callers :
        cPc[c] \in {"resp", "err"} ~> (cPc[c] \in {"returned", "idle"} \/ quit)

\* The writer keeps draining its queue, unless the server stops.
PutsStored == []<>(writes = <<>> \/ quit)

\* Stop returns: a readHandler never stays blocked on a reply, because the
\* reply channels have a buffer.
StopReturns == stopPc = "waiting" ~> stopPc # "waiting"
=============================================================================
