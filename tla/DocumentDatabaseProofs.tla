----------------------- MODULE DocumentDatabaseProofs -----------------------
(***************************************************************************)
(* Proofs about DocumentDatabase, for any ids, documents, readHandlers and *)
(* callers, any size of the queues and any number of crashes.              *)
(***************************************************************************)
EXTENDS DocumentDatabase, Functions, TLAPS

Write == [id : DocIds, doc : Ciphers]

TypeOK ==
    /\ stored \in [DocIds -> Ciphers \cup {NoDoc}]
    /\ lastPut \in [DocIds -> Ciphers \cup {NoDoc}]
    /\ writes \in Seq(Write) /\ failed \in Seq(DocIds)
    /\ reads \in Seq(Callers)
    /\ rPc \in [Readers -> {"recv", "err", "resp", "done"}]
    /\ rReq \in [Readers -> SUBSET Callers]
    /\ rDoc \in [Readers -> {NoDoc, EmptyDoc}]
    /\ cPc \in [Callers -> {"idle", "resp", "err", "returned"}]
    /\ cErr \in [Callers -> Seq({"nil"})]
    /\ cResp \in [Callers -> Seq({NoDoc, EmptyDoc})]

\* A reply channel holds no more than its buffer.
CapInv == \A c \in Callers : Len(cErr[c]) <= ReplyCap /\ Len(cResp[c]) <= ReplyCap

\* A request is in one place: in the queue or with one readHandler.
RequestInv ==
    /\ \A r \in Readers : IF rPc[r] \in {"err", "resp"}
                          THEN \E c \in Callers : rReq[r] = {c}
                          ELSE rReq[r] = {}
    /\ \A r, s \in Readers : r # s => rReq[r] \cap rReq[s] = {}
    /\ \A r \in Readers : rReq[r] \cap Range(reads) = {}
    /\ IsInjective(reads)

\* While its request is somewhere a caller waits for the response, and the
\* replies it has not received are those already sent.
ReplyInv ==
    /\ \A c \in Range(reads) : cPc[c] = "resp" /\ cErr[c] = <<>> /\ cResp[c] = <<>>
    /\ \A r \in Readers : \A c \in rReq[r] :
          cPc[c] = "resp" /\ cResp[c] = <<>> /\ (rPc[r] = "err" => cErr[c] = <<>>)
    /\ \A c \in Callers : /\ cPc[c] # "resp" => cResp[c] = <<>>
                          /\ cPc[c] \in {"idle", "returned"} => cErr[c] = <<>>

IInv == TypeOK /\ CapInv /\ RequestInv /\ ReplyInv
----------------------------------------------------------------------------
\* What a queue holds once an element is added, and once one is taken, and that
\* it holds nothing twice.
LEMMA AppendQueue ==
    ASSUME NEW S, NEW s \in Seq(S), NEW x \in S
    PROVE  /\ Append(s, x) \in Seq(S)
           /\ Range(Append(s, x)) = Range(s) \cup {x}
           /\ IsInjective(s) /\ x \notin Range(s) => IsInjective(Append(s, x))
<1>1. /\ Len(s) \in Nat /\ DOMAIN s = 1 .. Len(s)
      /\ DOMAIN Append(s, x) = 1 .. Len(s) + 1
      /\ \A i \in 1 .. Len(s) : Append(s, x)[i] = s[i]
      /\ Append(s, x)[Len(s) + 1] = x
  OBVIOUS
<1>2. 1 .. Len(s) + 1 = 1 .. Len(s) \cup {Len(s) + 1}
  BY <1>1
<1>3. Range(Append(s, x)) = Range(s) \cup {x}
  BY <1>1, <1>2, Zenon DEF Range
<1>4. ASSUME IsInjective(s), x \notin Range(s) PROVE IsInjective(Append(s, x))
  <2> SUFFICES ASSUME NEW i \in 1 .. Len(s) + 1, NEW j \in 1 .. Len(s) + 1,
                      Append(s, x)[i] = Append(s, x)[j]
               PROVE  i = j
    BY <1>1 DEF IsInjective
  <2>1. \A k \in 1 .. Len(s) : s[k] # x
    BY <1>1, <1>4 DEF Range
  <2>2. \A k, l \in 1 .. Len(s) : s[k] = s[l] => k = l
    BY <1>1, <1>4 DEF IsInjective
  <2> QED
    BY <1>1, <1>2, <2>1, <2>2
<1> QED
  BY <1>3, <1>4

LEMMA TailQueue ==
    ASSUME NEW S, NEW s \in Seq(S), s # <<>>
    PROVE  /\ Head(s) \in S /\ Tail(s) \in Seq(S)
           /\ Range(s) = {Head(s)} \cup Range(Tail(s))
           /\ IsInjective(s) => /\ IsInjective(Tail(s))
                                /\ Head(s) \notin Range(Tail(s))
<1>1. /\ Len(s) \in Nat \ {0} /\ DOMAIN s = 1 .. Len(s) /\ Head(s) = s[1]
      /\ DOMAIN Tail(s) = 1 .. Len(s) - 1
      /\ \A i \in 1 .. Len(s) - 1 : Tail(s)[i] = s[i + 1]
  OBVIOUS
<1>2. /\ \A i \in 1 .. Len(s) - 1 : i + 1 \in 1 .. Len(s) /\ i + 1 # 1
      /\ \A i \in 1 .. Len(s) : i = 1 \/ \E j \in 1 .. Len(s) - 1 : i = j + 1
      /\ \A i, j \in 1 .. Len(s) - 1 : i + 1 = j + 1 => i = j
      /\ 1 \in 1 .. Len(s)
  <2>1. \A i \in 1 .. Len(s) : i = 1 \/ (i - 1 \in 1 .. Len(s) - 1 /\ i = (i - 1) + 1)
    BY <1>1
  <2> QED
    BY <1>1, <2>1
<1>3. Range(s) = {Head(s)} \cup Range(Tail(s))
  <2>1. ASSUME NEW i \in 1 .. Len(s) PROVE s[i] \in {Head(s)} \cup Range(Tail(s))
    <3>1. CASE i = 1
      BY <1>1, <3>1
    <3>2. CASE \E j \in 1 .. Len(s) - 1 : i = j + 1
      <4>1. PICK j \in 1 .. Len(s) - 1 : i = j + 1
        BY <3>2
      <4>2. Tail(s)[j] \in Range(Tail(s)) /\ Tail(s)[j] = s[i]
        BY <1>1, <4>1 DEF Range
      <4> QED
        BY <4>2
    <3> QED
      BY <1>2, <3>1, <3>2
  <2>2. ASSUME NEW i \in 1 .. Len(s) - 1 PROVE Tail(s)[i] \in Range(s)
    BY <1>1, <1>2 DEF Range
  <2>3. Head(s) \in Range(s)
    BY <1>1, <1>2 DEF Range
  <2> QED
    BY <1>1, <2>1, <2>2, <2>3 DEF Range
<1>4. ASSUME IsInjective(s)
      PROVE  IsInjective(Tail(s)) /\ Head(s) \notin Range(Tail(s))
  <2>1. \A i, j \in 1 .. Len(s) : s[i] = s[j] => i = j
    BY <1>1, <1>4 DEF IsInjective
  <2>2. IsInjective(Tail(s))
    BY <1>1, <1>2, <2>1 DEF IsInjective
  <2>3. Head(s) \notin Range(Tail(s))
    BY <1>1, <1>2, <2>1 DEF Range
  <2> QED
    BY <2>2, <2>3
<1> QED
  BY <1>1, <1>3, <1>4

LEMMA EmptyQueue == Range(<<>>) = {} /\ IsInjective(<<>>)
BY DEF Range, IsInjective
----------------------------------------------------------------------------
(***************************************************************************)
(* Writes: the last document put under an id                               *)
(***************************************************************************)

\* No write of d is queued; the last one queued is that of v.
NoneQueued(s, d) == \A i \in DOMAIN s : s[i].id # d

LastQueued(s, d, v) ==
    \E i \in DOMAIN s : /\ s[i].id = d /\ s[i].doc = v
                        /\ \A j \in DOMAIN s : s[j].id = d => j <= i

\* LastPutWins, one id at a time.
Wins(d) == IF NoneQueued(writes, d) THEN stored[d] = lastPut[d]
                                    ELSE LastQueued(writes, d, lastPut[d])

FailedIds == {failed[i] : i \in DOMAIN failed}

WriteInv == \A d \in DocIds \ FailedIds : Wins(d)

LEMMA WinsLastPut == LastPutWins <=> WriteInv
<1> SUFFICES ASSUME NEW d \in DocIds \ FailedIds
             PROVE  Wins(d) <=>
                    LET queued == {i \in DOMAIN writes : writes[i].id = d}
                    IN IF queued = {}
                       THEN stored[d] = lastPut[d]
                       ELSE \E i \in queued : /\ \A j \in queued : j <= i
                                              /\ writes[i].doc = lastPut[d]
  BY DEF LastPutWins, WriteInv, FailedIds
<1>1. NoneQueued(writes, d) <=> {i \in DOMAIN writes : writes[i].id = d} = {}
  BY DEF NoneQueued
<1>2. LastQueued(writes, d, lastPut[d]) <=>
        \E i \in {k \in DOMAIN writes : writes[k].id = d} :
            /\ \A j \in {k \in DOMAIN writes : writes[k].id = d} : j <= i
            /\ writes[i].doc = lastPut[d]
  BY DEF LastQueued
<1> QED
  BY <1>1, <1>2 DEF Wins

\* Queueing a write makes it the last one of its id, and serving the first
\* one leaves the last one of each id last.
LEMMA QueueWrite ==
    ASSUME NEW s \in Seq(Write), NEW r \in Write, NEW d, NEW v
    PROVE  /\ LastQueued(Append(s, r), r.id, r.doc) /\ ~NoneQueued(Append(s, r), r.id)
           /\ d # r.id => /\ NoneQueued(Append(s, r), d) <=> NoneQueued(s, d)
                          /\ LastQueued(s, d, v) => LastQueued(Append(s, r), d, v)
<1>1. /\ Len(s) \in Nat /\ DOMAIN s = 1 .. Len(s)
      /\ DOMAIN Append(s, r) = 1 .. Len(s) + 1
      /\ \A i \in 1 .. Len(s) : Append(s, r)[i] = s[i]
      /\ Append(s, r)[Len(s) + 1] = r
  OBVIOUS
<1>2. LastQueued(Append(s, r), r.id, r.doc)
  BY <1>1 DEF LastQueued
<1>3. ~NoneQueued(Append(s, r), r.id)
  BY <1>1 DEF NoneQueued
<1>4. ASSUME d # r.id PROVE NoneQueued(Append(s, r), d) <=> NoneQueued(s, d)
  BY <1>1, <1>4 DEF NoneQueued
<1>5. ASSUME d # r.id, LastQueued(s, d, v) PROVE LastQueued(Append(s, r), d, v)
  BY <1>1, <1>5 DEF LastQueued
<1> QED
  BY <1>2, <1>3, <1>4, <1>5

LEMMA ServeWrite ==
    ASSUME NEW s \in Seq(Write), s # <<>>, NEW d, NEW v
    PROVE  /\ NoneQueued(s, d) => Head(s).id # d /\ NoneQueued(Tail(s), d)
           /\ LastQueued(s, d, v) =>
                IF NoneQueued(Tail(s), d) THEN Head(s).id = d /\ Head(s).doc = v
                                          ELSE LastQueued(Tail(s), d, v)
<1>1. /\ Len(s) \in Nat \ {0} /\ DOMAIN s = 1 .. Len(s) /\ Head(s) = s[1]
      /\ DOMAIN Tail(s) = 1 .. Len(s) - 1
      /\ \A i \in 1 .. Len(s) - 1 : Tail(s)[i] = s[i + 1]
  OBVIOUS
<1>2. NoneQueued(s, d) => Head(s).id # d /\ NoneQueued(Tail(s), d)
  BY <1>1 DEF NoneQueued
<1>3. ASSUME LastQueued(s, d, v)
      PROVE  IF NoneQueued(Tail(s), d) THEN Head(s).id = d /\ Head(s).doc = v
                                       ELSE LastQueued(Tail(s), d, v)
  <2>1. PICK i \in 1 .. Len(s) : /\ s[i].id = d /\ s[i].doc = v
                                 /\ \A j \in 1 .. Len(s) : s[j].id = d => j <= i
    BY <1>1, <1>3 DEF LastQueued
  <2>2. CASE i = 1
    <3>1. \A j \in 1 .. Len(s) - 1 : s[j + 1].id # d
      BY <1>1, <2>1, <2>2
    <3> QED
      BY <1>1, <2>1, <2>2, <3>1 DEF NoneQueued
  <2>3. CASE i # 1
    <3>1. i - 1 \in 1 .. Len(s) - 1 /\ Tail(s)[i - 1] = s[i]
      BY <1>1, <2>3
    <3>2. \A j \in 1 .. Len(s) - 1 : Tail(s)[j].id = d => j <= i - 1
      BY <1>1, <2>1
    <3> QED
      BY <1>1, <2>1, <3>1, <3>2 DEF NoneQueued, LastQueued
  <2> QED
    BY <2>2, <2>3
<1> QED
  BY <1>2, <1>3

\* The request that writeHandler takes.
LEMMA NextWrite ==
    ASSUME TypeOK, writes # <<>>
    PROVE  /\ writes \in Seq(Write) /\ Tail(writes) \in Seq(Write)
           /\ Head(writes).id \in DocIds /\ Head(writes).doc \in Ciphers
<1>1. writes \in Seq(Write)
  BY DEF TypeOK
<1>2. Head(writes) \in Write /\ Tail(writes) \in Seq(Write)
  BY <1>1, TailQueue
<1> QED
  BY <1>1, <1>2 DEF Write

LEMMA PutWins ==
    ASSUME TypeOK, NEW e \in DocIds, NEW v \in Ciphers, PutDoc(e, v),
           NEW d \in DocIds, Wins(d)
    PROVE  Wins(d)'
<1> DEFINE r == [id |-> e, doc |-> v]
<1>1. /\ writes' = Append(writes, r) /\ lastPut' = [lastPut EXCEPT ![e] = v]
      /\ UNCHANGED stored /\ r \in Write /\ r.id = e /\ r.doc = v
  BY DEF PutDoc, Write
<1> HIDE DEF r
<1>2. CASE d = e
  <2>1. lastPut'[d] = v
    BY <1>1, <1>2 DEF TypeOK
  <2> QED
    BY <1>1, <1>2, <2>1, QueueWrite DEF TypeOK, Wins
<1>3. CASE d # e
  <2>1. lastPut'[d] = lastPut[d]
    BY <1>1, <1>3 DEF TypeOK
  <2> QED
    BY <1>1, <1>3, <2>1, QueueWrite DEF TypeOK, Wins
<1> QED
  BY <1>2, <1>3

LEMMA WriteWins ==
    ASSUME TypeOK, WriteDoc, NEW d \in DocIds, Wins(d)
    PROVE  Wins(d)'
<1>1. /\ writes # <<>> /\ writes \in Seq(Write) /\ writes' = Tail(writes)
      /\ stored' = [stored EXCEPT ![Head(writes).id] = Head(writes).doc]
      /\ UNCHANGED lastPut
  BY DEF WriteDoc, TypeOK
<1>2. CASE Head(writes).id = d
  <2>1. stored'[d] = Head(writes).doc
    BY <1>1, <1>2 DEF TypeOK
  <2> QED
    BY <1>1, <1>2, <2>1, ServeWrite DEF Wins
<1>3. CASE Head(writes).id # d
  <2>1. stored'[d] = stored[d]
    BY <1>1, <1>3 DEF TypeOK
  <2> QED
    BY <1>1, <1>3, <2>1, ServeWrite DEF Wins
<1> QED
  BY <1>2, <1>3

\* The id of a write that fails is excused for good.
LEMMA FailWins ==
    ASSUME TypeOK, WriteFails, NEW d \in DocIds \ FailedIds', Wins(d)
    PROVE  Wins(d)' /\ d \notin FailedIds
<1>1. /\ writes # <<>> /\ writes \in Seq(Write) /\ writes' = Tail(writes)
      /\ Head(writes).id \in DocIds /\ failed' = Append(failed, Head(writes).id)
      /\ UNCHANGED <<stored, lastPut>>
  BY NextWrite DEF WriteFails
<1>2. FailedIds' = FailedIds \cup {Head(writes).id}
  <2>1. failed \in Seq(DocIds)
    BY DEF TypeOK
  <2>2. Range(failed') = Range(failed) \cup {Head(writes).id}
    BY <1>1, <2>1, AppendQueue
  <2> QED
    BY <2>2 DEF FailedIds, Range
<1> QED
  BY <1>1, <1>2, ServeWrite DEF Wins

LEMMA WriteStep == TypeOK /\ WriteInv /\ [Next]_vars => WriteInv'
<1> SUFFICES ASSUME TypeOK, \A d \in DocIds \ FailedIds : Wins(d), [Next]_vars
             PROVE  \A d \in DocIds \ FailedIds' : Wins(d)'
  BY DEF WriteInv
<1>1. CASE UploadCipherDocs
  <2>1. FailedIds' = FailedIds
    BY <1>1 DEF UploadCipherDocs, PutDoc, FailedIds
  <2> QED
    BY <1>1, <2>1, PutWins DEF UploadCipherDocs
<1>2. CASE WriteDoc
  <2>1. FailedIds' = FailedIds
    BY <1>2 DEF WriteDoc, FailedIds
  <2> QED
    BY <1>2, <2>1, WriteWins
<1>3. CASE WriteFails
  <2>1. FailedIds \subseteq FailedIds'
    <3>1. /\ failed \in Seq(DocIds) /\ Head(writes).id \in DocIds
          /\ failed' = Append(failed, Head(writes).id)
      BY <1>3, NextWrite DEF WriteFails, TypeOK
    <3>2. Range(failed') = Range(failed) \cup {Head(writes).id}
      BY <3>1, AppendQueue
    <3> QED
      BY <3>2 DEF FailedIds, Range
  <2> QED
    BY <1>3, <2>1, FailWins
<1>4. CASE Crash
  <2>1. FailedIds' = FailedIds /\ writes' = <<>> /\ lastPut' = stored /\ stored' = stored
    BY <1>4 DEF Crash, FailedIds
  <2> QED
    BY <2>1 DEF Wins, NoneQueued
<1>5. CASE UNCHANGED <<stored, writes, lastPut, failed>>
  BY <1>5 DEF Wins, NoneQueued, LastQueued, FailedIds
<1>6. CASE WriterQuit \/ Stop \/ StopReturn \/ UNCHANGED vars
  BY <1>5, <1>6 DEF WriterQuit, Stop, StopReturn, writeVars, vars
<1>7. ASSUME NEW c \in Callers, FetchDocuments(c)
      PROVE  UNCHANGED <<stored, writes, lastPut, failed>>
  BY <1>7 DEF FetchDocuments, Caller, Retrieve, RetrieveResp, RetrieveErr, FetchSend,
              writeVars
<1>8. ASSUME NEW r \in Readers, Reader(r)
      PROVE  UNCHANGED <<stored, writes, lastPut, failed>>
  BY <1>8 DEF Reader, ReadRecv, ReaderQuit, ReadSendErr, ReadSendResp, writeVars
<1> QED
  BY <1>1, <1>2, <1>3, <1>4, <1>5, <1>6, <1>7, <1>8 DEF Next, Writer
----------------------------------------------------------------------------
(***************************************************************************)
(* Reads: every reply reaches the caller that asked                        *)
(***************************************************************************)
LEMMA InitReplies == Init => IInv
<1> SUFFICES ASSUME Init PROVE IInv
  OBVIOUS
<1> USE DEF Init, Running
<1>1. TypeOK
  <2>1. stored \in [DocIds -> Ciphers \cup {NoDoc}] /\ lastPut = stored
    OBVIOUS
  <2>2. writes \in Seq(Write) /\ failed \in Seq(DocIds) /\ reads \in Seq(Callers)
    OBVIOUS
  <2>3. /\ rPc \in [Readers -> {"recv", "err", "resp", "done"}]
        /\ rReq \in [Readers -> SUBSET Callers]
        /\ rDoc \in [Readers -> {NoDoc, EmptyDoc}]
    OBVIOUS
  <2>4. cPc \in [Callers -> {"idle", "resp", "err", "returned"}]
    OBVIOUS
  <2>5. cErr \in [Callers -> Seq({"nil"})] /\ cResp \in [Callers -> Seq({NoDoc, EmptyDoc})]
    OBVIOUS
  <2> QED
    BY <2>1, <2>2, <2>3, <2>4, <2>5 DEF TypeOK
<1>2. CapInv
  BY DEF CapInv, ReplyCap
<1>3. RequestInv
  BY EmptyQueue DEF RequestInv
<1>4. ReplyInv
  BY EmptyQueue DEF ReplyInv
<1> QED
  BY <1>1, <1>2, <1>3, <1>4 DEF IInv

LEMMA CrashReplies == ASSUME IInv, Crash PROVE IInv'
<1> USE DEF Crash, Running
<1>1. TypeOK'
  <2>1. stored' \in [DocIds -> Ciphers \cup {NoDoc}] /\ lastPut' = stored'
    BY DEF IInv, TypeOK
  <2>2. writes' \in Seq(Write) /\ failed' \in Seq(DocIds) /\ reads' \in Seq(Callers)
    BY DEF IInv, TypeOK
  <2>3. /\ rPc' \in [Readers -> {"recv", "err", "resp", "done"}]
        /\ rReq' \in [Readers -> SUBSET Callers]
        /\ rDoc' \in [Readers -> {NoDoc, EmptyDoc}]
    OBVIOUS
  <2>4. cPc' \in [Callers -> {"idle", "resp", "err", "returned"}]
    OBVIOUS
  <2>5. /\ cErr' \in [Callers -> Seq({"nil"})]
        /\ cResp' \in [Callers -> Seq({NoDoc, EmptyDoc})]
    OBVIOUS
  <2> QED
    BY <2>1, <2>2, <2>3, <2>4, <2>5 DEF TypeOK
<1>2. CapInv'
  BY DEF CapInv, ReplyCap
<1>3. RequestInv'
  BY EmptyQueue DEF RequestInv
<1>4. ReplyInv'
  BY EmptyQueue DEF ReplyInv
<1> QED
  BY <1>1, <1>2, <1>3, <1>4 DEF IInv

\* The writer and PutDoc keep the types, and touch nothing of the readers.
LEMMA WriterReplies == ASSUME IInv, UploadCipherDocs \/ Writer PROVE IInv'
<1>1. TypeOK
  BY DEF IInv
<1>2. UNCHANGED <<reads, readerVars, cErr, cResp, callerVars>>
  BY DEF UploadCipherDocs, PutDoc, Writer, WriteDoc, WriteFails, WriterQuit
<1>3. /\ stored' \in [DocIds -> Ciphers \cup {NoDoc}]
      /\ lastPut' \in [DocIds -> Ciphers \cup {NoDoc}]
      /\ writes' \in Seq(Write) /\ failed' \in Seq(DocIds)
  <2>1. CASE UploadCipherDocs
    BY <1>1, <2>1 DEF UploadCipherDocs, PutDoc, TypeOK, Write
  <2>2. CASE WriteDoc \/ WriteFails
    <3>1. /\ Tail(writes) \in Seq(Write)
          /\ Head(writes).id \in DocIds /\ Head(writes).doc \in Ciphers
      BY <1>1, <2>2, NextWrite DEF WriteDoc, WriteFails
    <3>2. CASE WriteDoc
      BY <1>1, <3>1, <3>2 DEF WriteDoc, TypeOK
    <3>3. CASE WriteFails
      BY <1>1, <3>1, <3>3 DEF WriteFails, TypeOK
    <3> QED
      BY <2>2, <3>2, <3>3
  <2>3. CASE WriterQuit
    BY <1>1, <2>3 DEF WriterQuit, TypeOK
  <2> QED
    BY <2>1, <2>2, <2>3 DEF Writer
<1>4. TypeOK'
  BY <1>1, <1>2, <1>3 DEF TypeOK, readerVars, callerVars
<1> QED
  BY <1>2, <1>4 DEF IInv, CapInv, RequestInv, ReplyInv, readerVars, callerVars

\* A caller with a request under way waits for its response.
LEMMA RetrieveReplies ==
    ASSUME IInv, NEW c \in Callers, NEW d \in DocIds, Retrieve(c, d)
    PROVE  IInv'
<1> USE DEF IInv
<1>1. /\ cPc[c] = "idle" /\ reads' = Append(reads, c)
      /\ cPc' = [cPc EXCEPT ![c] = "resp"]
      /\ UNCHANGED <<writeVars, readerVars, cErr, cResp, cDoc>>
  BY DEF Retrieve
<1>2. /\ c \notin Range(reads) /\ \A r \in Readers : c \notin rReq[r]
      /\ cErr[c] = <<>> /\ cResp[c] = <<>>
  BY <1>1 DEF ReplyInv
<1>3. /\ reads' \in Seq(Callers) /\ Range(reads') = Range(reads) \cup {c}
      /\ IsInjective(reads')
  BY <1>1, <1>2, AppendQueue DEF TypeOK, RequestInv
<1>4. TypeOK'
  BY <1>1, <1>3 DEF TypeOK, writeVars, readerVars
<1>5. CapInv' /\ RequestInv'
  BY <1>1, <1>2, <1>3 DEF CapInv, RequestInv, readerVars
<1>6. ReplyInv'
  <2>1. cPc'[c] = "resp" /\ \A e \in Callers : e # c => cPc'[e] = cPc[e]
    BY <1>1 DEF TypeOK
  <2> QED
    BY <1>1, <1>2, <1>3, <2>1 DEF ReplyInv, TypeOK, readerVars
<1> QED
  BY <1>4, <1>5, <1>6

LEMMA ReadRecvReplies == ASSUME IInv, NEW r \in Readers, ReadRecv(r) PROVE IInv'
<1> USE DEF IInv
<1> DEFINE c == Head(reads)
<1>1. /\ rPc[r] = "recv" /\ reads # <<>> /\ reads' = Tail(reads)
      /\ rReq' = [rReq EXCEPT ![r] = {c}]
      /\ rPc' = [rPc EXCEPT ![r] = "err"]
      /\ UNCHANGED <<writeVars, cErr, cResp, callerVars>>
  BY DEF ReadRecv
<1>2. /\ c \in Callers /\ reads' \in Seq(Callers) /\ IsInjective(reads')
      /\ Range(reads) = {c} \cup Range(reads') /\ c \notin Range(reads')
  BY <1>1, TailQueue DEF TypeOK, RequestInv
<1>3. rDoc' \in [Readers -> {NoDoc, EmptyDoc}]
  BY DEF ReadRecv, TypeOK, Lookup
<1> HIDE DEF c
<1>4. TypeOK'
  BY <1>1, <1>2, <1>3 DEF TypeOK, writeVars, callerVars
<1>5. /\ rReq'[r] = {c} /\ rPc'[r] = "err"
      /\ \A q \in Readers : q # r => rReq'[q] = rReq[q] /\ rPc'[q] = rPc[q]
  BY <1>1 DEF TypeOK
<1>6. RequestInv'
  BY <1>2, <1>5 DEF RequestInv
<1>7. CapInv' /\ ReplyInv'
  BY <1>1, <1>2, <1>5 DEF CapInv, ReplyInv, callerVars
<1> QED
  BY <1>4, <1>6, <1>7

LEMMA SendErrReplies ==
    ASSUME IInv, NEW r \in Readers, NEW c \in Callers, ReadSendErr(r, c)
    PROVE  IInv'
<1> USE DEF IInv
<1>1. /\ rPc[r] = "err" /\ c \in rReq[r] /\ Len(cErr[c]) < ReplyCap
      /\ cErr' = [cErr EXCEPT ![c] = Append(cErr[c], "nil")]
      /\ rPc' = [rPc EXCEPT ![r] = "resp"]
      /\ UNCHANGED <<writeVars, reads, rReq, rDoc, cResp, callerVars>>
  BY DEF ReadSendErr
<1>2. cErr[c] \in Seq({"nil"}) /\ Append(cErr[c], "nil") \in Seq({"nil"})
  BY DEF TypeOK
<1>3. Len(Append(cErr[c], "nil")) <= ReplyCap
  BY <1>1, <1>2 DEF ReplyCap
<1>4. TypeOK'
  BY <1>1, <1>2 DEF TypeOK, writeVars, callerVars
<1>5. /\ \A e \in Callers : e # c => cErr'[e] = cErr[e]
      /\ cErr'[c] = Append(cErr[c], "nil")
      /\ \A q \in Readers : q # r => rPc'[q] = rPc[q]
      /\ rPc'[r] = "resp"
  BY <1>1 DEF TypeOK
<1>6. CapInv'
  BY <1>1, <1>3, <1>5 DEF CapInv
<1>7. RequestInv'
  BY <1>1, <1>5 DEF RequestInv
<1>8. c \notin Range(reads) /\ \A q \in Readers : q # r => c \notin rReq[q]
  BY <1>1 DEF RequestInv
<1>9. cPc[c] = "resp"
  BY <1>1 DEF ReplyInv
<1>10. ReplyInv'
  BY <1>1, <1>5, <1>8, <1>9 DEF ReplyInv, callerVars
<1> QED
  BY <1>4, <1>6, <1>7, <1>10

LEMMA SendRespReplies ==
    ASSUME IInv, NEW r \in Readers, NEW c \in Callers, ReadSendResp(r, c)
    PROVE  IInv'
<1> USE DEF IInv
<1>1. /\ rPc[r] = "resp" /\ c \in rReq[r] /\ Len(cResp[c]) < ReplyCap
      /\ cResp' = [cResp EXCEPT ![c] = Append(cResp[c], rDoc[r])]
      /\ rReq' = [rReq EXCEPT ![r] = {}] /\ rDoc' = [rDoc EXCEPT ![r] = NoDoc]
      /\ rPc' = [rPc EXCEPT ![r] = "recv"]
      /\ UNCHANGED <<writeVars, reads, cErr, callerVars>>
  BY DEF ReadSendResp
<1>2. /\ cResp[c] \in Seq({NoDoc, EmptyDoc})
      /\ Append(cResp[c], rDoc[r]) \in Seq({NoDoc, EmptyDoc})
  BY DEF TypeOK
<1>3. Len(Append(cResp[c], rDoc[r])) <= ReplyCap
  BY <1>1, <1>2 DEF ReplyCap
<1>4. TypeOK'
  BY <1>1, <1>2 DEF TypeOK, writeVars, callerVars
<1>5. /\ \A e \in Callers : e # c => cResp'[e] = cResp[e]
      /\ cResp'[c] = Append(cResp[c], rDoc[r])
      /\ \A q \in Readers : q # r => rPc'[q] = rPc[q] /\ rReq'[q] = rReq[q]
      /\ rPc'[r] = "recv" /\ rReq'[r] = {}
  BY <1>1 DEF TypeOK
<1>6. CapInv'
  BY <1>1, <1>3, <1>5 DEF CapInv
<1>7. RequestInv'
  BY <1>1, <1>5 DEF RequestInv
<1>8. c \notin Range(reads) /\ \A q \in Readers : q # r => c \notin rReq[q]
  BY <1>1 DEF RequestInv
<1>9. cPc[c] = "resp"
  BY <1>1 DEF ReplyInv
<1>10. ReplyInv'
  BY <1>1, <1>5, <1>8, <1>9 DEF ReplyInv, callerVars
<1> QED
  BY <1>4, <1>6, <1>7, <1>10

\* The one reply that a channel has room for is taken.
LEMMA TakeReply ==
    ASSUME NEW S, NEW s \in Seq(S), Len(s) <= ReplyCap, s # <<>>
    PROVE  Tail(s) = <<>> /\ Head(s) \in S
<1>1. Len(s) \in Nat \ {0}
  OBVIOUS
<1>2. Len(s) = 1
  BY <1>1 DEF ReplyCap
<1>3. Tail(s) \in Seq(S) /\ Len(Tail(s)) = 0 /\ Head(s) \in S
  BY <1>2
<1>4. \A t \in Seq(S) : t # <<>> => Len(t) \in Nat \ {0}
  OBVIOUS
<1> QED
  BY <1>3, <1>4

LEMMA CallerReplies == ASSUME IInv, NEW c \in Callers, Caller(c) PROVE IInv'
<1> USE DEF IInv
<1>1. CASE RetrieveResp(c)
  <2>1. /\ cPc[c] = "resp" /\ cResp[c] # <<>> /\ cDoc' = [cDoc EXCEPT ![c] = Head(cResp[c])]
        /\ cResp' = [cResp EXCEPT ![c] = Tail(cResp[c])]
        /\ cPc' = [cPc EXCEPT ![c] = "err"]
        /\ UNCHANGED <<writeVars, reads, readerVars, cErr>>
    BY <1>1 DEF RetrieveResp
  <2>2. Tail(cResp[c]) = <<>>
    BY <2>1, TakeReply DEF TypeOK, CapInv
  <2>3. /\ \A e \in Callers : e # c => cResp'[e] = cResp[e] /\ cPc'[e] = cPc[e]
        /\ cResp'[c] = <<>> /\ cPc'[c] = "err"
    BY <2>1, <2>2 DEF TypeOK
  <2>4. TypeOK'
    BY <2>1, <2>2 DEF TypeOK, writeVars, readerVars
  <2>5. CapInv'
    BY <2>1, <2>3 DEF CapInv, ReplyCap
  <2>6. RequestInv'
    BY <2>1 DEF RequestInv, readerVars
  <2>7. c \notin Range(reads) /\ \A r \in Readers : c \notin rReq[r]
    BY <2>1 DEF ReplyInv
  <2>8. ReplyInv'
    BY <2>1, <2>3, <2>7 DEF ReplyInv, TypeOK, readerVars
  <2> QED
    BY <2>4, <2>5, <2>6, <2>8
<1>2. CASE RetrieveErr(c)
  <2>1. /\ cPc[c] = "err" /\ cErr[c] # <<>> /\ cErr' = [cErr EXCEPT ![c] = Tail(cErr[c])]
        /\ cPc' = [cPc EXCEPT ![c] = "returned"]
        /\ UNCHANGED <<writeVars, reads, readerVars, cResp>>
    BY <1>2 DEF RetrieveErr
  <2>2. Tail(cErr[c]) = <<>>
    BY <2>1, TakeReply DEF TypeOK, CapInv
  <2>3. /\ \A e \in Callers : e # c => cErr'[e] = cErr[e] /\ cPc'[e] = cPc[e]
        /\ cErr'[c] = <<>> /\ cPc'[c] = "returned"
    BY <2>1, <2>2 DEF TypeOK
  <2>4. TypeOK'
    BY <2>1, <2>2 DEF TypeOK, writeVars, readerVars
  <2>5. CapInv'
    BY <2>1, <2>3 DEF CapInv, ReplyCap
  <2>6. RequestInv'
    BY <2>1 DEF RequestInv, readerVars
  <2>7. c \notin Range(reads) /\ \A r \in Readers : c \notin rReq[r]
    BY <2>1 DEF ReplyInv
  <2>8. ReplyInv'
    BY <2>1, <2>3, <2>7 DEF ReplyInv, TypeOK, readerVars
  <2> QED
    BY <2>4, <2>5, <2>6, <2>8
<1> QED
  BY <1>1, <1>2 DEF Caller

LEMMA FetchSendReplies == ASSUME IInv, NEW c \in Callers, FetchSend(c) PROVE IInv'
<1> USE DEF IInv
<1>1. /\ cPc[c] = "returned" /\ cPc' = [cPc EXCEPT ![c] = "idle"]
      /\ UNCHANGED <<writeVars, reads, readerVars, cErr, cResp>>
  BY DEF FetchSend
<1>2. cPc'[c] = "idle" /\ \A e \in Callers : e # c => cPc'[e] = cPc[e]
  BY <1>1 DEF TypeOK
<1>3. TypeOK'
  BY <1>1 DEF TypeOK, writeVars, readerVars
<1>4. CapInv' /\ RequestInv'
  BY <1>1 DEF CapInv, RequestInv, readerVars
<1>5. ReplyInv'
  BY <1>1, <1>2 DEF ReplyInv, TypeOK, readerVars
<1> QED
  BY <1>3, <1>4, <1>5

LEMMA ReaderQuitReplies == ASSUME IInv, NEW r \in Readers, ReaderQuit(r) PROVE IInv'
<1> USE DEF IInv
<1>1. /\ rPc[r] = "recv" /\ rPc' = [rPc EXCEPT ![r] = "done"]
      /\ UNCHANGED <<writeVars, reads, rReq, rDoc, cErr, cResp, callerVars>>
  BY DEF ReaderQuit
<1>2. rPc'[r] = "done" /\ \A q \in Readers : q # r => rPc'[q] = rPc[q]
  BY <1>1 DEF TypeOK
<1>3. TypeOK'
  BY <1>1 DEF TypeOK, writeVars, callerVars
<1>4. CapInv' /\ RequestInv'
  BY <1>1, <1>2 DEF CapInv, RequestInv
<1>5. ReplyInv'
  BY <1>1, <1>2 DEF ReplyInv, TypeOK, callerVars
<1> QED
  BY <1>3, <1>4, <1>5

LEMMA ReplyStep == IInv /\ [Next]_vars => IInv'
<1> SUFFICES ASSUME IInv, [Next]_vars PROVE IInv'
  OBVIOUS
<1>1. CASE UploadCipherDocs \/ Writer
  BY <1>1, WriterReplies
<1>2. ASSUME NEW c \in Callers, FetchDocuments(c) PROVE IInv'
  BY <1>2, RetrieveReplies, CallerReplies, FetchSendReplies DEF FetchDocuments
<1>3. ASSUME NEW r \in Readers, Reader(r) PROVE IInv'
  BY <1>3, ReadRecvReplies, ReaderQuitReplies, SendErrReplies, SendRespReplies DEF Reader
<1>4. CASE Stop \/ StopReturn \/ UNCHANGED vars
  <2>1. UNCHANGED <<stored, lastPut, writes, failed, reads, rPc, rReq, rDoc, cPc,
                    cErr, cResp>>
    BY <1>4 DEF Stop, StopReturn, vars, writeVars, readerVars, callerVars
  <2> QED
    BY <2>1 DEF IInv, TypeOK, CapInv, RequestInv, ReplyInv
<1> QED
  BY <1>1, <1>2, <1>3, <1>4, CrashReplies DEF Next
----------------------------------------------------------------------------
\* The inductive invariant of the readers: a request, and each of its replies,
\* is in one place.
THEOREM ReadsCorrect == Spec => []IInv
<1> QED
  BY InitReplies, ReplyStep, PTL DEF Spec

\* Replies reach the caller that asked, one each (RepliesMatch).
THEOREM RepliesReachCaller == Spec => []RepliesMatch
<1>1. IInv => RepliesMatch
  BY DEF IInv, TypeOK, ReplyInv, RepliesMatch
<1> QED
  BY <1>1, ReadsCorrect, PTL

\* Of several documents put under one id the last wins (LastPutWins).
THEOREM LastPutStored == Spec => []LastPutWins
<1>1. Init => WriteInv
  BY DEF Init, WriteInv, Wins, NoneQueued
<1>2. IInv /\ WriteInv /\ [Next]_vars => WriteInv'
  BY WriteStep DEF IInv
<1>3. Spec => []WriteInv
  BY <1>1, <1>2, ReadsCorrect, PTL DEF Spec
<1> QED
  BY <1>3, WinsLastPut, PTL
=============================================================================
