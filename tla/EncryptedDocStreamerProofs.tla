--------------------- MODULE EncryptedDocStreamerProofs ---------------------
(***************************************************************************)
(* Proofs about EncryptedDocStreamer, for any set of documents, any finite *)
(* number of docEncrypters, and any number of failures.                    *)
(***************************************************************************)
EXTENDS EncryptedDocStreamer, FiniteSetTheorems, TLAPS

TypeOK ==
    /\ unsent \in SUBSET Docs
    /\ ePc \in [Workers -> {"none", "recv", "send", "done"}]
    /\ eDoc \in [Workers -> SUBSET Docs]
    /\ chan \in Seq(Docs) /\ uploaded \in Seq(Docs)
    /\ closed \in BOOLEAN /\ stream \in BOOLEAN
    /\ uPc \in {"open", "recv", "done"}
    /\ errs \in Nat
    /\ stopPc \in {"none", "waiting", "returned"}

\* A docEncrypter holds a document exactly while it is about to send it, and no
\* document is in two places.
HeldInv ==
    /\ \A w \in Workers : IF ePc[w] = "send" THEN \E d \in Docs : eDoc[w] = {d}
                                             ELSE eDoc[w] = {}
    /\ \A v, w \in Workers : v # w => eDoc[v] \cap eDoc[w] = {}
    /\ \A w \in Workers : /\ eDoc[w] \cap unsent = {}
                          /\ eDoc[w] \cap Range(chan) = {}
                          /\ eDoc[w] \cap Range(uploaded) = {}

QueueInv ==
    /\ unsent \cap (Range(chan) \cup Range(uploaded)) = {}
    /\ Range(chan) \cap Range(uploaded) = {}
    /\ IsInjective(chan) /\ IsInjective(uploaded)

\* Nothing is lost but by a failing Send.
KeptInv ==
    errs = 0 => Docs = unsent \cup Range(chan) \cup Range(uploaded)
                            \cup UNION {eDoc[w] : w \in Workers}

\* The channel is closed by a docEncrypter that leaves, once docStream is
\* empty; the uploader leaves once the channel is. Stop excuses both.
CloseInv ==
    /\ closed => \E w \in Workers : ePc[w] = "done"
    /\ closed => unsent = {} \/ quit
    /\ uPc = "done" => (closed /\ chan = <<>>) \/ quit

IInv == TypeOK /\ HeldInv /\ QueueInv /\ KeptInv /\ CloseInv
----------------------------------------------------------------------------
\* What a queue holds once an element is added, and once one is taken, and that
\* it holds nothing twice.
LEMMA AppendQueue ==
    ASSUME NEW S, NEW s \in Seq(S), NEW x \in S
    PROVE  /\ Append(s, x) \in Seq(S)
           /\ Range(Append(s, x)) = Range(s) \cup {x}
           /\ IsInjective(s) /\ x \notin Range(s) => IsInjective(Append(s, x))
<1>1. /\ Len(s) \in Nat /\ DOMAIN s = 1 .. Len(s)
      /\ DOMAIN Append(s, x) = 1 .. Len(s) + 1
      /\ \A i \in 1 .. Len(s) : Append(s, x)[i] = s[i]
      /\ Append(s, x)[Len(s) + 1] = x
  OBVIOUS
<1>2. 1 .. Len(s) + 1 = 1 .. Len(s) \cup {Len(s) + 1}
  BY <1>1
<1>3. Range(Append(s, x)) = Range(s) \cup {x}
  BY <1>1, <1>2, Zenon DEF Range
<1>4. ASSUME IsInjective(s), x \notin Range(s) PROVE IsInjective(Append(s, x))
  <2> SUFFICES ASSUME NEW i \in 1 .. Len(s) + 1, NEW j \in 1 .. Len(s) + 1,
                      Append(s, x)[i] = Append(s, x)[j]
               PROVE  i = j
    BY <1>1 DEF IsInjective
  <2>1. \A k \in 1 .. Len(s) : s[k] # x
    BY <1>1, <1>4 DEF Range
  <2>2. \A k, l \in 1 .. Len(s) : s[k] = s[l] => k = l
    BY <1>1, <1>4 DEF IsInjective
  <2> QED
    BY <1>1, <1>2, <2>1, <2>2
<1> QED
  BY <1>3, <1>4

LEMMA TailQueue ==
    ASSUME NEW S, NEW s \in Seq(S), s # <<>>
    PROVE  /\ Head(s) \in S /\ Tail(s) \in Seq(S)
           /\ Range(s) = {Head(s)} \cup Range(Tail(s))
           /\ IsInjective(s) => /\ IsInjective(Tail(s))
                                /\ Head(s) \notin Range(Tail(s))
<1>1. /\ Len(s) \in Nat \ {0} /\ DOMAIN s = 1 .. Len(s) /\ Head(s) = s[1]
      /\ DOMAIN Tail(s) = 1 .. Len(s) - 1
      /\ \A i \in 1 .. Len(s) - 1 : Tail(s)[i] = s[i + 1]
  OBVIOUS
<1>2. /\ \A i \in 1 .. Len(s) - 1 : i + 1 \in 1 .. Len(s) /\ i + 1 # 1
      /\ \A i \in 1 .. Len(s) : i = 1 \/ \E j \in 1 .. Len(s) - 1 : i = j + 1
      /\ \A i, j \in 1 .. Len(s) - 1 : i + 1 = j + 1 => i = j
      /\ 1 \in 1 .. Len(s)
  <2>1. \A i \in 1 .. Len(s) : i = 1 \/ (i - 1 \in 1 .. Len(s) - 1 /\ i = (i - 1) + 1)
    BY <1>1
  <2> QED
    BY <1>1, <2>1
<1>3. Range(s) = {Head(s)} \cup Range(Tail(s))
  <2>1. ASSUME NEW i \in 1 .. Len(s) PROVE s[i] \in {Head(s)} \cup Range(Tail(s))
    <3>1. CASE i = 1
      BY <1>1, <3>1
    <3>2. CASE \E j \in 1 .. Len(s) - 1 : i = j + 1
      <4>1. PICK j \in 1 .. Len(s) - 1 : i = j + 1
        BY <3>2
      <4>2. Tail(s)[j] \in Range(Tail(s)) /\ Tail(s)[j] = s[i]
        BY <1>1, <4>1 DEF Range
      <4> QED
        BY <4>2
    <3> QED
      BY <1>2, <3>1, <3>2
  <2>2. ASSUME NEW i \in 1 .. Len(s) - 1 PROVE Tail(s)[i] \in Range(s)
    BY <1>1, <1>2 DEF Range
  <2>3. Head(s) \in Range(s)
    BY <1>1, <1>2 DEF Range
  <2> QED
    BY <1>1, <2>1, <2>2, <2>3 DEF Range
<1>4. ASSUME IsInjective(s)
      PROVE  IsInjective(Tail(s)) /\ Head(s) \notin Range(Tail(s))
  <2>1. \A i, j \in 1 .. Len(s) : s[i] = s[j] => i = j
    BY <1>1, <1>4 DEF IsInjective
  <2>2. IsInjective(Tail(s))
    BY <1>1, <1>2, <2>1 DEF IsInjective
  <2>3. Head(s) \notin Range(Tail(s))
    BY <1>1, <1>2, <2>1 DEF Range
  <2> QED
    BY <2>2, <2>3
<1> QED
  BY <1>1, <1>3, <1>4
----------------------------------------------------------------------------
LEMMA InitInv == Init => IInv
<1> SUFFICES ASSUME Init PROVE IInv
  OBVIOUS
<1>1. Range(<<>>) = {} /\ IsInjective(<<>>)
  BY DEF Range, IsInjective
<1>2. UNION {eDoc[w] : w \in Workers} = {}
  BY DEF Init
<1>3. TypeOK
  <2>1. ePc \in [Workers -> {"none", "recv", "send", "done"}]
    BY DEF Init
  <2>2. eDoc \in [Workers -> SUBSET Docs]
    BY DEF Init
  <2>3. chan \in Seq(Docs) /\ uploaded \in Seq(Docs)
    BY DEF Init
  <2>4. unsent \in SUBSET Docs
    BY DEF Init
  <2> QED
    BY <2>1, <2>2, <2>3, <2>4 DEF Init, TypeOK
<1>4. HeldInv
  BY DEF Init, HeldInv
<1>5. QueueInv
  BY <1>1 DEF Init, QueueInv
<1>6. KeptInv
  BY <1>1, <1>2 DEF Init, KeptInv
<1>7. CloseInv
  BY DEF Init, CloseInv, quit
<1> QED
  BY <1>3, <1>4, <1>5, <1>6, <1>7 DEF IInv

\* A failure is counted.
LEMMA AbortCounts == ASSUME TypeOK, Abort PROVE errs' \in Nat /\ errs' # 0
BY DEF TypeOK, Abort

\* An operation fails or not.
LEMMA ErrsType ==
    ASSUME TypeOK, UNCHANGED errVars \/ Abort
    PROVE  errs' \in Nat /\ (errs' = 0 => errs = 0)
BY AbortCounts DEF TypeOK, errVars

LEMMA EncryptDocInv ==
    ASSUME IInv, NEW w \in Workers, NEW d \in Docs, EncryptDoc(w, d)
    PROVE  IInv'
<1> USE DEF IInv
<1>1. /\ ePc[w] = "recv" /\ d \in unsent /\ unsent' = unsent \ {d}
      /\ eDoc' = [eDoc EXCEPT ![w] = {d}] /\ ePc' = [ePc EXCEPT ![w] = "send"]
      /\ UNCHANGED <<chan, closed, upVars, stopPc>>
  BY DEF EncryptDoc
<1>2. errs' \in Nat /\ (errs' = 0 => errs = 0)
  BY ErrsType DEF EncryptDoc
<1>3. TypeOK'
  BY <1>1, <1>2 DEF TypeOK, upVars
<1>4. /\ \A v \in Workers : v # w => eDoc'[v] = eDoc[v] /\ ePc'[v] = ePc[v]
      /\ eDoc'[w] = {d} /\ ePc'[w] = "send" /\ eDoc[w] = {}
  BY <1>1 DEF TypeOK, HeldInv
<1>5. HeldInv'
  BY <1>1, <1>4 DEF HeldInv, QueueInv, upVars
<1>6. QueueInv'
  BY <1>1 DEF QueueInv, upVars
<1>7. UNION {eDoc'[v] : v \in Workers} = {d} \cup UNION {eDoc[v] : v \in Workers}
  BY <1>4
<1>8. KeptInv'
  BY <1>1, <1>2, <1>7 DEF KeptInv, upVars
<1>9. CloseInv'
  BY <1>1, <1>4 DEF CloseInv, upVars, quit
<1> QED
  BY <1>3, <1>5, <1>6, <1>8, <1>9

LEMMA EncrypterSendInv ==
    ASSUME IInv, NEW w \in Workers, EncrypterSend(w)
    PROVE  IInv'
<1> USE DEF IInv
<1>1. PICK d \in Docs : eDoc[w] = {d}
  BY DEF EncrypterSend, HeldInv
<1>2. /\ ePc[w] = "send" /\ ~closed /\ chan' = Append(chan, d)
      /\ eDoc' = [eDoc EXCEPT ![w] = {}] /\ ePc' = [ePc EXCEPT ![w] = "recv"]
      /\ UNCHANGED <<unsent, closed, upVars, errVars, stopPc>>
  BY <1>1 DEF EncrypterSend
<1>3. /\ chan' \in Seq(Docs) /\ Range(chan') = Range(chan) \cup {d}
      /\ IsInjective(chan')
  BY <1>1, <1>2, AppendQueue DEF TypeOK, HeldInv, QueueInv
<1>4. TypeOK'
  BY <1>2, <1>3 DEF TypeOK, upVars, errVars
<1>5. /\ \A v \in Workers : v # w => eDoc'[v] = eDoc[v] /\ ePc'[v] = ePc[v]
      /\ eDoc'[w] = {} /\ ePc'[w] = "recv"
  BY <1>2 DEF TypeOK
<1>6. HeldInv'
  BY <1>1, <1>2, <1>3, <1>5 DEF HeldInv, upVars
<1>7. QueueInv'
  BY <1>1, <1>2, <1>3 DEF HeldInv, QueueInv, upVars
<1>8. UNION {eDoc[v] : v \in Workers} = {d} \cup UNION {eDoc'[v] : v \in Workers}
  BY <1>1, <1>5
<1>9. KeptInv'
  BY <1>2, <1>3, <1>8 DEF KeptInv, upVars, errVars
<1>10. CloseInv'
  BY <1>2, <1>5 DEF CloseInv, upVars, quit
<1> QED
  BY <1>4, <1>6, <1>7, <1>9, <1>10

LEMMA EncrypterEndInv ==
    ASSUME IInv, NEW w \in Workers, EncrypterEnd(w)
    PROVE  IInv'
<1> USE DEF IInv
<1>1. /\ ePc[w] = "recv" /\ ePc' = [ePc EXCEPT ![w] = "done"] /\ closed' = TRUE
      /\ unsent = {} \/ quit
      /\ UNCHANGED <<unsent, eDoc, chan, upVars, errVars, stopPc>>
  BY DEF EncrypterEnd
<1>2. TypeOK'
  BY <1>1 DEF TypeOK, upVars, errVars
<1>3. /\ \A v \in Workers : v # w => ePc'[v] = ePc[v]
      /\ ePc'[w] = "done"
  BY <1>1 DEF TypeOK
<1>4. HeldInv'
  BY <1>1, <1>3 DEF HeldInv, upVars
<1>5. QueueInv' /\ KeptInv'
  BY <1>1 DEF QueueInv, KeptInv, upVars, errVars
<1>6. CloseInv'
  BY <1>1, <1>3 DEF CloseInv, upVars, quit
<1> QED
  BY <1>2, <1>4, <1>5, <1>6

LEMMA UploaderSendInv == ASSUME IInv, UploaderSend PROVE IInv'
<1> USE DEF IInv
<1>1. /\ uPc = "recv" /\ chan # <<>> /\ chan' = Tail(chan)
      /\ \/ uploaded' = Append(uploaded, Head(chan)) /\ UNCHANGED errVars
         \/ Abort /\ UNCHANGED uploaded
      /\ UNCHANGED <<encVars, closed, uPc, stream, stopPc>>
  BY DEF UploaderSend
<1>2. /\ Head(chan) \in Docs /\ Tail(chan) \in Seq(Docs)
      /\ Range(chan) = {Head(chan)} \cup Range(Tail(chan))
      /\ IsInjective(Tail(chan)) /\ Head(chan) \notin Range(Tail(chan))
  BY <1>1, TailQueue DEF TypeOK, QueueInv
<1>3. /\ uploaded' \in Seq(Docs) /\ IsInjective(uploaded')
      /\ Range(uploaded') \subseteq Range(uploaded) \cup {Head(chan)}
  <2>1. uploaded \in Seq(Docs) /\ IsInjective(uploaded)
    BY DEF TypeOK, QueueInv
  <2>2. Head(chan) \notin Range(uploaded)
    BY <1>2 DEF QueueInv
  <2>3. CASE uploaded' = Append(uploaded, Head(chan))
    BY <1>2, <2>1, <2>2, <2>3, AppendQueue
  <2>4. CASE UNCHANGED uploaded
    BY <2>1, <2>4
  <2> QED
    BY <1>1, <2>3, <2>4
<1>4. TypeOK'
  BY <1>1, <1>2, <1>3, AbortCounts DEF TypeOK, encVars, errVars
<1>5. HeldInv' /\ QueueInv'
  BY <1>1, <1>2, <1>3 DEF HeldInv, QueueInv, encVars
<1>6. KeptInv'
  <2>1. CASE uploaded' = Append(uploaded, Head(chan)) /\ UNCHANGED errVars
    <3>1. Range(uploaded') = Range(uploaded) \cup {Head(chan)}
      BY <1>2, <2>1, AppendQueue DEF TypeOK
    <3> QED
      BY <1>1, <1>2, <2>1, <3>1 DEF KeptInv, encVars, errVars
  <2>2. CASE Abort /\ UNCHANGED uploaded
    BY <2>2, AbortCounts DEF KeptInv
  <2> QED
    BY <1>1, <2>1, <2>2
<1>7. CloseInv'
  BY <1>1 DEF CloseInv, encVars, quit
<1> QED
  BY <1>4, <1>5, <1>6, <1>7

\* The steps that move no document.
LEMMA OtherInv ==
    ASSUME IInv,
           UNCHANGED <<encVars, chan, closed, uploaded>>,
           UNCHANGED errVars \/ Abort,
           uPc' \in {"open", "recv", "done"} /\ stream' \in BOOLEAN,
           uPc' = "done" => uPc = "done" \/ (closed /\ chan = <<>>) \/ quit,
           stopPc' \in {"none", "waiting", "returned"} /\ (quit => quit')
    PROVE  IInv'
<1> USE DEF IInv, encVars
<1>1. errs' \in Nat /\ (errs' = 0 => errs = 0)
  BY ErrsType
<1>2. TypeOK'
  BY <1>1 DEF TypeOK
<1>3. HeldInv' /\ QueueInv'
  BY DEF HeldInv, QueueInv
<1>4. KeptInv'
  BY <1>1 DEF KeptInv
<1>5. CloseInv'
  BY DEF CloseInv
<1> QED
  BY <1>2, <1>3, <1>4, <1>5

LEMMA NextInv == IInv /\ [Next]_vars => IInv'
<1> SUFFICES ASSUME IInv, [Next]_vars PROVE IInv'
  OBVIOUS
<1>1. ASSUME NEW w \in Workers, Encrypter(w) PROVE IInv'
  <2>1. CASE \E d \in Docs : EncryptDoc(w, d)
    BY <2>1, EncryptDocInv
  <2>2. CASE EncrypterSend(w)
    BY <2>2, EncrypterSendInv
  <2>3. CASE EncrypterEnd(w)
    BY <2>3, EncrypterEndInv
  <2>4. CASE EncrypterSendPanics(w) \/ EncrypterEndPanics(w)
    BY <2>4, OtherInv DEF EncrypterSendPanics, EncrypterEndPanics, Panic, upVars,
                          IInv, TypeOK, quit
  <2> QED
    BY <1>1, <2>1, <2>2, <2>3, <2>4 DEF Encrypter
<1>2. CASE Uploader
  <2>1. CASE UploaderOpen
    BY <2>1, OtherInv DEF UploaderOpen, IInv, TypeOK, quit
  <2>2. CASE UploaderSend
    BY <2>2, UploaderSendInv
  <2>3. CASE UploaderEnd
    BY <2>3, OtherInv DEF UploaderEnd, IInv, TypeOK, quit
  <2>4. CASE UploaderPanics
    BY <2>4, OtherInv DEF UploaderPanics, Panic, upVars, IInv, TypeOK, quit
  <2> QED
    BY <1>2, <2>1, <2>2, <2>3, <2>4 DEF Uploader
<1>3. CASE Stop \/ StopReturn
  BY <1>3, OtherInv DEF Stop, StopReturn, upVars, IInv, TypeOK, quit
<1>4. CASE HandleErrors
  BY <1>4, OtherInv DEF HandleErrors, Panic, upVars, IInv, TypeOK, quit
<1>5. CASE Terminated \/ UNCHANGED vars
  BY <1>5, OtherInv DEF Terminated, vars, encVars, upVars, errVars, IInv, TypeOK, quit
<1> QED
  BY <1>1, <1>2, <1>3, <1>4, <1>5 DEF Next
----------------------------------------------------------------------------
\* The inductive invariant: a document is in one place, and what was closed, was
\* closed with nothing left to send.
THEOREM StreamerCorrect == Spec => []IInv
<1> QED
  BY InitInv, NextInv, PTL DEF Spec

\* A document is in exactly one place on its way to the server (EachDocOnce).
THEOREM DocsOnce == Spec => []EachDocOnce
<1>1. IInv => EachDocOnce
  BY DEF IInv, QueueInv, KeptInv, EachDocOnce
<1> QED
  BY <1>1, StreamerCorrect, PTL

\* With one docEncrypter the uploader ends only when every document has been
\* sent (AllUploaded).
THEOREM AllDocsUploaded == Spec => []AllUploaded
<1>1. ASSUME IInv, uPc = "done", ~quit, errs = 0, Cardinality(Started) = 1
      PROVE  Range(uploaded) = Docs
  <2> USE DEF IInv
  <2>1. PICK w \in Workers : Started = {w}
    <3>1. IsFiniteSet(Started)
      BY WorkersAssumption, FS_Subset DEF Started
    <3> QED
      BY <1>1, <3>1, FS_Singleton DEF Started
  <2>2. closed /\ chan = <<>> /\ unsent = {}
    BY <1>1 DEF CloseInv
  <2>3. \A v \in Workers : v = w \/ ePc[v] = "none"
    BY <2>1 DEF Started
  <2>4. \A v \in Workers : eDoc[v] = {}
    <3>1. PICK v \in Workers : ePc[v] = "done"
      BY <1>1, <2>2 DEF CloseInv
    <3>2. \A u \in Workers : ePc[u] # "send"
      BY <2>3, <3>1
    <3> QED
      BY <1>1, <3>2 DEF HeldInv
  <2>5. UNION {eDoc[v] : v \in Workers} = {}
    BY <2>4
  <2>6. Range(chan) = {}
    BY <2>2 DEF Range
  <2> QED
    BY <1>1, <2>2, <2>5, <2>6 DEF KeptInv
<1>2. IInv => AllUploaded
  BY <1>1 DEF AllUploaded
<1> QED
  BY <1>2, StreamerCorrect, PTL
=============================================================================
