--------------------------- MODULE IndexerProofs ---------------------------
(***************************************************************************)
(* Proofs about Indexer: the four streams agree, the X-set filter that is  *)
(* uploaded is complete, Index returns to a complete index, and careful    *)
(* runs do not panic, for every corpus and any disturbance.                *)
(***************************************************************************)
EXTENDS Indexer, FiniteSetTheorems, TLAPS
----------------------------------------------------------------------------
(***************************************************************************)
(* The invariant                                                           *)
(***************************************************************************)
Messages == [type : {"xInit", "xAdd", "freqInit", "freqAdd"}, val : Nat]

TypeOK ==
    /\ corpus \in Seq(Nat) /\ bucketed \in BOOLEAN /\ firstTime \in BOOLEAN
    /\ mainPc \in {"register", "cReader", "preProcessor", "bloomMaster", "tfCalc",
                   "eDocStreamer", "encryptedIndexer", "wait", "returned"}
    /\ walked \in Nat /\ rPc \in {"recv", "open", "send", "done"}
    /\ rDoc \in Document /\ nextDocId \in Nat
    /\ pPc \in {"recv", "read", "done"} \cup Streams /\ pDoc \in Document
    /\ out \in [Streams -> Seq(Document)] /\ taken \in [Streams -> Nat]
    /\ sPc \in {"sum", "sent", "done"} /\ msgs \in Seq(Messages)
    /\ xSize \in Int /\ xAdded \in SUBSET Nat /\ xFinished \in BOOLEAN
    /\ freqReady \in BOOLEAN /\ populated \in BOOLEAN
    /\ group \in [Groups -> {"off", "run", "done"}] /\ wg \in Int
    /\ msg \in BOOLEAN /\ faults \in Nat
    /\ stopPc \in {"none", "waiting", "returned"} /\ died \in BOOLEAN

\* How many documents partitionStreams has received, and the streams it has not
\* sent the last one to yet.
Held == IF rPc = "send" THEN nextDocId - 1 ELSE nextDocId
InHand == pPc \in {"read"} \cup Streams
Owed(s) == \/ pPc \in {"read", "tf"}
           \/ pPc = "inv" /\ s # "tf"
           \/ pPc = "sum" /\ s \in {"sum", "enc"}
           \/ pPc = "enc" /\ s = "enc"

\* The documents are numbered as they are read, and every stream has those that
\* partitionStreams received, but for the one in its hands.
LineInv ==
    /\ walked <= Len(corpus) /\ (rPc = "done" => walked = Len(corpus))
    /\ nextDocId = IF rPc = "open" THEN walked - 1 ELSE walked
    /\ rPc = "send" => rDoc.id = nextDocId
    /\ InHand => pDoc.id = Held
    /\ \A s \in Streams :
          /\ Len(out[s]) = IF Owed(s) THEN Held - 1 ELSE Held
          /\ \A i \in 1 .. Len(out[s]) : out[s][i] = out["tf"][i] /\ out[s][i].id = i
    /\ InHand /\ ~Owed("tf") => out["tf"][Held] = pDoc
    /\ pPc = "done" /\ ~quit => rPc = "done"

\* No stream holds more than one document, and nobody has taken one before he was
\* started.
TakenInv ==
    /\ \A s \in Streams : taken[s] <= Len(out[s]) /\ Len(out[s]) <= taken[s] + StreamCap
    /\ taken["tf"] > 0 => group["counting"] # "off"

\* If nothing fails the documents have the words of their files.
CleanInv ==
    faults = 0 =>
        /\ ~msg /\ stopPc = "none"
        /\ rPc = "send" => rDoc.open /\ rDoc.words = corpus[rDoc.id]
        /\ InHand => pDoc.words = corpus[pDoc.id]
        /\ pPc = "read" => pDoc.open
        /\ \A i \in 1 .. Len(out["tf"]) : out["tf"][i].words = corpus[i]

\* The size announced for the X-set is the number of xTags to come, and it is
\* announced when all documents are known.
SizeInv ==
    /\ sPc # "sum" => pPc = "done"
    /\ \A i \in 1 .. Len(msgs) : msgs[i].type = "xInit" =>
          pPc = "done" /\ msgs[i].val = TotalWords(out["inv"])
    /\ xSize # -1 => pPc = "done" /\ xSize = TotalWords(out["inv"])

\* The xTags of a document are queued once, and when the filter is finished they
\* have all been added.
XTagsInv ==
    /\ xAdded \subseteq 1 .. Len(out["inv"])
    /\ \A i \in 1 .. Len(msgs) : msgs[i].type = "xAdd" =>
          /\ msgs[i].val \in (1 .. Len(out["inv"])) \ xAdded
          /\ \A j \in 1 .. Len(msgs) :
                msgs[j].type = "xAdd" /\ msgs[j].val = msgs[i].val => j = i
    /\ xFinished =>
          pPc = "done" /\ \A i \in 1 .. Len(out["inv"]) : out["inv"][i].words > 0 => i \in xAdded
    /\ group["uploader"] = "done" => xFinished

\* The counting of the terms and what waits for it end after the documents, and a
\* saver that ends had no words to wait for.
FreqInv ==
    /\ \A i \in 1 .. Len(msgs) : msgs[i].type \in {"freqInit", "freqAdd"} => pPc = "done"
    /\ freqReady \/ populated \/ group["counting"] = "done" => pPc = "done"
    /\ group["saver"] = "done" => pPc = "done" /\ BucketsEmpty

\* Without workers nothing in the bloom master moves.
ServingInv ==
    ~firstTime =>
        /\ xSize = -1 /\ ~freqReady
        /\ group["populate"] # "done" /\ group["streamer"] # "done"

\* mainWg counts the groups that run, less what totalKeyWordSummer takes off.
Begun(g) ==
    \/ g \in {"uploader", "saver"} /\ firstTime
         /\ mainPc \in {"tfCalc", "eDocStreamer", "encryptedIndexer", "wait", "returned"}
    \/ g \in {"counting", "initializer", "populate"}
         /\ mainPc \in {"eDocStreamer", "encryptedIndexer", "wait", "returned"}
    \/ g \in {"indexing", "streamer"} /\ mainPc \in {"wait", "returned"}
Running == {g \in Groups : group[g] = "run"}
WgInv ==
    /\ \A g \in Groups : group[g] = "off" <=> ~Begun(g)
    /\ wg = Cardinality(Running) - (IF sPc = "done" THEN 1 ELSE 0)
    /\ mainPc = "returned" =>
          /\ pPc = "done" /\ Cardinality(Running) <= 1
          /\ ~BucketsEmpty =>
                \A g \in Groups : group[g] = IF g = "saver" THEN "run" ELSE "done"

IInv ==
    /\ TypeOK /\ LineInv /\ TakenInv /\ CleanInv /\ SizeInv /\ XTagsInv /\ FreqInv
    /\ ServingInv /\ WgInv /\ NoPanic
----------------------------------------------------------------------------
(***************************************************************************)
(* Lemmas about queues and sums                                            *)
(***************************************************************************)

\* What is where in a queue after a put and after a take.
LEMMA AppendQueue ==
    ASSUME NEW S, NEW s \in Seq(S), NEW x \in S
    PROVE  /\ Append(s, x) \in Seq(S)
           /\ Len(Append(s, x)) = Len(s) + 1 /\ Len(s) \in Nat
           /\ \A i \in 1 .. Len(s) : Append(s, x)[i] = s[i]
           /\ Append(s, x)[Len(s) + 1] = x
OBVIOUS

LEMMA TailQueue ==
    ASSUME NEW S, NEW s \in Seq(S), s # <<>>
    PROVE  /\ Tail(s) \in Seq(S) /\ Head(s) \in S /\ Head(s) = s[1]
           /\ Len(Tail(s)) = Len(s) - 1 /\ Len(s) \in Nat \ {0}
           /\ \A i \in 1 .. Len(s) - 1 : Tail(s)[i] = s[i + 1]
OBVIOUS

\* The words of a sequence of documents can be counted.
LEMMA WordsFinite ==
    ASSUME NEW docs \in Seq(Document)
    PROVE  IsFiniteSet(WordsIn(docs)) /\ TotalWords(docs) \in Nat
<1> DEFINE f == [i \in 1 .. Len(docs) |-> {docs[i].id} \X (1 .. docs[i].words)]
           W == {f[i] : i \in 1 .. Len(docs)}
<1>1. Len(docs) \in Nat /\ DOMAIN docs = 1 .. Len(docs)
  OBVIOUS
<1>2. \A i \in 1 .. Len(docs) : docs[i].id \in Nat /\ docs[i].words \in Nat
  <2>1. \A i \in 1 .. Len(docs) : docs[i] \in Document
    OBVIOUS
  <2> QED
    BY <2>1 DEF Document
<1>3. IsFiniteSet(W)
  <2>1. f \in Surjection(1 .. Len(docs), W)
    BY DEF Surjection
  <2>2. IsFiniteSet(1 .. Len(docs))
    BY <1>1, FS_Interval
  <2> HIDE DEF f, W
  <2> QED
    BY <2>1, <2>2, FS_Surjection
<1>4. ASSUME NEW T \in W PROVE IsFiniteSet(T)
  <2>1. PICK i \in 1 .. Len(docs) : T = {docs[i].id} \X (1 .. docs[i].words)
    OBVIOUS
  <2>2. IsFiniteSet({docs[i].id}) /\ IsFiniteSet(1 .. docs[i].words)
    <3>1. docs[i].words \in Int /\ 1 \in Int
      BY <1>2
    <3>2. IsFiniteSet(1 .. docs[i].words)
      BY <3>1, FS_Interval
    <3> QED
      BY <3>2, FS_Singleton
  <2> QED
    BY <2>1, <2>2, FS_Product
<1>5. WordsIn(docs) = UNION W
  BY <1>1 DEF WordsIn
<1> HIDE DEF W
<1>6. IsFiniteSet(WordsIn(docs))
  BY <1>3, <1>4, <1>5, FS_UNION
<1> QED
  BY <1>6, FS_CardinalityType DEF TotalWords

\* The words of a set of documents are all words only if every document that has
\* words is among them.
LEMMA AllCounted ==
    ASSUME NEW docs \in Seq(Document), \A i \in 1 .. Len(docs) : docs[i].id = i, NEW ids,
           Cardinality({p \in WordsIn(docs) : p[1] \in ids}) = TotalWords(docs)
    PROVE  \A i \in 1 .. Len(docs) : docs[i].words > 0 => i \in ids
<1> DEFINE C == {p \in WordsIn(docs) : p[1] \in ids}
<1>1. C = WordsIn(docs)
  <2>1. C \in SUBSET WordsIn(docs) /\ Cardinality(WordsIn(docs)) = Cardinality(C)
    BY DEF TotalWords
  <2> HIDE DEF C
  <2> QED
    BY <2>1, WordsFinite, FS_Subset
<1>2. SUFFICES ASSUME NEW i \in 1 .. Len(docs), docs[i].words > 0 PROVE i \in ids
  OBVIOUS
<1>3. docs[i].words \in Nat /\ i \in DOMAIN docs
  <2>1. docs[i] \in Document
    OBVIOUS
  <2> QED
    BY <2>1 DEF Document
<1>4. <<i, 1>> \in {docs[i].id} \X (1 .. docs[i].words)
  BY <1>2, <1>3
<1>5. <<i, 1>> \in WordsIn(docs)
  BY <1>3, <1>4 DEF WordsIn
<1> QED
  BY <1>1, <1>5

\* Nothing to count means that no document has a word.
LEMMA NoWords ==
    ASSUME NEW docs \in Seq(Document), TotalWords(docs) = 0, NEW i \in 1 .. Len(docs)
    PROVE  docs[i].words = 0
<1>1. WordsIn(docs) = {}
  BY WordsFinite, FS_EmptySet DEF TotalWords
<1>2. docs[i].words \in Nat /\ i \in DOMAIN docs
  <2>1. docs[i] \in Document
    OBVIOUS
  <2> QED
    BY <2>1 DEF Document
<1>3. {docs[i].id} \X (1 .. docs[i].words) \subseteq WordsIn(docs)
  BY <1>2 DEF WordsIn
<1>4. docs[i].words > 0 => <<docs[i].id, 1>> \in {docs[i].id} \X (1 .. docs[i].words)
  BY <1>2
<1> QED
  BY <1>1, <1>2, <1>3, <1>4
----------------------------------------------------------------------------
(***************************************************************************)
(* Types                                                                   *)
(***************************************************************************)
LEMMA GroupsFinite == IsFiniteSet(Groups)
<1>1. Groups = {"uploader"} \cup {"saver"} \cup {"counting"} \cup {"initializer"}
               \cup {"populate"} \cup {"indexing"} \cup {"streamer"}
  BY DEF Groups
<1> QED
  BY <1>1, FS_Singleton, FS_Union

\* Which component Index starts next, and the groups it adds to mainWg.
LEMMA StartIs ==
    ASSUME TypeOK, Start
    PROVE  \E gs \in SUBSET Groups :
              /\ group' = [g \in Groups |-> IF g \in gs THEN "run" ELSE group[g]]
              /\ wg' = wg + Cardinality(gs)
              /\ \/ mainPc = "cReader" /\ mainPc' = "preProcessor" /\ gs = {}
                 \/ mainPc = "preProcessor" /\ mainPc' = "bloomMaster" /\ gs = {}
                 \/ /\ mainPc = "bloomMaster" /\ mainPc' = "tfCalc"
                    /\ gs = IF firstTime THEN {"uploader", "saver"} ELSE {}
                 \/ /\ mainPc = "tfCalc" /\ mainPc' = "eDocStreamer"
                    /\ gs = {"counting", "initializer", "populate"}
                 \/ mainPc = "eDocStreamer" /\ mainPc' = "encryptedIndexer" /\ gs = {}
                 \/ /\ mainPc = "encryptedIndexer" /\ mainPc' = "wait"
                    /\ gs = {"indexing", "streamer"}
<1>1. Range(StartOrder) = {"cReader", "preProcessor", "bloomMaster", "tfCalc", "eDocStreamer",
                           "encryptedIndexer", "wait", "returned"}
  <2>1. DOMAIN StartOrder = {1, 2, 3, 4, 5, 6, 7, 8}
    BY DEF StartOrder
  <2> QED
    BY <2>1 DEF Range, StartOrder
<1>2. /\ Counted["cReader"] = {} /\ Counted["preProcessor"] = {}
      /\ Counted["bloomMaster"] = IF firstTime THEN {"uploader", "saver"} ELSE {}
      /\ Counted["tfCalc"] = {"counting", "initializer", "populate"}
      /\ Counted["eDocStreamer"] = {} /\ Counted["encryptedIndexer"] = {"indexing", "streamer"}
  BY <1>1 DEF Counted
<1>3. PICK n \in 1 .. 6 :
             /\ mainPc = StartOrder[n] /\ mainPc' = StartOrder[n + 1]
             /\ group' = [g \in Groups |-> IF g \in Counted[mainPc] THEN "run" ELSE group[g]]
             /\ wg' = wg + Cardinality(Counted[mainPc])
  BY DEF Start, StartOrder, Add
<1>4. /\ StartOrder[1] = "cReader" /\ StartOrder[2] = "preProcessor"
      /\ StartOrder[3] = "bloomMaster" /\ StartOrder[4] = "tfCalc"
      /\ StartOrder[5] = "eDocStreamer" /\ StartOrder[6] = "encryptedIndexer"
      /\ StartOrder[7] = "wait"
  BY DEF StartOrder
<1>5. PICK gs : gs = Counted[mainPc]
  OBVIOUS
<1>6. \/ mainPc = "cReader" /\ mainPc' = "preProcessor"
      \/ mainPc = "preProcessor" /\ mainPc' = "bloomMaster"
      \/ mainPc = "bloomMaster" /\ mainPc' = "tfCalc"
      \/ mainPc = "tfCalc" /\ mainPc' = "eDocStreamer"
      \/ mainPc = "eDocStreamer" /\ mainPc' = "encryptedIndexer"
      \/ mainPc = "encryptedIndexer" /\ mainPc' = "wait"
  <2>1. n = 1 \/ n = 2 \/ n = 3 \/ n = 4 \/ n = 5 \/ n = 6
    OBVIOUS
  <2> QED
    BY <1>3, <1>4, <2>1
<1>7. gs \in SUBSET Groups
  BY <1>2, <1>5, <1>6 DEF Groups
<1> QED
  BY <1>2, <1>3, <1>5, <1>6, <1>7

LEMMA DocumentIs ==
    ASSUME NEW n \in Nat, NEW k \in Nat, NEW open \in BOOLEAN
    PROVE  [id |-> n, words |-> k, open |-> open] \in Document
BY DEF Document

\* A failure is reported and counted.
LEMMA AbortIs ==
    ASSUME TypeOK, NEW stopped, Abort(stopped)
    PROVE  msg' \in BOOLEAN /\ faults' \in Nat /\ faults' # 0
<1>1. faults' \in Nat /\ faults' # 0
  BY DEF TypeOK, Abort, Fault
<1>2. msg' = TRUE \/ msg' = msg
  BY Zenon DEF Abort
<1> QED
  BY <1>1, <1>2 DEF TypeOK

\* Index.
LEMMA MainTypeOK == ASSUME TypeOK, Main PROVE TypeOK'
<1> USE DEF TypeOK
<1>1. CASE Register
  BY <1>1 DEF Register, feedVars, readVars, preVars, fedVars, bloomVars, wgVars, errVars,
              inputVars, endVars
<1>2. CASE Start
  <2>1. mainPc' \in {"preProcessor", "bloomMaster", "tfCalc", "eDocStreamer", "encryptedIndexer",
                     "wait"}
    BY <1>2, StartIs
  <2>2. group' \in [Groups -> {"off", "run", "done"}] /\ wg' \in Int
    <3>1. PICK gs \in SUBSET Groups :
                 /\ group' = [g \in Groups |-> IF g \in gs THEN "run" ELSE group[g]]
                 /\ wg' = wg + Cardinality(gs)
      BY <1>2, StartIs
    <3>2. Cardinality(gs) \in Nat
      BY GroupsFinite, FS_Subset, FS_CardinalityType
    <3> QED
      BY <3>1, <3>2
  <2> QED
    BY <1>2, <2>1, <2>2 DEF Start, feedVars, readVars, preVars, fedVars, bloomVars, errVars,
                            inputVars, endVars
<1>3. CASE Return
  BY <1>3 DEF Return, feedVars, readVars, preVars, fedVars, bloomVars, wgVars, errVars, inputVars,
              endVars
<1> QED
  BY <1>1, <1>2, <1>3 DEF Main

\* The documents, up to the streams.
LEMMA FeedTypeOK ==
    ASSUME TypeOK, LineInv, Reader \/ Pre
    PROVE  TypeOK'
<1> USE DEF TypeOK
<1>1. CASE WalkerSend
  BY <1>1 DEF WalkerSend, mainVars, preVars, fedVars, bloomVars, wgVars, errVars, inputVars, endVars
<1>2. CASE ReaderOpen
  <2>1. nextDocId' \in Nat /\ rPc' = "send" /\ msg' \in BOOLEAN /\ faults' \in Nat
    <3>1. faults' \in Nat
      BY <1>2 DEF ReaderOpen, errVars, Abort, Fault
    <3>2. msg' = TRUE \/ msg' = msg
      BY <1>2, Zenon DEF ReaderOpen, errVars, Abort
    <3>3. msg' \in BOOLEAN
      BY <3>2
    <3>4. nextDocId' \in Nat /\ rPc' = "send"
      BY <1>2 DEF ReaderOpen
    <3> QED
      BY <3>1, <3>3, <3>4
  <2>2. corpus[walked] \in Nat
    <3>1. walked \in 1 .. Len(corpus)
      BY <1>2 DEF LineInv, ReaderOpen
    <3> QED
      BY <3>1
  <2>3. rDoc' \in Document
    <3>1. PICK n \in Nat : n = nextDocId'
      BY <2>1
    <3>2. \/ rDoc' = [id |-> n, words |-> corpus[walked], open |-> TRUE]
          \/ rDoc' = [id |-> n, words |-> 0, open |-> FALSE]
      BY <1>2, <3>1 DEF ReaderOpen
    <3> QED
      BY <2>2, <3>2, DocumentIs
  <2> QED
    BY <1>2, <2>1, <2>3 DEF ReaderOpen, mainVars, preVars, fedVars, bloomVars, wgVars, inputVars,
                            endVars
<1>3. CASE ReaderSend
  BY <1>3 DEF ReaderSend, NoDocument, Document, mainVars, fedVars, bloomVars, wgVars, errVars,
              inputVars, endVars
<1>4. CASE ReaderEnd
  BY <1>4 DEF ReaderEnd, mainVars, preVars, fedVars, bloomVars, wgVars, errVars, inputVars, endVars
<1>5. CASE PreRead
  <2>1. pPc' = "tf" /\ msg' \in BOOLEAN /\ faults' \in Nat
    BY <1>5, AbortIs DEF PreRead, errVars
  <2>2. pDoc' \in Document
    <3>1. pDoc \in Document /\ pDoc.words \in Nat
      BY DEF Document
    <3>2. ASSUME NEW n \in 0 .. pDoc.words PROVE [pDoc EXCEPT !.words = n] \in Document
      <4>1. n \in Nat
        BY <3>1
      <4> QED
        BY <3>1, <4>1 DEF Document
    <3> QED
      BY <1>5, <3>1, <3>2 DEF PreRead
  <2> QED
    BY <1>5, <2>1, <2>2 DEF PreRead, mainVars, readVars, fedVars, bloomVars, wgVars, inputVars,
                            endVars, Streams
<1>6. CASE PreEnd
  BY <1>6 DEF PreEnd, mainVars, readVars, fedVars, bloomVars, wgVars, errVars, inputVars, endVars
<1>7. ASSUME NEW s \in Streams, PreSend(s) PROVE TypeOK'
  <2>1. out' \in [Streams -> Seq(Document)]
    <3>1. Append(out[s], pDoc) \in Seq(Document)
      BY AppendQueue
    <3> QED
      BY <1>7, <3>1 DEF PreSend
  <2>2. pPc' \in {"recv", "read", "done"} \cup Streams
    BY <1>7 DEF PreSend, NextStream, Streams
  <2> QED
    BY <1>7, <2>1, <2>2 DEF PreSend, mainVars, readVars, fedVars, bloomVars, wgVars, errVars,
                            inputVars, endVars
<1> QED
  BY <1>1, <1>2, <1>3, <1>4, <1>5, <1>6, <1>7 DEF Reader, Pre

\* What receives the streams, and the end of a group. Every end is a Finish.
LEMMA FinishIs ==
    ASSUME TypeOK, NEW g \in Groups, Finish(g)
    PROVE  /\ group[g] = "run" /\ group' = [group EXCEPT ![g] = "done"]
           /\ group' \in [Groups -> {"off", "run", "done"}] /\ wg' = wg - 1 /\ wg' \in Int
           /\ died' \in BOOLEAN /\ (died' => wg = 0)
<1>1. died' \in BOOLEAN /\ (died' => wg = 0)
  BY Zenon DEF TypeOK, Finish, WgDone
<1> QED
  BY <1>1 DEF TypeOK, Finish

LEMMA EndsAre ==
    ASSUME Ends
    PROVE  /\ \/ \E g \in Groups \ {"saver"} : Finish(g)
              \/ Finish("saver") /\ populated /\ BucketsEmpty
           /\ \/ msgs' = msgs
              \/ Drained("tf") /\ msgs' = Append(msgs, [type |-> "freqInit", val |-> 0])
              \/ freqReady /\ msgs' = Append(msgs, [type |-> "freqAdd", val |-> 0])
           /\ UNCHANGED errVars \/ Abort(FALSE)
BY DEF Ends, CountingEnd, IndexingEnd, InitializerEnd, PopulateEnd, StreamerEnd, UploaderEnd,
       SaverEnd, Groups

LEMMA MessageIs ==
    ASSUME NEW n \in Nat
    PROVE  /\ [type |-> "xInit", val |-> n] \in Messages
           /\ [type |-> "xAdd", val |-> n] \in Messages
           /\ [type |-> "freqInit", val |-> n] \in Messages
           /\ [type |-> "freqAdd", val |-> n] \in Messages
BY DEF Messages

\* The documents received on a stream are documents.
LEMMA ReceivedIs ==
    ASSUME TypeOK, TakenInv, NEW s \in Streams
    PROVE  /\ Received(s) \in Seq(Document) /\ Range(Received(s)) \subseteq Document
           /\ Range(Received(s)) \subseteq Range(out[s])
           /\ Range(out[s]) = {out[s][i] : i \in 1 .. Len(out[s])}
           /\ Drained(s) => Received(s) = out[s]
<1>1. out[s] \in Seq(Document) /\ taken[s] \in 0 .. Len(out[s])
  BY DEF TypeOK, TakenInv
<1>2. PICK q \in Seq(Document) : q = out[s]
  BY <1>1
<1>3. PICK n \in 0 .. Len(q) : n = taken[s]
  BY <1>1, <1>2
<1>4. /\ SubSeq(q, 1, n) \in Seq(Document) /\ Len(SubSeq(q, 1, n)) = n
      /\ \A i \in 1 .. n : SubSeq(q, 1, n)[i] = q[i]
      /\ n = Len(q) => SubSeq(q, 1, n) = q
  OBVIOUS
<1>5. /\ Range(SubSeq(q, 1, n)) = {SubSeq(q, 1, n)[i] : i \in 1 .. n}
      /\ Range(q) = {q[i] : i \in 1 .. Len(q)}
  <2>1. DOMAIN q = 1 .. Len(q) /\ DOMAIN SubSeq(q, 1, n) = 1 .. n
    BY <1>4
  <2> QED
    BY <2>1 DEF Range
<1>6. \A i \in 1 .. n : i \in 1 .. Len(q) /\ q[i] \in Document
  OBVIOUS
<1> QED
  BY <1>2, <1>3, <1>4, <1>5, <1>6 DEF Received, Drained

LEMMA FedTypeOK ==
    ASSUME TypeOK, TakenInv, PreStop \/ PreStopReturn \/ TakeTf \/ TakeInv \/ TakeEnc \/ Summer
    PROVE  TypeOK'
<1> USE DEF TypeOK
<1>1. CASE PreStop
  BY <1>1 DEF PreStop, Fault, mainVars, feedVars, readVars, preVars, fedVars, bloomVars, wgVars,
              inputVars
<1>2. CASE PreStopReturn
  BY <1>2 DEF PreStopReturn, mainVars, feedVars, readVars, preVars, fedVars, bloomVars, wgVars,
              errVars, inputVars
<1>3. ASSUME NEW s \in Streams, Take(s), UNCHANGED sPc PROVE TypeOK'
  BY <1>3 DEF Take, mainVars, feedVars, readVars, preVars, bloomVars, wgVars, errVars, inputVars,
              endVars
<1>4. CASE SummerInit
  <2>1. TotalWords(Received("sum")) \in Nat
    BY ReceivedIs, WordsFinite DEF Streams
  <2>2. PICK n \in Nat : n = TotalWords(Received("sum"))
    BY <2>1
  <2>3. msgs' = Append(msgs, [type |-> "xInit", val |-> n])
    BY <1>4, <2>2 DEF SummerInit
  <2>4. msgs' \in Seq(Messages)
    BY <2>3, MessageIs, AppendQueue
  <2> QED
    BY <1>4, <2>4 DEF SummerInit, mainVars, feedVars, readVars, preVars, bloomVars, wgVars, errVars,
                      inputVars, endVars
<1>5. CASE SummerDone
  <2>1. died' \in BOOLEAN
    BY <1>5, Zenon DEF SummerDone, WgDone
  <2> QED
    BY <1>5, <2>1 DEF SummerDone, mainVars, feedVars, readVars, preVars, bloomVars, errVars,
                          inputVars
<1>6. CASE TakeTf \/ TakeInv \/ TakeEnc \/ TakeSum
  <2>1. PICK s \in Streams : Take(s)
    BY <1>6 DEF TakeTf, TakeInv, TakeEnc, TakeSum, Streams
  <2> QED
    BY <1>3, <2>1 DEF Take
<1> QED
  BY <1>1, <1>2, <1>4, <1>5, <1>6 DEF Summer

LEMMA EndTypeOK ==
    ASSUME TypeOK, TakenInv, Ends \/ Streamer
    PROVE  TypeOK'
<1> USE DEF TypeOK
<1>1. CASE Ends
  <2>1. \E g \in Groups : Finish(g)
    BY <1>1, EndsAre DEF Groups
  <2>2. PICK g \in Groups : Finish(g)
    BY <2>1
  <2>3. msgs' \in Seq(Messages)
    <3>1. \A m \in Messages : Append(msgs, m) \in Seq(Messages)
      BY AppendQueue
    <3>2. /\ [type |-> "freqInit", val |-> 0] \in Messages
          /\ [type |-> "freqAdd", val |-> 0] \in Messages
      BY MessageIs
    <3> QED
      BY <1>1, EndsAre, <3>1, <3>2
  <2>4. msg' \in BOOLEAN /\ faults' \in Nat
    BY <1>1, EndsAre, AbortIs DEF errVars
  <2>5. /\ group' \in [Groups -> {"off", "run", "done"}] /\ wg' \in Int
        /\ died' \in BOOLEAN
    BY <2>2, FinishIs
  <2> QED
    BY <2>2, <2>3, <2>4, <2>5 DEF Finish, mainVars, feedVars, readVars, preVars, bloomVars,
                                  inputVars
<1>2. CASE Streamer
  <2>1. PICK d \in Range(out["inv"]) : StreamerQueue(d)
    BY <1>2 DEF Streamer
  <2>2. d \in Document
    BY <2>1, ReceivedIs DEF StreamerQueue, Streams
  <2>3. PICK n \in Nat : n = d.id
    BY <2>2 DEF Document
  <2>4. msgs' = Append(msgs, [type |-> "xAdd", val |-> n])
    BY <2>1, <2>3 DEF StreamerQueue
  <2>5. msgs' \in Seq(Messages)
    BY <2>4, MessageIs, AppendQueue
  <2> QED
    BY <2>1, <2>5 DEF StreamerQueue, mainVars, feedVars, readVars, preVars, bloomVars, wgVars,
                      errVars, inputVars, endVars
<1> QED
  BY <1>1, <1>2

\* bloomWorker takes the first message.
LEMMA HandleIs ==
    ASSUME TypeOK, NEW type, BloomHandle(type)
    PROVE  /\ ~died /\ group["saver"] # "off" /\ Head(msgs).type = type /\ msgs # <<>>
           /\ Head(msgs) \in Messages /\ Head(msgs).val \in Nat /\ msgs' = Tail(msgs)
           /\ msgs' \in Seq(Messages)
<1>1. Head(msgs) \in Messages /\ msgs' \in Seq(Messages)
  BY TailQueue DEF TypeOK, BloomHandle
<1> QED
  BY <1>1 DEF BloomHandle, Messages

LEMMA RestTypeOK ==
    ASSUME TypeOK, BloomWorker \/ HandleErrors \/ HandleOSCalls \/ RegisterFatal \/ WalkerPanics
    PROVE  TypeOK'
<1> USE DEF TypeOK, mainVars, feedVars, readVars, preVars, wgVars, errVars, inputVars, endVars
<1>1. CASE HandleXSetInit
  BY <1>1, HandleIs DEF HandleXSetInit, BloomHandle
<1>2. CASE HandleXSetAdd
  <2>1. xAdded' \in SUBSET Nat /\ msgs' \in Seq(Messages)
    BY <1>2, HandleIs DEF HandleXSetAdd
  <2>2. xFinished' \in BOOLEAN /\ died' \in BOOLEAN
    BY <1>2, Zenon DEF HandleXSetAdd
  <2> QED
    BY <1>2, <2>1, <2>2 DEF HandleXSetAdd, BloomHandle
<1>3. CASE HandleFreqInit
  BY <1>3, HandleIs DEF HandleFreqInit, BloomHandle
<1>4. CASE HandleFreqAdd
  BY <1>4, HandleIs DEF HandleFreqAdd, BloomHandle
<1>5. CASE HandleErrors
  BY <1>5 DEF HandleErrors, Die, fedVars, bloomVars
<1>6. CASE HandleOSCalls
  BY <1>6 DEF HandleOSCalls, Fault, fedVars, bloomVars
<1>7. CASE RegisterFatal \/ WalkerPanics
  <2>1. Die /\ faults' = faults + 1
    BY <1>7 DEF RegisterFatal, WalkerPanics, Fault
  <2> QED
    BY <2>1 DEF Die, fedVars, bloomVars
<1> QED
  BY <1>1, <1>2, <1>3, <1>4, <1>5, <1>6, <1>7 DEF BloomWorker

LEMMA TypeOKStep == ASSUME TypeOK, LineInv, TakenInv, [Next]_vars PROVE TypeOK'
<1>1. CASE UNCHANGED vars
  BY <1>1 DEF TypeOK, vars, mainVars, feedVars, readVars, preVars, fedVars, bloomVars, wgVars,
              errVars, inputVars, endVars
<1> QED
  BY <1>1, MainTypeOK, FeedTypeOK, FedTypeOK, EndTypeOK, RestTypeOK DEF Next, Program
----------------------------------------------------------------------------
(***************************************************************************)
(* What a step leaves alone                                                *)
(***************************************************************************)

\* Only the reader and partitionStreams move documents, and quit stays closed.
LEMMA StepFeeds ==
    ASSUME [Next]_vars
    PROVE  /\ corpus' = corpus /\ bucketed' = bucketed /\ firstTime' = firstTime
           /\ Reader \/ Pre \/ UNCHANGED feedVars
           /\ quit => quit'
<1> USE DEF vars, mainVars, inputVars, endVars, quit
<1>1. CASE UNCHANGED vars
  BY <1>1
<1>2. CASE Main
  BY <1>2 DEF Main, Register, Start, Return
<1>3. CASE Reader
  BY <1>3 DEF Reader, WalkerSend, ReaderOpen, ReaderSend, ReaderEnd
<1>4. CASE Pre
  BY <1>4 DEF Pre, PreRead, PreSend, PreEnd
<1>5. CASE PreStop \/ PreStopReturn \/ TakeTf \/ TakeInv \/ TakeEnc \/ Summer
  BY <1>5 DEF PreStop, PreStopReturn, TakeTf, TakeInv, TakeEnc, Summer, TakeSum, Take, SummerInit,
              SummerDone
<1>6. CASE Ends
  <2>1. \E g \in Groups : Finish(g)
    BY <1>6, EndsAre DEF Groups
  <2> QED
    BY <2>1 DEF Finish
<1>7. CASE Streamer \/ BloomWorker
  BY <1>7 DEF Streamer, StreamerQueue, BloomWorker, HandleXSetInit, HandleXSetAdd, HandleFreqInit,
              HandleFreqAdd, BloomHandle
<1>8. CASE HandleErrors \/ HandleOSCalls \/ RegisterFatal \/ WalkerPanics
  BY <1>8 DEF HandleErrors, HandleOSCalls, RegisterFatal, WalkerPanics, Die
<1> QED
  BY <1>1, <1>2, <1>3, <1>4, <1>5, <1>6, <1>7, <1>8 DEF Next, Program

\* Only a receiver takes documents, and only bloomWorker takes messages.
LEMMA StepTakes ==
    ASSUME [Next]_vars
    PROVE  /\ TakeTf \/ TakeInv \/ TakeEnc \/ TakeSum \/ UNCHANGED taken
           /\ BloomWorker \/ UNCHANGED bloomVars
           /\ BloomWorker \/ Ends \/ Streamer \/ SummerInit \/ UNCHANGED msgs
           /\ SummerInit \/ SummerDone \/ UNCHANGED sPc
<1> USE DEF vars, fedVars
<1>1. CASE UNCHANGED vars
  BY <1>1
<1>2. CASE Main
  BY <1>2 DEF Main, Register, Start, Return
<1>3. CASE Reader
  BY <1>3 DEF Reader, WalkerSend, ReaderOpen, ReaderSend, ReaderEnd
<1>4. CASE Pre
  BY <1>4 DEF Pre, PreRead, PreSend, PreEnd
<1>5. CASE PreStop \/ PreStopReturn \/ TakeTf \/ TakeInv \/ TakeEnc \/ Summer
  BY <1>5 DEF PreStop, PreStopReturn, TakeTf, TakeInv, TakeEnc, Summer, TakeSum, Take, SummerInit,
              SummerDone
<1>6. CASE Ends
  <2>1. \E g \in Groups : Finish(g)
    BY <1>6, EndsAre DEF Groups
  <2> QED
    BY <1>6, <2>1 DEF Finish
<1>7. CASE Streamer \/ BloomWorker
  BY <1>7 DEF Streamer, StreamerQueue, BloomWorker, HandleXSetInit, HandleXSetAdd, HandleFreqInit,
              HandleFreqAdd, BloomHandle
<1>8. CASE HandleErrors \/ HandleOSCalls \/ RegisterFatal \/ WalkerPanics
  BY <1>8 DEF HandleErrors, HandleOSCalls, RegisterFatal, WalkerPanics, Die
<1> QED
  BY <1>1, <1>2, <1>3, <1>4, <1>5, <1>6, <1>7, <1>8 DEF Next, Program

\* Only Start adds to mainWg, and only the groups and totalKeyWordSummer call
\* Done; a group that was started is not forgotten.
LEMMA StepGroups ==
    ASSUME [Next]_vars
    PROVE  /\ Start \/ Ends \/ UNCHANGED group
           /\ Start \/ Ends \/ SummerDone \/ UNCHANGED wg
           /\ Main \/ UNCHANGED mainPc
<1> USE DEF vars, mainVars, wgVars
<1>1. CASE UNCHANGED vars
  BY <1>1
<1>2. CASE Main
  BY <1>2 DEF Main, Register, Start, Return
<1>3. CASE Reader
  BY <1>3 DEF Reader, WalkerSend, ReaderOpen, ReaderSend, ReaderEnd
<1>4. CASE Pre
  BY <1>4 DEF Pre, PreRead, PreSend, PreEnd
<1>5. CASE PreStop \/ PreStopReturn \/ TakeTf \/ TakeInv \/ TakeEnc \/ Summer
  BY <1>5 DEF PreStop, PreStopReturn, TakeTf, TakeInv, TakeEnc, Summer, TakeSum, Take, SummerInit,
              SummerDone
<1>6. CASE Ends
  <2>1. \E g \in Groups : Finish(g)
    BY <1>6, EndsAre DEF Groups
  <2> QED
    BY <1>6, <2>1 DEF Finish
<1>7. CASE Streamer \/ BloomWorker
  BY <1>7 DEF Streamer, StreamerQueue, BloomWorker, HandleXSetInit, HandleXSetAdd, HandleFreqInit,
              HandleFreqAdd, BloomHandle
<1>8. CASE HandleErrors \/ HandleOSCalls \/ RegisterFatal \/ WalkerPanics
  BY <1>8 DEF HandleErrors, HandleOSCalls, RegisterFatal, WalkerPanics, Die
<1> QED
  BY <1>1, <1>2, <1>3, <1>4, <1>5, <1>6, <1>7, <1>8 DEF Next, Program

LEMMA GroupsStay ==
    ASSUME TypeOK, [Next]_vars, NEW g \in Groups
    PROVE  /\ group[g] # "off" => group'[g] # "off"
           /\ group'[g] = "done" /\ group[g] # "done" => Finish(g)
<1>1. CASE Start
  <2>1. PICK gs \in SUBSET Groups : group' = [h \in Groups |-> IF h \in gs THEN "run" ELSE group[h]]
    BY <1>1, StartIs
  <2> QED
    BY <2>1 DEF TypeOK
<1>2. CASE Ends
  <2>1. PICK h \in Groups : Finish(h)
    BY <1>2, EndsAre DEF Groups
  <2>2. group' = [group EXCEPT ![h] = "done"]
    BY <2>1, FinishIs
  <2> QED
    BY <2>1, <2>2 DEF TypeOK
<1> QED
  BY <1>1, <1>2, StepGroups
----------------------------------------------------------------------------
(***************************************************************************)
(* The documents keep their line                                           *)
(***************************************************************************)

\* Nothing about the line changes when no document moves.
LEMMA LineKeep ==
    ASSUME LineInv, UNCHANGED feedVars, corpus' = corpus, quit => quit'
    PROVE  LineInv'
BY DEF LineInv, Held, InHand, Owed, feedVars, readVars, preVars

\* PreSend, and which streams it leaves without the document.
LEMMA PreSendIs ==
    ASSUME TypeOK, NEW s \in Streams, PreSend(s)
    PROVE  /\ pPc = s /\ out' = [out EXCEPT ![s] = Append(out[s], pDoc)]
           /\ InHand /\ Owed(s) /\ ~Owed(s)' /\ (Owed("tf") <=> s = "tf") /\ ~Owed("tf")'
           /\ \A t \in Streams \ {s} : (Owed(t)' <=> Owed(t))
           /\ (InHand' <=> s # "enc") /\ pDoc' = pDoc /\ Held' = Held /\ pPc' \in Streams \cup {"recv"}
           /\ UNCHANGED readVars
<1>1. /\ pPc = s /\ pPc' = NextStream[s] /\ out' = [out EXCEPT ![s] = Append(out[s], pDoc)]
      /\ pDoc' = pDoc /\ UNCHANGED readVars
  BY DEF PreSend
<1>2. /\ NextStream["tf"] = "inv" /\ NextStream["inv"] = "sum" /\ NextStream["sum"] = "enc"
      /\ NextStream["enc"] = "recv"
  BY DEF NextStream
<1>3. Held' = Held
  BY <1>1 DEF Held, readVars
<1> QED
  BY <1>1, <1>2, <1>3 DEF Owed, InHand, Streams

LEMMA ReaderLine == ASSUME TypeOK, LineInv, Reader PROVE LineInv'
<1> USE DEF TypeOK, LineInv, Held, InHand, Owed, Streams
<1>0. UNCHANGED <<out, corpus, stopPc>> /\ quit' = quit
  BY DEF Reader, WalkerSend, ReaderOpen, ReaderSend, ReaderEnd, preVars, inputVars, endVars, quit
<1>1. CASE WalkerSend
  BY <1>0, <1>1 DEF WalkerSend, preVars
<1>2. CASE ReaderOpen
  <2>1. rDoc'.id = nextDocId'
    <3>1. PICK n : n = nextDocId'
      OBVIOUS
    <3>2. \E k, open : rDoc' = [id |-> n, words |-> k, open |-> open]
      BY <1>2, <3>1 DEF ReaderOpen
    <3> QED
      BY ONLY <3>1, <3>2
  <2>2. /\ nextDocId' = nextDocId + 1 /\ rPc = "open" /\ rPc' = "send" /\ walked' = walked
        /\ UNCHANGED preVars
    BY <1>2 DEF ReaderOpen
  <2> QED
    BY <1>0, <2>1, <2>2 DEF preVars
<1>3. CASE ReaderSend
  BY <1>0, <1>3 DEF ReaderSend
<1>4. CASE ReaderEnd
  BY <1>0, <1>4 DEF ReaderEnd, preVars
<1> QED
  BY <1>1, <1>2, <1>3, <1>4 DEF Reader

LEMMA PreLine == ASSUME TypeOK, LineInv, Pre PROVE LineInv'
<1>1. CASE PreRead
  <2>1. pDoc'.id = pDoc.id /\ pPc = "read" /\ pPc' = "tf" /\ UNCHANGED <<readVars, out, corpus, stopPc>>
    BY <1>1 DEF PreRead, TypeOK, Document, inputVars, endVars
  <2> QED
    BY <2>1 DEF LineInv, Held, InHand, Owed, Streams, readVars, quit
<1>2. CASE PreEnd
  <2>1. /\ pPc = "recv" /\ pPc' = "done" /\ UNCHANGED <<readVars, pDoc, out, corpus, stopPc>>
        /\ ~quit => rPc = "done"
    BY <1>2 DEF PreEnd, DocOutClosed, AtSelect, inputVars, endVars
  <2> QED
    BY <2>1 DEF LineInv, Held, InHand, Owed, Streams, readVars, quit
<1>3. ASSUME NEW s \in Streams, PreSend(s) PROVE LineInv'
  <2> DEFINE Fits(q, len) ==
         Len(q) = len /\ \A i \in 1 .. Len(q) : q[i] = out["tf"][i] /\ q[i].id = i
  <2>1. /\ out[s] \in Seq(Document) /\ pDoc.id = Held /\ Held \in Nat /\ Len(out[s]) = Held - 1
        /\ s # "tf" => out["tf"][Held] = pDoc /\ Len(out["tf"]) = Held
    <3>1. InHand /\ Owed(s) /\ (s # "tf" => ~Owed("tf"))
      BY <1>3, PreSendIs
    <3>2. /\ pDoc.id = Held /\ Len(out[s]) = Held - 1
          /\ s # "tf" => out["tf"][Held] = pDoc /\ Len(out["tf"]) = Held
      BY <3>1 DEF LineInv, Streams
    <3>3. pDoc.id \in Nat /\ out[s] \in Seq(Document)
      BY DEF TypeOK, Document
    <3> QED
      BY <3>2, <3>3
  <2>2. PICK q : q = Append(out[s], pDoc)
    OBVIOUS
  <2>3. /\ Len(q) = Held /\ \A i \in 1 .. Held - 1 : q[i] = out[s][i]
        /\ q[Held] = pDoc
    BY <2>1, <2>2, AppendQueue DEF TypeOK
  <2>4. out'[s] = q /\ \A t \in Streams \ {s} : out'[t] = out[t]
    BY <1>3, <2>2, PreSendIs DEF TypeOK
  <2>5. ASSUME NEW i \in 1 .. Held
        PROVE  /\ out'["tf"][i].id = i /\ q[i] = out'["tf"][i]
               /\ i < Held => out'["tf"][i] = out["tf"][i]
    <3>1. i < Held => q[i] = out[s][i] /\ out[s][i] = out["tf"][i] /\ out[s][i].id = i
      BY <2>1, <2>3 DEF LineInv
    <3>2. i < Held \/ i = Held
      BY <2>1
    <3>3. IF s = "tf" THEN out'["tf"] = q ELSE out'["tf"] = out["tf"]
      BY <2>4 DEF Streams
    <3> QED
      BY <2>1, <2>3, <3>1, <3>2, <3>3
  <2>6. ASSUME NEW t \in Streams
        PROVE  /\ Len(out'[t]) = IF Owed(t)' THEN Held - 1 ELSE Held
               /\ \A i \in 1 .. Len(out'[t]) : out'[t][i] = out'["tf"][i] /\ out'[t][i].id = i
    <3>1. CASE t = s
      BY <1>3, <2>3, <2>4, <2>5, <3>1, PreSendIs
    <3>2. CASE t # s
      <4>1. out'[t] = out[t] /\ (Owed(t)' <=> Owed(t))
        BY <1>3, <2>4, <3>2, PreSendIs
      <4>2. Len(out[t]) = IF Owed(t) THEN Held - 1 ELSE Held
        BY DEF LineInv
      <4>3. \A i \in 1 .. Len(out[t]) : out[t][i] = out["tf"][i] /\ out[t][i].id = i
        BY DEF LineInv
      <4>4. s = "tf" => Owed(t)
        BY <1>3, <3>2 DEF PreSend, Owed, Streams
      <4>5. \A i \in 1 .. Len(out[t]) : out'["tf"][i] = out["tf"][i]
        <5>1. CASE s = "tf"
          BY <2>1, <2>5, <4>2, <4>4, <5>1
        <5>2. CASE s # "tf"
          BY <2>4, <5>2 DEF Streams
        <5> QED
          BY <5>1, <5>2
      <4> QED
        BY <4>1, <4>2, <4>3, <4>5
    <3> QED
      BY <3>1, <3>2
  <2>7. InHand' => pDoc'.id = Held'
    BY <1>3, <2>1, PreSendIs
  <2>8. out'["tf"][Held] = pDoc
    BY <2>1, <2>3, <2>4 DEF Streams
  <2>9. /\ UNCHANGED <<readVars, corpus>> /\ pPc' # "done" /\ Held' = Held /\ pDoc' = pDoc
    BY <1>3, PreSendIs DEF PreSend, inputVars, endVars, Streams
  <2> QED
    BY <2>6, <2>7, <2>8, <2>9 DEF LineInv, readVars
<1> QED
  BY <1>1, <1>2, <1>3 DEF Pre

LEMMA LineStep == ASSUME TypeOK, LineInv, [Next]_vars PROVE LineInv'
BY StepFeeds, LineKeep, ReaderLine, PreLine

LEMMA TakenStep == ASSUME TypeOK, TakenInv, [Next]_vars PROVE TakenInv'
<1>1. taken["tf"]' > 0 => group'["counting"] # "off"
  <2>1. group["counting"] # "off" => group'["counting"] # "off"
    BY GroupsStay DEF Groups
  <2>2. taken' = taken \/ taken["tf"]' = taken["tf"] \/ group["counting"] # "off"
    BY StepTakes DEF TakeTf, TakeInv, TakeEnc, TakeSum, Take, TypeOK, Streams
  <2> QED
    BY <2>1, <2>2 DEF TakenInv
<1>2. ASSUME NEW s \in Streams
      PROVE  taken'[s] <= Len(out'[s]) /\ Len(out'[s]) <= taken'[s] + StreamCap
  <2>1. /\ taken[s] <= Len(out[s]) /\ Len(out[s]) <= taken[s] + StreamCap
        /\ taken[s] \in Nat /\ Len(out[s]) \in Nat /\ StreamCap = 1
    BY DEF TakenInv, TypeOK, StreamCap
  <2>2. CASE \E t \in Streams : Take(t)
    BY <2>1, <2>2 DEF Take, TypeOK, feedVars, preVars
  <2>3. CASE \E t \in Streams : PreSend(t)
    <3>1. PICK t \in Streams : PreSend(t)
      BY <2>3
    <3>2. taken' = taken /\ Len(out[t]) - taken[t] < 1 /\ out' = [out EXCEPT ![t] = Append(out[t], pDoc)]
      BY <3>1 DEF PreSend, fedVars, StreamCap
    <3>3. Len(Append(out[t], pDoc)) = Len(out[t]) + 1
      BY AppendQueue DEF TypeOK
    <3>4. IF s = t THEN out'[s] = Append(out[t], pDoc) ELSE out'[s] = out[s]
      BY <3>2 DEF TypeOK
    <3> QED
      BY <2>1, <3>2, <3>3, <3>4
  <2>4. CASE UNCHANGED <<out, taken>>
    BY <2>1, <2>4
  <2>5. (\E t \in Streams : Take(t)) \/ UNCHANGED taken
    BY StepTakes DEF TakeTf, TakeInv, TakeEnc, TakeSum, Streams
  <2>6. (\E t \in Streams : PreSend(t)) \/ UNCHANGED out
    BY StepFeeds DEF feedVars, preVars, Reader, WalkerSend, ReaderOpen, ReaderSend, ReaderEnd, Pre,
                     PreRead, PreEnd
  <2> QED
    BY <2>2, <2>3, <2>4, <2>5, <2>6
<1> QED
  BY <1>1, <1>2 DEF TakenInv

\* Undisturbed steps report nothing and stop nothing. What can kill the process
\* then is the counter of mainWg or a second close of xFilterFinished.
LEMMA StepErrors ==
    ASSUME TypeOK, [Next]_vars, faults' = 0
    PROVE  /\ faults = 0 /\ msg' = msg /\ (stopPc = "none" => stopPc' = "none")
           /\ died' => died \/ msg \/ SummerDone \/ Ends \/ HandleXSetAdd
<1>0. ~Fault /\ ~Abort(FALSE) /\ ~Abort(quit)
  BY DEF Fault, Abort, TypeOK
<1> USE DEF vars, errVars, inputVars, endVars
<1>1. CASE UNCHANGED vars
  BY <1>1
<1>2. CASE Main
  BY <1>2 DEF Main, Register, Start, Return
<1>3. CASE Reader
  <2>1. CASE ReaderOpen
    <3>1. UNCHANGED errVars /\ UNCHANGED endVars
      BY <1>0, <2>1, Zenon DEF ReaderOpen
    <3> QED
      BY <3>1
  <2>2. CASE WalkerSend \/ ReaderSend \/ ReaderEnd
    BY <2>2 DEF WalkerSend, ReaderSend, ReaderEnd
  <2> QED
    BY <1>3, <2>1, <2>2 DEF Reader
<1>4. CASE Pre
  BY <1>0, <1>4 DEF Pre, PreRead, PreSend, PreEnd
<1>5. CASE PreStop \/ PreStopReturn \/ TakeTf \/ TakeInv \/ TakeEnc \/ Summer
  <2>1. CASE PreStop \/ PreStopReturn
    BY <1>0, <2>1 DEF PreStop, PreStopReturn
  <2>2. CASE SummerDone
    <3>1. UNCHANGED <<errVars, stopPc>>
      BY <2>2 DEF SummerDone
    <3> QED
      BY <2>2, <3>1
  <2>3. CASE TakeTf \/ TakeInv \/ TakeEnc \/ TakeSum \/ SummerInit
    BY <2>3 DEF TakeTf, TakeInv, TakeEnc, TakeSum, Take, SummerInit
  <2> QED
    BY <1>5, <2>1, <2>2, <2>3 DEF Summer
<1>6. CASE Ends
  <2>1. \E g \in Groups : Finish(g)
    BY <1>6, EndsAre DEF Groups
  <2>2. UNCHANGED errVars
    BY <1>0, <1>6, EndsAre
  <2> QED
    BY <1>6, <2>1, <2>2 DEF Finish
<1>7. CASE Streamer \/ BloomWorker
  <2>1. CASE HandleXSetAdd
    <3>1. BloomHandle("xAdd")
      BY <2>1 DEF HandleXSetAdd
    <3> QED
      BY <2>1, <3>1 DEF BloomHandle
  <2>2. CASE Streamer \/ HandleXSetInit \/ HandleFreqInit \/ HandleFreqAdd
    <3>1. UNCHANGED <<errVars, stopPc, died>>
      BY <2>2 DEF Streamer, StreamerQueue, HandleXSetInit, HandleFreqInit, HandleFreqAdd,
                  BloomHandle
    <3> QED
      BY <3>1
  <2> QED
    BY <1>7, <2>1, <2>2 DEF BloomWorker
<1>8. CASE HandleErrors \/ HandleOSCalls \/ RegisterFatal \/ WalkerPanics
  <2>1. HandleErrors
    BY <1>0, <1>8, Zenon DEF HandleOSCalls, RegisterFatal, WalkerPanics
  <2> QED
    BY <2>1 DEF HandleErrors, Die
<1> QED
  BY <1>1, <1>2, <1>3, <1>4, <1>5, <1>6, <1>7, <1>8 DEF Next, Program

\* Without a fault, what is read is what the file holds.
LEMMA CleanStep == ASSUME TypeOK, LineInv, CleanInv, [Next]_vars PROVE CleanInv'
<1>1. SUFFICES ASSUME faults' = 0
               PROVE  /\ ~msg' /\ stopPc' = "none"
                      /\ rPc' = "send" => rDoc'.open /\ rDoc'.words = corpus[rDoc'.id]
                      /\ InHand' => pDoc'.words = corpus[pDoc'.id]
                      /\ pPc' = "read" => pDoc'.open
                      /\ \A i \in 1 .. Len(out'["tf"]) : out'["tf"][i].words = corpus[i]
  BY StepFeeds DEF CleanInv
<1>2. /\ ~msg /\ stopPc = "none"
      /\ rPc = "send" => rDoc.open /\ rDoc.words = corpus[rDoc.id]
      /\ InHand => pDoc.words = corpus[pDoc.id]
      /\ pPc = "read" => pDoc.open
      /\ \A i \in 1 .. Len(out["tf"]) : out["tf"][i].words = corpus[i]
  BY <1>1, StepErrors DEF CleanInv
<1>3. ~msg' /\ stopPc' = "none" /\ ~Abort(FALSE) /\ ~Abort(quit)
  BY <1>1, <1>2, StepErrors DEF Abort, Fault, TypeOK
<1>4. CASE UNCHANGED feedVars
  BY <1>2, <1>3, <1>4 DEF feedVars, readVars, preVars, InHand
<1>5. CASE WalkerSend
  BY <1>2, <1>3, <1>5 DEF WalkerSend, preVars, InHand
<1>6. CASE ReaderOpen
  <2>1. PICK n : n = nextDocId'
    OBVIOUS
  <2>2. rDoc' = [id |-> n, words |-> corpus[walked], open |-> TRUE]
    BY <1>3, <1>6, <2>1, Zenon DEF ReaderOpen
  <2>3. n = walked
    BY <1>6, <2>1 DEF ReaderOpen, LineInv, TypeOK
  <2>4. rDoc'.open /\ rDoc'.words = corpus[rDoc'.id]
    BY ONLY <2>2, <2>3
  <2> QED
    BY <1>2, <1>3, <1>6, <2>4 DEF ReaderOpen, preVars, InHand
<1>7. CASE ReaderSend
  BY <1>2, <1>3, <1>7 DEF ReaderSend, InHand, Streams
<1>8. CASE ReaderEnd
  BY <1>2, <1>3, <1>8 DEF ReaderEnd, preVars, InHand
<1>9. CASE PreRead
  BY <1>2, <1>3, <1>9 DEF PreRead, readVars, InHand, Streams
<1>10. CASE PreEnd
  BY <1>2, <1>3, <1>10 DEF PreEnd, readVars, InHand, Streams
<1>11. ASSUME NEW s \in Streams, PreSend(s)
       PROVE  /\ rPc' = "send" => rDoc'.open /\ rDoc'.words = corpus[rDoc'.id]
              /\ InHand' => pDoc'.words = corpus[pDoc'.id]
              /\ pPc' = "read" => pDoc'.open
              /\ \A i \in 1 .. Len(out'["tf"]) : out'["tf"][i].words = corpus[i]
  <2>1. InHand /\ pDoc' = pDoc /\ pPc' # "read" /\ UNCHANGED readVars
    BY <1>11, PreSendIs DEF Streams
  <2>2. \A i \in 1 .. Len(out'["tf"]) : out'["tf"][i].words = corpus[i]
    <3>1. CASE s # "tf"
      <4>1. out'["tf"] = out["tf"]
        BY <1>11, <3>1, PreSendIs DEF TypeOK, Streams
      <4> QED
        BY <1>2, <4>1
    <3>2. CASE s = "tf"
      <4>1. Len(out["tf"]) + 1 = pDoc.id
        <5>1. Owed("tf")
          BY <1>11, <3>2, PreSendIs
        <5>2. Len(out["tf"]) = Held - 1 /\ pDoc.id = Held /\ pDoc.id \in Nat
          BY <2>1, <5>1 DEF LineInv, TypeOK, Document, Streams
        <5> QED
          BY <5>2
      <4>2. out'["tf"] = Append(out["tf"], pDoc)
        BY <1>11, <3>2, PreSendIs DEF TypeOK
      <4>3. PICK q : q = Append(out["tf"], pDoc)
        OBVIOUS
      <4>4. /\ Len(q) = Len(out["tf"]) + 1 /\ Len(out["tf"]) \in Nat
            /\ \A i \in 1 .. Len(out["tf"]) : q[i] = out["tf"][i]
            /\ q[Len(out["tf"]) + 1] = pDoc
        BY <4>3, AppendQueue DEF TypeOK, Streams
      <4>5. \A i \in 1 .. Len(q) : i \in 1 .. Len(out["tf"]) \/ i = Len(out["tf"]) + 1
        BY <4>4
      <4> QED
        BY <1>2, <2>1, <4>1, <4>2, <4>3, <4>4, <4>5
    <3> QED
      BY <3>1, <3>2
  <2> QED
    BY <1>2, <2>1, <2>2 DEF readVars
<1> QED
  BY <1>3, <1>4, <1>5, <1>6, <1>7, <1>8, <1>9, <1>10, <1>11, StepFeeds DEF Reader, Pre
----------------------------------------------------------------------------
(***************************************************************************)
(* The messages to the bloom master                                        *)
(***************************************************************************)

\* After the last document nothing is sent, and the streams hold the same.
LEMMA DoneStays ==
    ASSUME [Next]_vars, pPc = "done"
    PROVE  pPc' = "done" /\ out' = out /\ BucketsEmpty' = BucketsEmpty
<1>1. pPc' = "done" /\ out' = out
  <2>1. CASE Reader
    BY <2>1 DEF Reader, WalkerSend, ReaderOpen, ReaderSend, ReaderEnd, preVars
  <2>2. CASE Pre
    BY <2>2 DEF Pre, PreRead, PreSend, PreEnd, DocOutClosed, AtSelect, Streams
  <2> QED
    BY <2>1, <2>2, StepFeeds DEF feedVars, preVars
<1>2. TotalWords(out'["tf"]) = TotalWords(out["tf"])
  BY <1>1
<1>3. BucketsEmpty' <=> ~bucketed' \/ TotalWords(out'["tf"]) = 0
  BY DEF BucketsEmpty, TotalWords, WordsIn
<1>4. BucketsEmpty' = BucketsEmpty
  BY <1>2, <1>3, StepFeeds DEF BucketsEmpty
<1> QED
  BY <1>1, <1>4

LEMMA DoneAgree ==
    ASSUME TypeOK, LineInv, pPc = "done"
    PROVE  /\ \A s \in Streams : out[s] = out["tf"] /\ Len(out[s]) = Held
           /\ ~quit => Len(out["tf"]) = Len(corpus)
<1>1. ASSUME NEW s \in Streams PROVE out[s] = out["tf"] /\ Len(out[s]) = Held
  <2>1. /\ Len(out[s]) = Held /\ Len(out["tf"]) = Held
        /\ \A i \in 1 .. Len(out[s]) : out[s][i] = out["tf"][i]
    BY DEF LineInv, Owed, Streams
  <2>2. out[s] \in Seq(Document) /\ out["tf"] \in Seq(Document)
    BY DEF TypeOK, Streams
  <2>3. \A q, r \in Seq(Document) : Len(q) = Len(r) /\ (\A i \in 1 .. Len(q) : q[i] = r[i]) => q = r
    OBVIOUS
  <2> QED
    BY <2>1, <2>2, <2>3
<1>2. ~quit => Len(out["tf"]) = Len(corpus)
  BY <1>1 DEF LineInv, Held, Streams, TypeOK
<1> QED
  BY <1>1, <1>2

\* The streams only grow.
LEMMA OutGrows ==
    ASSUME TypeOK, [Next]_vars
    PROVE  /\ Len(out["inv"]) <= Len(out'["inv"]) /\ Len(out["inv"]) \in Nat
           /\ 1 .. Len(out["inv"]) \subseteq 1 .. Len(out'["inv"])
<1>1. CASE UNCHANGED out
  BY <1>1 DEF TypeOK, Streams
<1>2. ASSUME NEW s \in Streams, PreSend(s)
      PROVE  Len(out["inv"]) <= Len(out'["inv"]) /\ Len(out["inv"]) \in Nat
  BY <1>2, AppendQueue DEF PreSend, TypeOK, Streams
<1>3. Len(out["inv"]) <= Len(out'["inv"]) /\ Len(out["inv"]) \in Nat
  BY <1>1, <1>2, StepFeeds DEF feedVars, preVars, Reader, WalkerSend, ReaderOpen, ReaderSend,
                              ReaderEnd, Pre, PreRead, PreEnd, TypeOK, Streams
<1>4. Len(out'["inv"]) \in Int
  BY TypeOKStep
<1> QED
  BY <1>3, <1>4

\* What a message has to be when it is put into msgChan.
Fit(m) ==
    /\ m.type = "xInit" => pPc = "done" /\ m.val = TotalWords(out["inv"])
    /\ m.type = "xAdd" =>
          /\ m.val \in (1 .. Len(out["inv"])) \ xAdded
          /\ \A j \in 1 .. Len(msgs) : msgs[j].type = "xAdd" => msgs[j].val # m.val
    /\ m.type \in {"freqInit", "freqAdd"} => pPc = "done"

\* The next document whose xTags are queued.
LEMMA StreamerFits ==
    ASSUME TypeOK, LineInv, TakenInv, Streamer
    PROVE  \E n \in Nat : /\ msgs' = Append(msgs, [type |-> "xAdd", val |-> n])
                          /\ Fit([type |-> "xAdd", val |-> n])
<1>1. PICK d : StreamerQueue(d)
  BY DEF Streamer
<1>2. d \in Range(Received("inv")) /\ d.id \notin Queued
  BY <1>1 DEF StreamerQueue
<1>3. PICK i \in 1 .. Len(out["inv"]) : d = out["inv"][i]
  BY <1>2, ReceivedIs DEF Streams
<1>4. d.id = i
  BY <1>3 DEF LineInv, Streams
<1>5. i \notin xAdded /\ \A j \in 1 .. Len(msgs) : msgs[j].type = "xAdd" => msgs[j].val # i
  <2>1. \A j \in 1 .. Len(msgs) : msgs[j] \in Range(msgs)
    BY DEF TypeOK, Range
  <2> QED
    BY <1>2, <1>4, <2>1 DEF Queued
<1>6. i \in Nat
  BY DEF TypeOK, Streams
<1>7. PICK n \in Nat : n = d.id
  BY <1>4, <1>6
<1>8. msgs' = Append(msgs, [type |-> "xAdd", val |-> n])
  BY <1>1, <1>7 DEF StreamerQueue
<1>9. Fit([type |-> "xAdd", val |-> n])
  BY <1>4, <1>5, <1>7 DEF Fit
<1> QED
  BY <1>8, <1>9

\* The last document is known when the word counts are.
LEMMA SummerFits ==
    ASSUME TypeOK, LineInv, TakenInv, SummerInit
    PROVE  \E n \in Nat : /\ msgs' = Append(msgs, [type |-> "xInit", val |-> n])
                          /\ Fit([type |-> "xInit", val |-> n])
<1>1. Drained("sum") /\ pPc = "done" /\ Received("sum") = out["sum"]
  BY ReceivedIs DEF SummerInit, AllSummed, Drained, Streams
<1>2. out["sum"] = out["inv"] /\ out["inv"] \in Seq(Document)
  BY <1>1, DoneAgree DEF Streams, TypeOK
<1>3. PICK n \in Nat : n = TotalWords(out["inv"])
  BY <1>2, WordsFinite
<1>4. msgs' = Append(msgs, [type |-> "xInit", val |-> n])
  BY <1>1, <1>2, <1>3 DEF SummerInit
<1>5. Fit([type |-> "xInit", val |-> n])
  BY <1>1, <1>3 DEF Fit
<1> QED
  BY <1>4, <1>5

LEMMA EndsFit ==
    ASSUME TypeOK, FreqInv, Ends
    PROVE  \/ msgs' = msgs
           \/ \E type \in {"freqInit", "freqAdd"} :
                 /\ msgs' = Append(msgs, [type |-> type, val |-> 0])
                 /\ Fit([type |-> type, val |-> 0])
<1>1. Drained("tf") \/ freqReady => pPc = "done"
  BY DEF Drained, FreqInv
<1>2. pPc = "done" => /\ Fit([type |-> "freqInit", val |-> 0])
                      /\ Fit([type |-> "freqAdd", val |-> 0])
  BY DEF Fit
<1> QED
  BY <1>1, <1>2, EndsAre

\* How msgChan moves.
LEMMA MessageStep ==
    ASSUME TypeOK, LineInv, TakenInv, FreqInv, [Next]_vars
    PROVE  \/ msgs' = msgs /\ UNCHANGED bloomVars
           \/ /\ \E m \in Messages : Fit(m) /\ msgs' = Append(msgs, m)
              /\ UNCHANGED <<bloomVars, feedVars>>
           \/ BloomWorker /\ msgs # <<>> /\ msgs' = Tail(msgs) /\ UNCHANGED <<feedVars, sPc, group>>
<1>1. CASE Streamer
  <2>1. \E m \in Messages : Fit(m) /\ msgs' = Append(msgs, m)
    BY <1>1, StreamerFits, MessageIs
  <2> QED
    BY <1>1, <2>1 DEF Streamer, StreamerQueue
<1>2. CASE SummerInit
  <2>1. \E m \in Messages : Fit(m) /\ msgs' = Append(msgs, m)
    BY <1>2, SummerFits, MessageIs
  <2> QED
    BY <1>2, <2>1 DEF SummerInit
<1>3. CASE Ends
  <2>1. \E g \in Groups : Finish(g)
    BY <1>3, EndsAre DEF Groups
  <2>2. UNCHANGED <<bloomVars, feedVars>>
    BY <2>1 DEF Finish
  <2>3. msgs' = msgs \/ \E m \in Messages : Fit(m) /\ msgs' = Append(msgs, m)
    BY <1>3, EndsFit, MessageIs
  <2> QED
    BY <2>2, <2>3
<1>4. CASE BloomWorker
  BY <1>4 DEF BloomWorker, HandleXSetInit, HandleXSetAdd, HandleFreqInit, HandleFreqAdd,
              BloomHandle, wgVars
<1> QED
  BY <1>1, <1>2, <1>3, <1>4, StepTakes

\* A message in the channel was there before, or is one that was put in.
LEMMA MessagesCome ==
    ASSUME TypeOK, LineInv, TakenInv, FreqInv, [Next]_vars, NEW i \in 1 .. Len(msgs')
    PROVE  Fit(msgs'[i]) \/ \E j \in 1 .. Len(msgs) : msgs'[i] = msgs[j]
<1>1. CASE msgs' = msgs
  BY <1>1
<1>2. CASE \E m \in Messages : Fit(m) /\ msgs' = Append(msgs, m)
  <2>1. PICK m \in Messages : Fit(m) /\ msgs' = Append(msgs, m)
    BY <1>2
  <2>2. PICK q : q = Append(msgs, m)
    OBVIOUS
  <2>3. /\ Len(q) = Len(msgs) + 1 /\ Len(msgs) \in Nat
        /\ \A j \in 1 .. Len(msgs) : q[j] = msgs[j]
        /\ q[Len(msgs) + 1] = m
    BY <2>2, AppendQueue DEF TypeOK
  <2>4. i \in 1 .. Len(msgs) \/ i = Len(msgs) + 1
    BY <2>1, <2>2, <2>3
  <2> QED
    BY <2>1, <2>2, <2>3, <2>4
<1>3. CASE msgs # <<>> /\ msgs' = Tail(msgs)
  <2>1. PICK q : q = Tail(msgs)
    OBVIOUS
  <2>2. /\ Len(q) = Len(msgs) - 1 /\ Len(msgs) \in Nat \ {0}
        /\ \A j \in 1 .. Len(msgs) - 1 : q[j] = msgs[j + 1]
    BY <1>3, <2>1, TailQueue DEF TypeOK
  <2>3. i \in 1 .. Len(msgs) - 1 /\ i + 1 \in 1 .. Len(msgs)
    BY <1>3, <2>1, <2>2
  <2> QED
    BY <1>3, <2>1, <2>2, <2>3
<1> QED
  BY <1>1, <1>2, <1>3, MessageStep

LEMMA SizeStep ==
    ASSUME TypeOK, LineInv, TakenInv, FreqInv, SizeInv, [Next]_vars
    PROVE  SizeInv'
<1>1. sPc' # "sum" => pPc' = "done"
  <2>1. sPc' # "sum" => pPc = "done"
    BY StepTakes DEF SummerInit, AllSummed, Drained, SummerDone, SizeInv
  <2> QED
    BY <2>1, DoneStays
<1>2. ASSUME NEW i \in 1 .. Len(msgs'), msgs'[i].type = "xInit"
      PROVE  pPc' = "done" /\ msgs'[i].val = TotalWords(out'["inv"])
  <2>1. pPc = "done" /\ msgs'[i].val = TotalWords(out["inv"])
    BY <1>2, MessagesCome DEF Fit, SizeInv
  <2> QED
    BY <2>1, DoneStays
<1>3. xSize' # -1 => pPc' = "done" /\ xSize' = TotalWords(out'["inv"])
  <2>1. xSize' # -1 => pPc = "done" /\ xSize' = TotalWords(out["inv"])
    <3>1. CASE HandleXSetInit
      <4>1. /\ msgs # <<>> /\ Head(msgs).type = "xInit" /\ xSize' = Head(msgs).val
            /\ Head(msgs) = msgs[1] /\ 1 \in 1 .. Len(msgs)
        BY <3>1, HandleIs, TailQueue DEF HandleXSetInit, TypeOK
      <4> QED
        BY <4>1 DEF SizeInv
    <3>2. CASE UNCHANGED xSize
      BY <3>2 DEF SizeInv
    <3> QED
      BY <3>1, <3>2, StepTakes DEF bloomVars, BloomWorker, HandleXSetAdd, HandleFreqInit,
                                  HandleFreqAdd
  <2> QED
    BY <2>1, DoneStays
<1> QED
  BY <1>1, <1>2, <1>3 DEF SizeInv

\* What the last goroutine of each group has waited for.
LEMMA EndedIs ==
    ASSUME TypeOK, [Next]_vars, NEW g \in Groups, group'[g] = "done", group[g] # "done"
    PROVE  /\ group[g] = "run"
           /\ g = "uploader" => xFinished
           /\ g = "saver" => populated /\ BucketsEmpty
           /\ g = "populate" => freqReady
           /\ g = "streamer" => xSize >= 0
           /\ g \in {"counting", "initializer"} => Drained("tf")
           /\ g = "indexing" => Drained("inv")
<1>1. ASSUME NEW h \in Groups, Finish(h) PROVE h = g /\ group[g] = "run"
  <2>1. group[h] = "run" /\ group' = [group EXCEPT ![h] = "done"]
    BY <1>1, FinishIs
  <2> QED
    BY <2>1 DEF TypeOK
<1>2. Ends
  <2>1. CASE Start
    <3>1. PICK gs \in SUBSET Groups :
                 group' = [h \in Groups |-> IF h \in gs THEN "run" ELSE group[h]]
      BY <2>1, StartIs
    <3> QED
      BY <3>1
  <2> QED
    BY <2>1, StepGroups
<1>3. /\ CountingEnd => g = "counting" /\ Drained("tf")
      /\ IndexingEnd => g = "indexing" /\ Drained("inv")
      /\ InitializerEnd => g = "initializer" /\ Drained("tf")
      /\ PopulateEnd => g = "populate" /\ freqReady
      /\ StreamerEnd => g = "streamer" /\ xSize >= 0
      /\ UploaderEnd => g = "uploader" /\ xFinished
      /\ SaverEnd => g = "saver" /\ populated /\ BucketsEmpty
  BY <1>1 DEF CountingEnd, IndexingEnd, InitializerEnd, PopulateEnd, StreamerEnd, UploaderEnd,
              SaverEnd, Groups
<1>4. group[g] = "run"
  BY <1>1, <1>2, EndsAre DEF Groups
<1> QED
  BY <1>2, <1>3, <1>4 DEF Ends

\* The filter is found complete only when it has the xTags of every document.
LEMMA FilterFull ==
    ASSUME TypeOK, LineInv, SizeInv, NEW ids, WordsOf(ids) = xSize
    PROVE  pPc = "done" /\ \A i \in 1 .. Len(out["inv"]) : out["inv"][i].words > 0 => i \in ids
<1>1. out["inv"] \in Seq(Document) /\ \A i \in 1 .. Len(out["inv"]) : out["inv"][i].id = i
  BY DEF TypeOK, LineInv, Streams
<1>2. WordsOf(ids) \in Nat
  <2>1. {p \in WordsIn(out["inv"]) : p[1] \in ids} \subseteq WordsIn(out["inv"])
    OBVIOUS
  <2>2. IsFiniteSet({p \in WordsIn(out["inv"]) : p[1] \in ids})
    BY <1>1, <2>1, WordsFinite, FS_Subset
  <2> QED
    BY <2>2, FS_CardinalityType DEF WordsOf
<1>3. pPc = "done" /\ xSize = TotalWords(out["inv"])
  BY <1>2 DEF SizeInv
<1> QED
  BY <1>1, <1>3, AllCounted DEF WordsOf

LEMMA XTagsStep ==
    ASSUME TypeOK, LineInv, TakenInv, FreqInv, SizeInv, XTagsInv, [Next]_vars
    PROVE  XTagsInv'
<1> DEFINE L == Len(out["inv"])
           L2 == Len(out'["inv"])
<1>0. 1 .. L \subseteq 1 .. L2
  BY OutGrows
<1>1. group'["uploader"] = "done" => xFinished'
  <2>1. group'["uploader"] = "done" => xFinished
    BY EndedIs DEF XTagsInv, Groups
  <2>2. xFinished => xFinished'
    BY StepTakes, Zenon DEF bloomVars, BloomWorker, HandleXSetInit, HandleXSetAdd, HandleFreqInit,
                            HandleFreqAdd
  <2> QED
    BY <2>1, <2>2
<1>2. xFinished' =>
         pPc' = "done" /\ \A i \in 1 .. L2 : out'["inv"][i].words > 0 => i \in xAdded'
  <2>1. SUFFICES ASSUME xFinished'
                 PROVE  /\ pPc = "done"
                        /\ \A i \in 1 .. L : out["inv"][i].words > 0 => i \in xAdded'
    BY DoneStays
  <2>2. CASE HandleXSetAdd
    <3>1. (xFinished \/ WordsOf(xAdded') = xSize) /\ xAdded \subseteq xAdded'
      BY <2>1, <2>2 DEF HandleXSetAdd
    <3> QED
      BY <3>1, FilterFull DEF XTagsInv
  <2>3. CASE UNCHANGED <<xFinished, xAdded>>
    BY <2>1, <2>3 DEF XTagsInv
  <2> QED
    BY <2>2, <2>3, StepTakes DEF bloomVars, BloomWorker, HandleXSetInit, HandleFreqInit,
                                 HandleFreqAdd
<1> DEFINE Q(q, added, len) == \A i \in 1 .. Len(q) : q[i].type = "xAdd" =>
              /\ q[i].val \in (1 .. len) \ added
              /\ \A j \in 1 .. Len(q) : q[j].type = "xAdd" /\ q[j].val = q[i].val => j = i
<1>3. xAdded' \subseteq 1 .. L2 /\ Q(msgs', xAdded', L2)
  <2>0. xAdded \subseteq 1 .. L /\ Q(msgs, xAdded, L)
    BY DEF XTagsInv
  <2>1. CASE msgs' = msgs /\ UNCHANGED bloomVars
    BY <1>0, <2>0, <2>1 DEF bloomVars
  <2>2. CASE /\ \E m \in Messages : Fit(m) /\ msgs' = Append(msgs, m)
             /\ UNCHANGED <<bloomVars, feedVars>>
    <3>1. PICK m \in Messages : Fit(m) /\ msgs' = Append(msgs, m)
      BY <2>2
    <3>2. PICK q : q = Append(msgs, m)
      OBVIOUS
    <3>3. /\ Len(q) = Len(msgs) + 1 /\ Len(msgs) \in Nat
          /\ \A j \in 1 .. Len(msgs) : q[j] = msgs[j]
          /\ q[Len(msgs) + 1] = m
      BY <3>2, AppendQueue DEF TypeOK
    <3>4. \A i \in 1 .. Len(q) : i \in 1 .. Len(msgs) \/ i = Len(msgs) + 1
      BY <3>3
    <3>5. UNCHANGED <<xAdded, out>>
      BY <2>2 DEF bloomVars, feedVars, preVars
    <3>6. m.type = "xAdd" =>
             /\ m.val \in (1 .. L) \ xAdded
             /\ \A j \in 1 .. Len(msgs) : msgs[j].type = "xAdd" => msgs[j].val # m.val
      BY <3>1 DEF Fit
    <3>7. Q(q, xAdded, L)
      BY <2>0, <3>3, <3>4, <3>6
    <3> QED
      BY <2>0, <3>1, <3>2, <3>5, <3>7
  <2>3. CASE BloomWorker /\ msgs # <<>> /\ msgs' = Tail(msgs) /\ UNCHANGED feedVars
    <3>1. PICK q : q = Tail(msgs)
      OBVIOUS
    <3>2. /\ Len(q) = Len(msgs) - 1 /\ Len(msgs) \in Nat \ {0} /\ Head(msgs) = msgs[1]
          /\ \A j \in 1 .. Len(msgs) - 1 : q[j] = msgs[j + 1]
      BY <2>3, <3>1, TailQueue DEF TypeOK
    <3>3. \A i \in 1 .. Len(q) : i + 1 \in 1 .. Len(msgs) /\ i + 1 # 1 /\ q[i] = msgs[i + 1]
      BY <3>2
    <3>4. 1 \in 1 .. Len(msgs)
      BY <3>2
    <3>5. \/ xAdded' = xAdded
          \/ msgs[1].type = "xAdd" /\ xAdded' = xAdded \cup {msgs[1].val}
      BY <2>3, <3>2, HandleIs DEF BloomWorker, HandleXSetInit, HandleXSetAdd, HandleFreqInit,
                                  HandleFreqAdd
    <3>6. UNCHANGED out
      BY <2>3 DEF feedVars, preVars
    <3>7. \A i, j \in 1 .. Len(q) : i + 1 = j + 1 => i = j
      BY <3>2
    <3>8. xAdded' \subseteq 1 .. L
      <4>1. msgs[1].type = "xAdd" => msgs[1].val \in 1 .. L
        BY <2>0, <3>4
      <4>2. xAdded \subseteq 1 .. L
        BY <2>0
      <4>3. \A S, T, v : S \subseteq T /\ v \in T => S \cup {v} \subseteq T
        OBVIOUS
      <4> QED
        BY <3>5, <4>1, <4>2, <4>3
    <3>9. Q(q, xAdded', L)
      <4>1. SUFFICES ASSUME NEW i \in 1 .. Len(q), q[i].type = "xAdd"
                     PROVE  /\ q[i].val \in (1 .. L) \ xAdded'
                            /\ \A j \in 1 .. Len(q) :
                                  q[j].type = "xAdd" /\ q[j].val = q[i].val => j = i
        OBVIOUS
      <4>2. /\ msgs[i + 1].val \in (1 .. L) \ xAdded
            /\ \A j \in 1 .. Len(msgs) :
                  msgs[j].type = "xAdd" /\ msgs[j].val = msgs[i + 1].val => j = i + 1
        BY <2>0, <3>3, <4>1
      <4>3. msgs[1].type = "xAdd" => msgs[1].val # msgs[i + 1].val
        BY <3>3, <3>4, <4>2
      <4> QED
        BY <3>3, <3>5, <3>7, <4>2, <4>3
    <3> QED
      BY <2>3, <3>1, <3>6, <3>8, <3>9
  <2> QED
    BY <2>1, <2>2, <2>3, MessageStep
<1> QED
  BY <1>1, <1>2, <1>3 DEF XTagsInv

LEMMA FreqStep ==
    ASSUME TypeOK, LineInv, TakenInv, FreqInv, [Next]_vars
    PROVE  FreqInv'
<1>1. ASSUME NEW i \in 1 .. Len(msgs'), msgs'[i].type \in {"freqInit", "freqAdd"}
      PROVE  pPc = "done"
  BY <1>1, MessagesCome DEF Fit, FreqInv
<1>2. freqReady' \/ populated' => pPc = "done"
  <2>1. CASE HandleFreqInit \/ HandleFreqAdd
    <3>1. /\ Head(msgs).type \in {"freqInit", "freqAdd"} /\ Head(msgs) = msgs[1]
          /\ 1 \in 1 .. Len(msgs)
      BY <2>1, HandleIs, TailQueue DEF HandleFreqInit, HandleFreqAdd, TypeOK
    <3> QED
      BY <3>1 DEF FreqInv
  <2>2. CASE UNCHANGED <<freqReady, populated>>
    BY <2>2 DEF FreqInv
  <2> QED
    BY <2>1, <2>2, StepTakes DEF bloomVars, BloomWorker, HandleXSetInit, HandleXSetAdd
<1>3. group'["saver"] = "done" => pPc = "done" /\ BucketsEmpty
  BY EndedIs DEF FreqInv, Groups
<1>4. group'["counting"] = "done" => pPc = "done"
  BY EndedIs DEF FreqInv, Groups, Drained
<1> QED
  BY <1>1, <1>2, <1>3, <1>4, DoneStays DEF FreqInv

\* A bloom master with saved filters has no bloomWorker.
LEMMA ServingStep ==
    ASSUME TypeOK, WgInv, ServingInv, [Next]_vars
    PROVE  ServingInv'
<1>1. SUFFICES ASSUME ~firstTime
               PROVE  /\ xSize' = -1 /\ ~freqReady'
                      /\ group'["populate"] # "done" /\ group'["streamer"] # "done"
  BY StepFeeds DEF ServingInv
<1>2. group["saver"] = "off"
  BY <1>1 DEF WgInv, Begun, Groups
<1>3. ~BloomWorker
  BY <1>2 DEF BloomWorker, HandleXSetInit, HandleXSetAdd, HandleFreqInit, HandleFreqAdd,
              BloomHandle
<1> QED
  BY <1>1, <1>3, StepTakes, EndedIs DEF bloomVars, ServingInv, Groups
----------------------------------------------------------------------------
(***************************************************************************)
(* The counter of mainWg                                                   *)
(***************************************************************************)
LEMMA RunningCount ==
    /\ IsFiniteSet(Running) /\ Cardinality(Running) \in Nat
    /\ Cardinality(Running) = 0 => Running = {}
    /\ \A g \in Groups : group[g] = "run" => Cardinality(Running) >= 1
    /\ \A g \in Groups : group[g] = "run" /\ Cardinality(Running) <= 1 => Running = {g}
<1>1. Running \subseteq Groups
  BY DEF Running
<1>2. IsFiniteSet(Running) /\ Cardinality(Running) \in Nat
  BY <1>1, GroupsFinite, FS_Subset, FS_CardinalityType
<1>3. Cardinality(Running) = 0 => Running = {}
  BY <1>2, FS_EmptySet
<1>4. ASSUME NEW g \in Groups, group[g] = "run"
      PROVE  Cardinality(Running) >= 1 /\ (Cardinality(Running) <= 1 => Running = {g})
  <2>1. g \in Running
    BY <1>4 DEF Running
  <2>2. Cardinality(Running) >= 1
    BY <1>2, <1>3, <2>1
  <2>3. ASSUME Cardinality(Running) <= 1 PROVE Running = {g}
    <3>1. Cardinality(Running) = 1
      BY <1>2, <2>2, <2>3
    <3>2. \E x : Running = {x}
      BY <1>2, <3>1, FS_Singleton
    <3> QED
      BY <2>1, <3>2
  <2> QED
    BY <2>2, <2>3
<1> QED
  BY <1>2, <1>3, <1>4

\* Starting a component adds groups that were off, and as many to the counter.
LEMMA StartCounts ==
    ASSUME TypeOK, WgInv, Start
    PROVE  /\ \A g \in Groups : group'[g] = "off" <=> ~Begun(g)'
           /\ wg' = Cardinality(Running') - (IF sPc = "done" THEN 1 ELSE 0)
<1>1. PICK gs \in SUBSET Groups :
              /\ group' = [g \in Groups |-> IF g \in gs THEN "run" ELSE group[g]]
              /\ wg' = wg + Cardinality(gs)
              /\ \/ mainPc = "cReader" /\ mainPc' = "preProcessor" /\ gs = {}
                 \/ mainPc = "preProcessor" /\ mainPc' = "bloomMaster" /\ gs = {}
                 \/ /\ mainPc = "bloomMaster" /\ mainPc' = "tfCalc"
                    /\ gs = IF firstTime THEN {"uploader", "saver"} ELSE {}
                 \/ /\ mainPc = "tfCalc" /\ mainPc' = "eDocStreamer"
                    /\ gs = {"counting", "initializer", "populate"}
                 \/ mainPc = "eDocStreamer" /\ mainPc' = "encryptedIndexer" /\ gs = {}
                 \/ /\ mainPc = "encryptedIndexer" /\ mainPc' = "wait"
                    /\ gs = {"indexing", "streamer"}
  BY StartIs
<1>2. firstTime' = firstTime
  BY DEF Start, inputVars, endVars
<1>3. ASSUME NEW g \in Groups
      PROVE  (group'[g] = "off" <=> ~Begun(g)') /\ (g \in gs => group[g] = "off")
  <2>1. group[g] = "off" <=> ~Begun(g)
    BY DEF WgInv
  <2>2. group'[g] = IF g \in gs THEN "run" ELSE group[g]
    BY <1>1
  <2>3. Begun(g)' <=> Begun(g) \/ g \in gs
    BY <1>1, <1>2 DEF Begun
  <2>4. g \in gs => ~Begun(g)
    BY <1>1 DEF Begun
  <2> QED
    BY <2>1, <2>2, <2>3, <2>4
<1>4. Running' = Running \cup gs /\ Running \cap gs = {}
  <2>1. \A g \in Groups : group'[g] = IF g \in gs THEN "run" ELSE group[g]
    BY <1>1
  <2> QED
    BY <1>3, <2>1 DEF Running
<1>5. Cardinality(Running') = Cardinality(Running) + Cardinality(gs)
  <2>1. IsFiniteSet(gs) /\ Cardinality(gs) \in Nat /\ Cardinality({}) = 0
    BY GroupsFinite, FS_Subset, FS_CardinalityType, FS_EmptySet
  <2>2. IsFiniteSet(Running) /\ Cardinality(Running) \in Nat
    BY RunningCount
  <2>3. Cardinality(Running \cup gs) =
           Cardinality(Running) + Cardinality(gs) - Cardinality(Running \cap gs)
    BY ONLY <2>1, <2>2, FS_Union
  <2>4. Cardinality(Running') = Cardinality(Running \cup gs)
    BY <1>4, Zenon
  <2>5. Cardinality(Running \cap gs) = 0
    BY <1>4, <2>1, Zenon
  <2> QED
    BY ONLY <2>1, <2>2, <2>3, <2>4, <2>5
<1>6. wg = Cardinality(Running) - (IF sPc = "done" THEN 1 ELSE 0)
  BY DEF WgInv
<1>7. Cardinality(gs) \in Nat /\ Cardinality(Running) \in Nat
  BY GroupsFinite, FS_Subset, FS_CardinalityType, RunningCount
<1> QED
  BY <1>1, <1>3, <1>5, <1>6, <1>7

\* A group that ends takes one off the counter.
LEMMA FinishCounts ==
    ASSUME TypeOK, WgInv, NEW h \in Groups, Finish(h)
    PROVE  /\ \A g \in Groups : group'[g] = "off" <=> ~Begun(g)'
           /\ wg' = Cardinality(Running') - (IF sPc = "done" THEN 1 ELSE 0)
<1>1. /\ group[h] = "run" /\ group' = [group EXCEPT ![h] = "done"] /\ wg' = wg - 1
      /\ UNCHANGED <<mainPc, firstTime>>
  BY FinishIs DEF Finish, mainVars, inputVars
<1>2. \A g \in Groups : group'[g] = IF g = h THEN "done" ELSE group[g]
  BY <1>1 DEF TypeOK
<1>3. ASSUME NEW g \in Groups PROVE group'[g] = "off" <=> ~Begun(g)'
  <2>1. Begun(g)' <=> Begun(g)
    BY <1>1 DEF Begun
  <2> QED
    BY <1>1, <1>2, <2>1 DEF WgInv
<1>4. Running' = Running \ {h} /\ h \in Running
  BY <1>1, <1>2 DEF Running
<1>5. Cardinality(Running') = Cardinality(Running) - 1
  BY <1>4, RunningCount, FS_RemoveElement
<1> QED
  BY <1>1, <1>3, <1>5, RunningCount DEF WgInv

\* When the counter is at 0 the documents are done, and no more than one group
\* runs: the saver, if it has a bucket to wait for.
LEMMA ReturnIs ==
    ASSUME TypeOK, SizeInv, FreqInv, ServingInv, WgInv, mainPc = "wait", wg = 0
    PROVE  /\ pPc = "done"
           /\ Cardinality(Running) <= 1
           /\ ~BucketsEmpty =>
                 \A g \in Groups : group[g] = IF g = "saver" THEN "run" ELSE "done"
<1>1. \A g \in Groups : firstTime \/ g \notin {"uploader", "saver"} => group[g] \in {"run", "done"}
  <2>1. \A g \in Groups : firstTime \/ g \notin {"uploader", "saver"} => Begun(g)
    BY DEF Begun, Groups
  <2> QED
    BY <2>1 DEF WgInv, TypeOK
<1>2. Cardinality(Running) = IF sPc = "done" THEN 1 ELSE 0
  BY RunningCount DEF WgInv
<1>3. pPc = "done"
  <2>1. CASE sPc = "done"
    BY <2>1 DEF SizeInv
  <2>2. CASE sPc # "done"
    <3>1. Running = {}
      BY <1>2, <2>2, RunningCount
    <3>2. group["counting"] = "done"
      BY <1>1, <3>1 DEF Running, Groups
    <3> QED
      BY <3>2 DEF FreqInv
  <2> QED
    BY <2>1, <2>2
<1>4. ASSUME ~BucketsEmpty
      PROVE  \A g \in Groups : group[g] = IF g = "saver" THEN "run" ELSE "done"
  <2>1. \A g, h \in Groups : group[g] = "run" /\ group[h] = "run" => g = h
    <3>1. Cardinality(Running) <= 1
      BY <1>2
    <3>2. \A g \in Groups : group[g] = "run" => Running = {g}
      BY <3>1, RunningCount
    <3> QED
      BY <3>2
  <2>2. firstTime
    <3>1. ~firstTime => group["populate"] = "run" /\ group["streamer"] = "run"
      BY <1>1 DEF ServingInv, Groups
    <3> QED
      BY <2>1, <3>1 DEF Groups
  <2>3. group["saver"] = "run"
    BY <1>1, <1>4, <2>2 DEF FreqInv, Groups
  <2> QED
    BY <1>1, <2>1, <2>2, <2>3 DEF Groups
<1> QED
  BY <1>2, <1>3, <1>4

LEMMA WgStep ==
    ASSUME TypeOK, LineInv, TakenInv, SizeInv, FreqInv, ServingInv, WgInv, [Next]_vars
    PROVE  WgInv'
<1>1. /\ \A g \in Groups : group'[g] = "off" <=> ~Begun(g)'
      /\ wg' = Cardinality(Running') - (IF sPc' = "done" THEN 1 ELSE 0)
  <2>1. CASE Start
    BY <2>1, StartCounts DEF Start, fedVars
  <2>2. CASE Ends
    <3>1. PICK h \in Groups : Finish(h)
      BY <2>2, EndsAre DEF Groups
    <3>2. sPc' = sPc
      BY <3>1 DEF Finish
    <3> QED
      BY <3>1, <3>2, FinishCounts
  <2>3. CASE UNCHANGED group /\ ~Start /\ ~Ends
    <3>1. Running' = Running
      BY <2>3 DEF Running
    <3>2. ASSUME NEW g \in Groups PROVE group'[g] = "off" <=> ~Begun(g)'
      <4>1. \/ mainPc' = mainPc
            \/ mainPc = "register" /\ mainPc' \in {"register", "cReader"}
            \/ mainPc = "wait" /\ mainPc' = "returned"
        BY <2>3, StepGroups DEF Main, Register, Return
      <4>2. Begun(g)' <=> Begun(g)
        BY <4>1, StepFeeds DEF Begun
      <4> QED
        BY <2>3, <4>2 DEF WgInv
    <3>3. CASE SummerDone
      BY <3>1, <3>2, <3>3, RunningCount DEF SummerDone, WgInv
    <3>4. CASE UNCHANGED wg /\ ~SummerDone
      <4>1. (sPc' = "done") <=> (sPc = "done")
        BY <3>4, StepTakes DEF SummerInit
      <4> QED
        BY <3>1, <3>2, <3>4, <4>1 DEF WgInv
    <3>5. ~SummerDone => UNCHANGED wg
      BY <2>3, StepGroups
    <3> QED
      BY <3>3, <3>4, <3>5
  <2> QED
    BY <2>1, <2>2, <2>3, StepGroups
<1>2. ASSUME mainPc' = "returned"
      PROVE  /\ pPc' = "done" /\ Cardinality(Running') <= 1
             /\ ~BucketsEmpty' =>
                   \A g \in Groups : group'[g] = IF g = "saver" THEN "run" ELSE "done"
  <2>0. ~Start
    BY <1>2, StartIs
  <2>1. /\ pPc = "done" /\ Cardinality(Running) <= 1
        /\ ~BucketsEmpty =>
              \A g \in Groups : group[g] = IF g = "saver" THEN "run" ELSE "done"
    <3>1. CASE Return
      BY <3>1, ReturnIs DEF Return
    <3>2. CASE mainPc = "returned"
      BY <3>2 DEF WgInv
    <3> QED
      BY <1>2, <2>0, <3>1, <3>2, StepGroups DEF Main, Register
  <2>2. ASSUME ~BucketsEmpty, NEW g \in Groups PROVE group'[g] = group[g]
    <3>1. CASE Ends
      <4>1. PICK h \in Groups : Finish(h)
        BY <3>1, EndsAre DEF Groups
      <4>2. group[h] = "run" /\ group' = [group EXCEPT ![h] = "done"]
        BY <4>1, FinishIs
      <4>3. h = "saver"
        BY <2>1, <2>2, <4>2
      <4>4. group'[h] = "done" /\ group[h] # "done"
        BY <4>2 DEF TypeOK
      <4> QED
        BY <2>2, <4>3, <4>4, EndedIs
    <3> QED
      BY <2>0, <3>1, StepGroups
  <2>3. Running' \subseteq Running
    <3>1. ASSUME NEW g \in Groups, group'[g] = "run" PROVE group[g] = "run"
      <4>1. CASE Ends
        <5>1. PICK h \in Groups : group' = [group EXCEPT ![h] = "done"]
          BY <4>1, EndsAre, FinishIs DEF Groups
        <5> QED
          BY <3>1, <5>1 DEF TypeOK
      <4> QED
        BY <2>0, <3>1, <4>1, StepGroups
    <3> QED
      BY <3>1 DEF Running
  <2>4. Cardinality(Running') <= 1
    <3>1. Cardinality(Running') \in Nat /\ Cardinality(Running') <= Cardinality(Running)
      BY <2>3, RunningCount, FS_Subset, FS_CardinalityType
    <3> QED
      BY <2>1, <3>1, RunningCount
  <2> QED
    BY <2>1, <2>2, <2>4, DoneStays
<1> QED
  BY <1>1, <1>2 DEF WgInv
----------------------------------------------------------------------------
(***************************************************************************)
(* Careful runs do not panic                                               *)
(***************************************************************************)

\* When totalKeyWordSummer has nothing more to sum, the mappers have taken a
\* document, so that the term frequencies were started, and before them the bloom
\* master: its saver, for which some bucket never fills, keeps the counter up, or,
\* when the filters were saved before, populateBloomFilters does.
LEMMA StillBusy ==
    ASSUME TypeOK, LineInv, TakenInv, CleanInv, SizeInv, FreqInv, ServingInv, WgInv,
           Len(corpus) >= 2, \A i \in 1 .. Len(corpus) : corpus[i] > 0, faults = 0,
           firstTime => bucketed, sPc # "sum"
    PROVE  /\ IF firstTime THEN group["saver"] = "run" ELSE group["populate"] = "run"
           /\ firstTime => ~BucketsEmpty
<1>1. pPc = "done" /\ ~quit
  BY DEF SizeInv, CleanInv, quit
<1>2. Len(out["tf"]) = Len(corpus)
  BY <1>1, DoneAgree
<1>3. TotalWords(out["tf"]) # 0
  <2>1. out["tf"] \in Seq(Document) /\ 1 \in 1 .. Len(out["tf"]) /\ 1 \in 1 .. Len(corpus)
    BY <1>2 DEF TypeOK, Streams
  <2>2. out["tf"][1].words = corpus[1] /\ corpus[1] > 0 /\ corpus[1] \in Nat
    BY <2>1 DEF CleanInv, TypeOK
  <2>3. out["tf"][1].words # 0
    BY <2>2
  <2> QED
    BY <2>1, <2>3, NoWords
<1>4. group["counting"] # "off"
  <2>1. taken["tf"] \in Nat /\ Len(out["tf"]) <= taken["tf"] + 1 /\ Len(corpus) \in Nat
    BY DEF TakenInv, TypeOK, Streams, StreamCap
  <2>2. taken["tf"] > 0
    BY <1>2, <2>1
  <2> QED
    BY <2>2 DEF TakenInv
<1>5. mainPc \in {"eDocStreamer", "encryptedIndexer", "wait", "returned"}
  BY <1>4 DEF WgInv, Begun, Groups
<1>6. firstTime => ~BucketsEmpty /\ group["saver"] \notin {"off", "done"}
  BY <1>3, <1>5 DEF BucketsEmpty, WgInv, Begun, Groups, FreqInv
<1>7. ~firstTime => group["populate"] \notin {"off", "done"}
  BY <1>5 DEF WgInv, Begun, Groups, ServingInv
<1> QED
  BY <1>6, <1>7 DEF TypeOK, Groups

LEMMA NoPanicStep ==
    ASSUME TypeOK, LineInv, TakenInv, CleanInv, SizeInv, XTagsInv, FreqInv, ServingInv, WgInv,
           NoPanic, [Next]_vars
    PROVE  NoPanic'
<1>1. SUFFICES ASSUME Len(corpus) >= 2, \A i \in 1 .. Len(corpus) : corpus[i] > 0, faults' = 0,
                      firstTime => bucketed
               PROVE  ~died'
  BY StepFeeds DEF NoPanic
<1>2. faults = 0 /\ ~died /\ ~msg
  BY <1>1, StepErrors DEF NoPanic, CleanInv
<1>3. sPc # "sum" => /\ IF firstTime THEN group["saver"] = "run" ELSE group["populate"] = "run"
                     /\ firstTime => ~BucketsEmpty
  BY <1>1, <1>2, StillBusy
<1>4. CASE SummerDone
  <2>1. sPc = "sent" /\ (died' => died \/ wg = 0)
    BY <1>4, Zenon DEF SummerDone, WgDone
  <2>2. Cardinality(Running) >= 1
    BY <1>3, <2>1, RunningCount DEF Groups
  <2>3. wg = Cardinality(Running)
    BY <2>1, RunningCount DEF WgInv
  <2>4. wg # 0
    BY <2>2, <2>3, RunningCount
  <2> QED
    BY <1>2, <2>1, <2>4
<1>5. CASE Ends
  <2>1. PICK g \in Groups : Finish(g)
    BY <1>5, EndsAre DEF Groups
  <2>2. /\ group[g] = "run" /\ group' = [group EXCEPT ![g] = "done"] /\ (died' => wg = 0)
    BY <2>1, FinishIs
  <2>3. group'[g] = "done" /\ group[g] # "done"
    BY <2>2 DEF TypeOK
  <2>4. wg # 0
    <3>1. SUFFICES ASSUME wg = 0 PROVE FALSE
      OBVIOUS
    <3>2. Cardinality(Running) >= 1 /\ Cardinality(Running) \in Nat
      BY <2>2, RunningCount
    <3>3. sPc = "done" /\ Cardinality(Running) = 1
      BY <3>1, <3>2 DEF WgInv
    <3>4. Running = {g}
      BY <2>2, <3>3, RunningCount
    <3>5. g = IF firstTime THEN "saver" ELSE "populate"
      BY <1>3, <3>3, <3>4 DEF Running, Groups
    <3> QED
      BY <1>3, <2>3, <3>3, <3>5, EndedIs DEF ServingInv
  <2> QED
    BY <2>2, <2>4
<1>6. CASE HandleXSetAdd
  <2>1. SUFFICES ASSUME died' PROVE FALSE
    OBVIOUS
  <2>2. xFinished
    BY <1>6, <2>1, Zenon DEF HandleXSetAdd
  <2>3. pPc = "done" /\ \A i \in 1 .. Len(out["inv"]) : out["inv"][i].words > 0 => i \in xAdded
    BY <2>2 DEF XTagsInv
  <2>4. /\ msgs # <<>> /\ Head(msgs).type = "xAdd" /\ Head(msgs) = msgs[1]
        /\ 1 \in 1 .. Len(msgs)
    BY <1>6, HandleIs, TailQueue DEF HandleXSetAdd, TypeOK
  <2>5. msgs[1].val \in (1 .. Len(out["inv"])) \ xAdded
    BY <2>4 DEF XTagsInv
  <2>6. /\ out["inv"] = out["tf"] /\ Len(out["tf"]) = Len(corpus)
        /\ \A i \in 1 .. Len(out["tf"]) : out["tf"][i].words = corpus[i]
    BY <1>2, <2>3, DoneAgree DEF CleanInv, quit, Streams
  <2>7. PICK v \in 1 .. Len(corpus) : v = msgs[1].val
    BY <2>5, <2>6
  <2>8. out["inv"][v].words > 0
    BY <1>1, <2>6
  <2> QED
    BY <2>3, <2>5, <2>7, <2>8
<1> QED
  BY <1>1, <1>2, <1>4, <1>5, <1>6, StepErrors
----------------------------------------------------------------------------
(***************************************************************************)
(* The theorems                                                            *)
(***************************************************************************)
LEMMA InitIInv == Init => IInv
<1> SUFFICES ASSUME Init PROVE IInv
  OBVIOUS
<1>1. TypeOK
  <2>1. NoDocument \in Document
    BY DEF NoDocument, Document
  <2>2. corpus \in Seq(Nat) /\ bucketed \in BOOLEAN
    BY CorporaAssumption DEF Init
  <2>3. out \in [Streams -> Seq(Document)] /\ taken \in [Streams -> Nat]
    BY DEF Init
  <2>4. group \in [Groups -> {"off", "run", "done"}]
    BY DEF Init
  <2>5. msgs \in Seq(Messages) /\ xSize \in Int /\ xAdded \in SUBSET Nat
    BY DEF Init
  <2>6. /\ firstTime \in BOOLEAN /\ xFinished \in BOOLEAN /\ freqReady \in BOOLEAN
        /\ populated \in BOOLEAN /\ msg \in BOOLEAN /\ died \in BOOLEAN
    BY Zenon DEF Init
  <2>7. /\ mainPc = "register" /\ walked = 0 /\ rPc = "recv" /\ rDoc = NoDocument
        /\ nextDocId = 0 /\ pPc = "recv" /\ pDoc = NoDocument /\ sPc = "sum" /\ wg = 0
        /\ faults = 0 /\ stopPc = "none"
    BY Zenon DEF Init
  <2> QED
    BY <2>1, <2>2, <2>3, <2>4, <2>5, <2>6, <2>7 DEF TypeOK
<1>2. LineInv
  BY <1>1 DEF Init, LineInv, Held, InHand, Owed, Streams, TypeOK
<1>3. TakenInv /\ CleanInv
  BY DEF Init, TakenInv, StreamCap, CleanInv, InHand, Streams
<1>4. SizeInv /\ XTagsInv /\ FreqInv /\ ServingInv
  BY DEF Init, SizeInv, XTagsInv, FreqInv, ServingInv, Streams, Groups
<1>5. WgInv
  <2>1. Running = {}
    BY DEF Init, Running
  <2>2. Cardinality(Running) = 0
    BY <2>1, FS_EmptySet
  <2> QED
    BY <2>2 DEF Init, WgInv, Begun
<1>6. NoPanic
  BY DEF Init, NoPanic
<1> QED
  BY <1>1, <1>2, <1>3, <1>4, <1>5, <1>6 DEF IInv

LEMMA Inductive == IInv /\ [Next]_vars => IInv'
BY TypeOKStep, LineStep, TakenStep, CleanStep, SizeStep, XTagsStep, FreqStep, ServingStep, WgStep,
   NoPanicStep DEF IInv

\* When partitionStreams has closed its streams, they carried the same documents
\* in the same order, which unless Stop was called are the files of the corpus.
THEOREM StreamsAlwaysAgree == Spec => []StreamsAgree
<1>1. IInv => StreamsAgree
  <2> SUFFICES ASSUME IInv, pPc = "done"
               PROVE  /\ \A s \in Streams : out[s] = out["tf"]
                      /\ \A i \in 1 .. Len(out["tf"]) : out["tf"][i].id = i
                      /\ ~quit => Len(out["tf"]) = Len(corpus)
    BY DEF StreamsAgree
  <2> QED
    BY DoneAgree DEF IInv, LineInv, Streams
<1> QED
  BY <1>1, InitIInv, Inductive, PTL DEF Spec

\* The X-set filter that goes to the server has the xTags of every document.
THEOREM UploadIsFull == Spec => []UploadsFullXSet
<1>1. IInv => UploadsFullXSet
  <2> SUFFICES ASSUME IInv, group["uploader"] = "done", NEW d \in Range(out["inv"]), d.words > 0
               PROVE  d.id \in xAdded
    BY DEF UploadsFullXSet
  <2>1. PICK i \in 1 .. Len(out["inv"]) : d = out["inv"][i]
    BY DEF Range, IInv, TypeOK, Streams
  <2>2. d.id = i
    BY <2>1 DEF IInv, LineInv, Streams
  <2> QED
    BY <2>1, <2>2 DEF IInv, XTagsInv
<1> QED
  BY <1>1, InitIInv, Inductive, PTL DEF Spec

\* Index leaves no more than one of the goroutines it counts behind, and if a
\* frequency bucket has words that one is freqBloomSaver, in whose place
\* totalKeyWordSummer has called Done.
THEOREM ReturnIsComplete == Spec => []ReturnsComplete
<1>1. IInv => ReturnsComplete
  BY DEF IInv, WgInv, Running, ReturnsComplete
<1> QED
  BY <1>1, InitIInv, Inductive, PTL DEF Spec

\* A corpus of two or more documents with words, some of which on a new client
\* belong in a bucket, is indexed without a panic if nothing fails and nobody
\* interrupts.
THEOREM NeverPanics == Spec => []NoPanic
<1>1. IInv => NoPanic
  BY DEF IInv
<1> QED
  BY <1>1, InitIInv, Inductive, PTL DEF Spec
=============================================================================
