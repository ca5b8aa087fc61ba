------------------------- MODULE BloomMasterProofs -------------------------
(***************************************************************************)
(* Proofs about BloomMaster with one bloomWorker, the client's default:    *)
(* what is uploaded and saved is complete, across crashes and restarts.    *)
(* With two workers these properties are false: filter.Add is not          *)
(* synchronised.                                                           *)
(***************************************************************************)
EXTENDS BloomMaster, Functions, FiniteSetTheorems, TLAPS

\* The num_workers flag has its default, 1.
OneWorker == \E w : Workers = {w}
----------------------------------------------------------------------------
(***************************************************************************)
(* The invariant                                                           *)
(***************************************************************************)
\* The messages of all the calls the producers make.
Messages == UNION {{Call(p, n) : n \in 1 .. NumCalls(p)} : p \in Producers}

TypeOK ==
    /\ mode \in {"indexing", "serving", "failed"}
    /\ DOMAIN disk \subseteq Buckets
    /\ \A b \in DOMAIN disk : disk[b] \in SUBSET Items
    /\ msgChan \in Seq(Messages)
    /\ pos \in [Producers -> Nat] /\ checked \in [Producers -> BOOLEAN]
    /\ \A p \in Producers : checked[p] => pos[p] < NumCalls(p)
    /\ xReady \in BOOLEAN /\ freqReady \in BOOLEAN /\ xFinished \in BOOLEAN
    /\ filter \in [Filters -> SUBSET Items]
    /\ xAdded \in Nat /\ current \in [Buckets -> Nat]
    /\ finished \in Seq(Buckets)
    /\ wPc \in [Workers -> {"recv", "add", "write", "count", "send", "done"}]
    /\ wTo \in [Workers -> Filters]
    /\ \A v \in Workers : wPc[v] = "send" => wTo[v] \in Buckets
    /\ wTodo \in [Workers -> SUBSET Items] /\ wItem \in [Workers -> SUBSET Items]
    /\ wRead \in [Workers -> SUBSET Items]
    /\ wNum \in [Workers -> Nat]
    /\ savPc \in {"recv", "done"} /\ upPc \in {"wait", "done"}
    /\ numSaved \in Nat /\ errs \in Nat
    /\ stopPc \in {"none", "waiting", "returned"}

IsReady(p) == IF p = XSet THEN xReady ELSE freqReady

\* Whether a message of a call is still in the channel.
Queued(p, n) == Call(p, n) \in Range(msgChan)

\* A call is in the channel at most once, and only after it was made; the first
\* one, which creates the filters, until they exist; later ones after that.
ChanInv ==
    /\ IsInjective(msgChan)
    /\ \A p \in Producers, n \in Nat : Queued(p, n) => n \in 1 .. pos[p]
    /\ \A p \in Producers : Queued(p, 1) => ~IsReady(p)
    /\ \A p \in Producers : IsReady(p) => pos[p] > 0
    /\ \A p \in Producers : pos[p] > 1 \/ (checked[p] /\ pos[p] > 0) => IsReady(p)

\* What worker w still has to add to filter f.
Left(w, f) == IF wTo[w] = f THEN wTodo[w] \cup wItem[w] ELSE {}

\* What the worker holds at each point of its loop. It is alone, so between the
\* read and the write of Add nobody changes the filter.
WorkerInv(w) ==
    /\ wPc[w] \notin {"add", "write", "count"} => wTodo[w] = {}
    /\ wPc[w] # "write" => wItem[w] = {}
    /\ wPc[w] = "write" => \E item \in Items \ wTodo[w] : wItem[w] = {item}
    /\ wPc[w] = "write" => wRead[w] = filter[wTo[w]]
    /\ wPc[w] = "count" => wTo[w] = XSet
    /\ wPc[w] \in {"add", "write", "count", "send"} =>
          IF wTo[w] = XSet THEN xReady ELSE freqReady

\* The calls in done, whose messages the worker has received, are what the X-set
\* filter holds or the worker is adding, and each xTag counts once, a step after
\* it was added.
Pending(w) == IF wPc[w] = "count" THEN 1 ELSE 0
XAddsDone(done) == UNION {XAdds[n] : n \in done}
XDone(w, done) ==
    /\ \A n \in done : n + 1 <= pos[XSet] /\ ~Queued(XSet, n + 1)
    /\ filter[XSet] \cup Left(w, XSet) = XAddsDone(done)
    /\ filter[XSet] \cap Left(w, XSet) = {}
    /\ xAdded + Pending(w) = Cardinality(filter[XSet])
XInv(w) ==
    /\ \E done \in SUBSET DOMAIN XAdds : XDone(w, done)
    /\ xFinished => xReady /\ filter[XSet] = AllXTags

\* The same for a frequency bucket, whose count lags behind until the worker
\* has added a whole message. A worker that adds to it was sent one.
Uncounted(w, b) == IF wTo[w] = b /\ wPc[w] \in {"add", "write"} THEN wNum[w] ELSE 0
WordsDone(b, done) == UNION {FreqAdds[n].items : n \in {m \in done : FreqAdds[m].bucket = b}}
Adding(w) == wPc[w] \in {"add", "write"} /\ wTo[w] # XSet
FreqDone(w, done) ==
    /\ \A n \in done : n + 1 <= pos["freq"] /\ ~Queued("freq", n + 1)
    /\ \A b \in Buckets :
          /\ filter[b] \cup Left(w, b) = WordsDone(b, done)
          /\ filter[b] \cap Left(w, b) = {}
          /\ current[b] + Uncounted(w, b) = Cardinality(filter[b])
    /\ Adding(w) => \E n \in done : FreqAdds[n].bucket = wTo[w]

\* A bucket that is on its way to the saver, or saved.
InFinished(b) == b \in Range(finished)
Sent(w, b) == b \in DOMAIN disk \/ InFinished(b) \/ (wPc[w] = "send" /\ wTo[w] = b)

\* Such a bucket is full, and there is no call left that could send it again.
FullInv(w, done) ==
    \A b \in Buckets : Sent(w, b) =>
        /\ freqReady /\ filter[b] = AllWords(b)
        /\ \A n \in DOMAIN FreqAdds : FreqAdds[n].bucket = b => n \in done
        /\ wTo[w] = b => wPc[w] \notin {"add", "write"}
FreqInv(w) == \E done \in SUBSET DOMAIN FreqAdds : FreqDone(w, done) /\ FullInv(w, done)

\* No bucket is sent twice, so the saver's counter counts buckets.
SaverInv(w) ==
    /\ IsInjective(finished)
    /\ \A b \in Buckets : InFinished(b) => b \notin DOMAIN disk
    /\ wPc[w] = "send" => ~InFinished(wTo[w]) /\ wTo[w] \notin DOMAIN disk
    /\ errs = 0 => numSaved = Cardinality(DOMAIN disk)
    /\ savPc = "done" /\ ~quit => numSaved >= NumBuckets

\* What outlives the process: every filter uploaded or saved is complete.
KeptInv ==
    /\ \A u \in uploaded : u = AllXTags
    /\ \A b \in DOMAIN disk : disk[b] = AllWords(b)

\* A client that does not index runs no worker, saver or uploader.
ModeInv ==
    /\ mode # "indexing" =>
          /\ \A v \in Workers : wPc[v] = "done"
          /\ savPc = "done" /\ upPc = "done"
    /\ mode = "serving" =>
          /\ DOMAIN disk = Buckets
          /\ \A b \in Buckets : filter[b] = disk[b]

IndexInv(w) == ChanInv /\ WorkerInv(w) /\ XInv(w) /\ FreqInv(w) /\ SaverInv(w)

IInv(w) ==
    TypeOK /\ KeptInv /\ ModeInv /\ (mode = "indexing" => IndexInv(w))
----------------------------------------------------------------------------
(***************************************************************************)
(* Lemmas about channels, calls and filters                                *)
(***************************************************************************)

\* What a queue holds once an element is added, and once one is taken, and that
\* it holds nothing twice.
LEMMA AppendQueue ==
    ASSUME NEW S, NEW s \in Seq(S), NEW x \in S
    PROVE  /\ Append(s, x) \in Seq(S)
           /\ Range(Append(s, x)) = Range(s) \cup {x}
           /\ IsInjective(s) /\ x \notin Range(s) => IsInjective(Append(s, x))
<1>1. /\ Len(s) \in Nat /\ DOMAIN s = 1 .. Len(s)
      /\ DOMAIN Append(s, x) = 1 .. Len(s) + 1
      /\ \A i \in 1 .. Len(s) : Append(s, x)[i] = s[i]
      /\ Append(s, x)[Len(s) + 1] = x
  OBVIOUS
<1>2. 1 .. Len(s) + 1 = 1 .. Len(s) \cup {Len(s) + 1}
  BY <1>1
<1>3. Range(Append(s, x)) = Range(s) \cup {x}
  BY <1>1, <1>2, Zenon DEF Range
<1>4. ASSUME IsInjective(s), x \notin Range(s) PROVE IsInjective(Append(s, x))
  <2> SUFFICES ASSUME NEW i \in 1 .. Len(s) + 1, NEW j \in 1 .. Len(s) + 1,
                      Append(s, x)[i] = Append(s, x)[j]
               PROVE  i = j
    BY <1>1 DEF IsInjective
  <2>1. \A k \in 1 .. Len(s) : s[k] # x
    BY <1>1, <1>4 DEF Range
  <2>2. \A k, l \in 1 .. Len(s) : s[k] = s[l] => k = l
    BY <1>1, <1>4 DEF IsInjective
  <2> QED
    BY <1>1, <1>2, <2>1, <2>2
<1> QED
  BY <1>3, <1>4

LEMMA TailQueue ==
    ASSUME NEW S, NEW s \in Seq(S), s # <<>>
    PROVE  /\ Head(s) \in S /\ Tail(s) \in Seq(S)
           /\ Range(s) = {Head(s)} \cup Range(Tail(s))
           /\ IsInjective(s) => /\ IsInjective(Tail(s))
                                /\ Head(s) \notin Range(Tail(s))
<1>1. /\ Len(s) \in Nat \ {0} /\ DOMAIN s = 1 .. Len(s) /\ Head(s) = s[1]
      /\ DOMAIN Tail(s) = 1 .. Len(s) - 1
      /\ \A i \in 1 .. Len(s) - 1 : Tail(s)[i] = s[i + 1]
  OBVIOUS
<1>2. /\ \A i \in 1 .. Len(s) - 1 : i + 1 \in 1 .. Len(s) /\ i + 1 # 1
      /\ \A i \in 1 .. Len(s) : i = 1 \/ \E j \in 1 .. Len(s) - 1 : i = j + 1
      /\ \A i, j \in 1 .. Len(s) - 1 : i + 1 = j + 1 => i = j
      /\ 1 \in 1 .. Len(s)
  <2>1. \A i \in 1 .. Len(s) : i = 1 \/ (i - 1 \in 1 .. Len(s) - 1 /\ i = (i - 1) + 1)
    BY <1>1
  <2> QED
    BY <1>1, <2>1
<1>3. Range(s) = {Head(s)} \cup Range(Tail(s))
  <2>1. ASSUME NEW i \in 1 .. Len(s) PROVE s[i] \in {Head(s)} \cup Range(Tail(s))
    <3>1. CASE i = 1
      BY <1>1, <3>1
    <3>2. CASE \E j \in 1 .. Len(s) - 1 : i = j + 1
      <4>1. PICK j \in 1 .. Len(s) - 1 : i = j + 1
        BY <3>2
      <4>2. Tail(s)[j] \in Range(Tail(s)) /\ Tail(s)[j] = s[i]
        BY <1>1, <4>1 DEF Range
      <4> QED
        BY <4>2
    <3> QED
      BY <1>2, <3>1, <3>2
  <2>2. ASSUME NEW i \in 1 .. Len(s) - 1 PROVE Tail(s)[i] \in Range(s)
    BY <1>1, <1>2 DEF Range
  <2>3. Head(s) \in Range(s)
    BY <1>1, <1>2 DEF Range
  <2> QED
    BY <1>1, <2>1, <2>2, <2>3 DEF Range
<1>4. ASSUME IsInjective(s)
      PROVE  IsInjective(Tail(s)) /\ Head(s) \notin Range(Tail(s))
  <2>1. \A i, j \in 1 .. Len(s) : s[i] = s[j] => i = j
    BY <1>1, <1>4 DEF IsInjective
  <2>2. IsInjective(Tail(s))
    BY <1>1, <1>2, <2>1 DEF IsInjective
  <2>3. Head(s) \notin Range(Tail(s))
    BY <1>1, <1>2, <2>1 DEF Range
  <2> QED
    BY <2>2, <2>3
<1> QED
  BY <1>1, <1>3, <1>4

\* What a message says is what its call was given, and calls have messages of
\* their own.
LEMMA CallIs ==
    ASSUME NEW p \in Producers, NEW n \in 1 .. NumCalls(p)
    PROVE  /\ Call(p, n) \in Messages
           /\ Call(p, n).kind = "init" <=> n = 1
           /\ Call(p, n).kind = "add" <=> n # 1
           /\ n = 1 => Call(p, n).to = p
           /\ n # 1 /\ p = XSet => /\ n - 1 \in DOMAIN XAdds
                                 /\ Call(p, n).to = XSet
                                 /\ Call(p, n).items = XAdds[n - 1]
           /\ n # 1 /\ p # XSet => /\ n - 1 \in DOMAIN FreqAdds
                                 /\ Call(p, n).to = FreqAdds[n - 1].bucket
                                 /\ Call(p, n).items = FreqAdds[n - 1].items
<1>1. Call(p, n) \in Messages
  BY DEF Messages
<1>2. n # 1 /\ p = XSet => n - 1 \in DOMAIN XAdds
  BY XAddsAssumption DEF NumCalls
<1>3. n # 1 /\ p # XSet => n - 1 \in DOMAIN FreqAdds
  BY FreqAddsAssumption DEF NumCalls
<1> QED
  BY <1>1, <1>2, <1>3 DEF Call

LEMMA CallOwn ==
    ASSUME NEW p, NEW n, NEW q, NEW m, Call(p, n) = Call(q, m)
    PROVE  p = q /\ n = m
<1>1. Call(p, n).call = <<p, n>> /\ Call(q, m).call = <<q, m>>
  BY DEF Call
<1> QED
  BY <1>1

LEMMA MessageIs ==
    ASSUME NEW m \in Messages
    PROVE  \E p \in Producers : \E n \in 1 .. NumCalls(p) : m = Call(p, n)
BY DEF Messages

\* What is added is typed.
LEMMA AddsType ==
    /\ \A n \in DOMAIN XAdds : XAdds[n] \in SUBSET Items
    /\ \A n \in DOMAIN FreqAdds : /\ FreqAdds[n].bucket \in Buckets
                                /\ FreqAdds[n].items \in SUBSET Items
<1>1. \A n \in DOMAIN XAdds : XAdds[n] \in SUBSET Items
  BY XAddsAssumption
<1>2. \A n \in DOMAIN FreqAdds : FreqAdds[n] \in [bucket : Buckets, items : SUBSET Items]
  <2> DEFINE R == [bucket : Buckets, items : SUBSET Items]
  <2>1. FreqAdds \in Seq(R)
    BY FreqAddsAssumption
  <2> HIDE DEF R
  <2>2. \A n \in DOMAIN FreqAdds : FreqAdds[n] \in R
    BY <2>1
  <2> QED
    BY <2>2 DEF R
<1> QED
  BY <1>1, <1>2

\* An add message is for a filter and carries items.
LEMMA AddMessageType ==
    ASSUME NEW m \in Messages, m.kind = "add"
    PROVE  m.to \in Filters /\ m.items \in SUBSET Items
<1>1. PICK p \in Producers : \E n \in 1 .. NumCalls(p) : m = Call(p, n)
  BY MessageIs
<1>2. PICK n \in 1 .. NumCalls(p) : m = Call(p, n)
  BY <1>1
<1>3. n # 1
  BY <1>2, CallIs
<1>4. CASE p = XSet
  <2>1. m.to = XSet /\ m.items = XAdds[n - 1] /\ n - 1 \in DOMAIN XAdds
    BY <1>2, <1>3, <1>4, CallIs
  <2> QED
    BY <2>1, AddsType DEF Filters
<1>5. CASE p # XSet
  <2>1. /\ m.to = FreqAdds[n - 1].bucket /\ m.items = FreqAdds[n - 1].items
        /\ n - 1 \in DOMAIN FreqAdds
    BY <1>2, <1>3, <1>5, CallIs
  <2> QED
    BY <2>1, AddsType DEF Filters
<1> QED
  BY <1>4, <1>5
----------------------------------------------------------------------------
(***************************************************************************)
(* Types                                                                   *)
(***************************************************************************)

\* What a client finds when it starts.
LEMMA BootedIs ==
    ASSUME NEW d, DOMAIN d \subseteq Buckets, \A b \in DOMAIN d : d[b] \in SUBSET Items
    PROVE  LET p == Booted(d)
           IN /\ p.mode \in {"indexing", "serving", "failed"}
              /\ p.mode = "indexing" =>
                    /\ DOMAIN d = {}
                    /\ p.filter = [f \in Filters |-> {}]
                    /\ p.wPc = [w \in Workers |-> "recv"]
                    /\ p.savPc = "recv" /\ p.upPc = "wait"
              /\ p.mode # "indexing" =>
                    /\ p.wPc = [w \in Workers |-> "done"]
                    /\ p.savPc = "done" /\ p.upPc = "done"
              /\ p.mode = "serving" =>
                    /\ DOMAIN d = Buckets
                    /\ \A b \in Buckets : p.filter[b] = d[b]
              /\ p.filter \in [Filters -> SUBSET Items]
              /\ p.queryPc \in {"recv", "none"}
<1> DEFINE p == Booted(d)
<1>1. p.mode = BootMode(d)
  BY DEF Booted
<1>2. /\ BootMode(d) \in {"indexing", "serving", "failed"}
      /\ BootMode(d) = "indexing" => DOMAIN d = {}
      /\ BootMode(d) = "serving" => DOMAIN d = Buckets
  BY DEF BootMode
<1>3. p.filter = [f \in Filters |-> IF BootMode(d) = "serving" /\ f \in Buckets
                                    THEN d[f] ELSE {}]
  BY DEF Booted
<1>4. p.filter \in [Filters -> SUBSET Items]
  BY <1>2, <1>3
<1>5. BootMode(d) = "indexing" => p.filter = [f \in Filters |-> {}]
  BY <1>3
<1>6. BootMode(d) = "serving" => \A b \in Buckets : p.filter[b] = d[b]
  BY <1>3 DEF Filters
<1>7. BootMode(d) = "indexing" => /\ p.wPc = [w \in Workers |-> "recv"]
                                  /\ p.savPc = "recv" /\ p.upPc = "wait"
  BY DEF Booted
<1>8. BootMode(d) # "indexing" => /\ p.wPc = [w \in Workers |-> "done"]
                                  /\ p.savPc = "done" /\ p.upPc = "done"
  BY DEF Booted
<1>9. p.queryPc \in {"recv", "none"}
  BY DEF Booted
<1> QED
  BY <1>1, <1>2, <1>4, <1>5, <1>6, <1>7, <1>8, <1>9

LEMMA InitTypeOK == Init => TypeOK
<1> SUFFICES ASSUME Init PROVE TypeOK
  OBVIOUS
<1>1. DOMAIN NothingSaved = {}
  BY DEF NothingSaved
<1>2. /\ mode \in {"indexing", "serving", "failed"}
      /\ filter \in [Filters -> SUBSET Items]
      /\ wPc = [w \in Workers |-> "recv"] \/ wPc = [w \in Workers |-> "done"]
      /\ savPc \in {"recv", "done"} /\ upPc \in {"wait", "done"}
  <2>1. \A b \in DOMAIN NothingSaved : NothingSaved[b] \in SUBSET Items
    BY <1>1
  <2> QED
    BY <1>1, <2>1, BootedIs DEF Init
<1>3. wPc \in [Workers -> {"recv", "add", "write", "count", "send", "done"}]
  BY <1>2
<1>4. /\ pos \in [Producers -> Nat] /\ checked \in [Producers -> BOOLEAN]
      /\ \A p \in Producers : ~checked[p]
  BY DEF Init
<1>5. msgChan \in Seq(Messages) /\ finished \in Seq(Buckets) /\ current \in [Buckets -> Nat]
  BY DEF Init
<1>6. /\ wTo \in [Workers -> Filters] /\ wTodo \in [Workers -> SUBSET Items]
      /\ wItem \in [Workers -> SUBSET Items] /\ wRead \in [Workers -> SUBSET Items]
  BY DEF Init, Filters
<1>7. wNum \in [Workers -> Nat]
  BY DEF Init
<1> QED
  BY <1>1, <1>2, <1>3, <1>4, <1>5, <1>6, <1>7 DEF Init, TypeOK

LEMMA CrashTypeOK == ASSUME TypeOK, Crash PROVE TypeOK'
<1>1. disk' = disk /\ errs' = errs
  BY DEF Crash
<1>2. /\ mode' \in {"indexing", "serving", "failed"}
      /\ filter' \in [Filters -> SUBSET Items]
      /\ wPc' = [w \in Workers |-> "recv"] \/ wPc' = [w \in Workers |-> "done"]
      /\ savPc' \in {"recv", "done"} /\ upPc' \in {"wait", "done"}
  BY BootedIs DEF Crash, TypeOK
<1>3. wPc' \in [Workers -> {"recv", "add", "write", "count", "send", "done"}]
  BY <1>2
<1>4. /\ pos' \in [Producers -> Nat] /\ checked' \in [Producers -> BOOLEAN]
      /\ \A p \in Producers : ~checked'[p]
  BY DEF Crash
<1>5. msgChan' \in Seq(Messages) /\ finished' \in Seq(Buckets) /\ current' \in [Buckets -> Nat]
  BY DEF Crash
<1>6. /\ wTo' \in [Workers -> Filters] /\ wTodo' \in [Workers -> SUBSET Items]
      /\ wItem' \in [Workers -> SUBSET Items] /\ wRead' \in [Workers -> SUBSET Items]
  BY DEF Crash, Filters
<1>7. wNum' \in [Workers -> Nat]
  BY DEF Crash
<1> QED
  BY <1>1, <1>2, <1>3, <1>4, <1>5, <1>6, <1>7 DEF Crash, TypeOK

\* The calls.
LEMMA ProducerTypeOK ==
    ASSUME TypeOK, NEW p \in Producers, Producer(p)
    PROVE  TypeOK'
<1>1. CASE CallCheck(p)
  <2>1. /\ pos' \in [Producers -> Nat] /\ checked' \in [Producers -> BOOLEAN]
        /\ \A q \in Producers : checked'[q] => pos'[q] < NumCalls(q)
    <3>1. CASE quit
      <4>1. pos' = [pos EXCEPT ![p] = @ + 1] /\ checked' = checked /\ ~checked[p]
        BY <1>1, <3>1 DEF CallCheck
      <4>2. \A q \in Producers : q # p => pos'[q] = pos[q]
        BY <4>1 DEF TypeOK
      <4> QED
        BY <4>1, <4>2 DEF TypeOK
    <3>2. CASE ~quit
      <4>1. /\ checked' = [checked EXCEPT ![p] = TRUE] /\ pos' = pos
            /\ pos[p] < NumCalls(p)
        BY <1>1, <3>2 DEF CallCheck
      <4>2. \A q \in Producers : q # p => checked'[q] = checked[q]
        BY <4>1 DEF TypeOK
      <4> QED
        BY <4>1, <4>2 DEF TypeOK
    <3> QED
      BY <3>1, <3>2
  <2> QED
    BY <1>1, <2>1 DEF CallCheck, TypeOK, readyVars, freqVars, workerVars, saverVars,
                      upVars, procVars
<1>2. CASE CallSend(p)
  <2>1. /\ pos' \in [Producers -> Nat] /\ checked' \in [Producers -> BOOLEAN]
        /\ \A q \in Producers : checked'[q] => pos'[q] < NumCalls(q)
    <3>1. pos' = [pos EXCEPT ![p] = @ + 1] /\ checked' = [checked EXCEPT ![p] = FALSE]
      BY <1>2 DEF CallSend
    <3>2. ~checked'[p] /\ \A q \in Producers : q # p => checked'[q] = checked[q] /\ pos'[q] = pos[q]
      BY <3>1 DEF TypeOK
    <3> QED
      BY <3>1, <3>2 DEF TypeOK
  <2>2. pos[p] + 1 \in 1 .. NumCalls(p)
    <3>1. pos[p] \in Nat /\ pos[p] < NumCalls(p)
      BY <1>2 DEF CallSend, TypeOK
    <3>2. NumCalls(p) \in Nat
      BY XAddsAssumption, FreqAddsAssumption DEF NumCalls
    <3> QED
      BY <3>1, <3>2
  <2>3. Call(p, pos[p] + 1) \in Messages
    BY <2>2, CallIs
  <2>4. msgChan' \in Seq(Messages)
    BY <1>2, <2>3, AppendQueue DEF CallSend, TypeOK
  <2> QED
    BY <1>2, <2>1, <2>4 DEF CallSend, TypeOK, readyVars, freqVars, workerVars, saverVars,
                      upVars, procVars
<1> QED
  BY <1>1, <1>2 DEF Producer

\* bloomWorker.
LEMMA WorkerTypeOK ==
    ASSUME TypeOK, NEW w \in Workers, Worker(w)
    PROVE  TypeOK'
<1>1. CASE WInit(w)
  <2>1. msgChan' \in Seq(Messages)
    BY <1>1, TailQueue DEF WInit, TypeOK
  <2>2. filter' \in [Filters -> SUBSET Items] /\ xReady' \in BOOLEAN /\ freqReady' \in BOOLEAN
    BY <1>1 DEF WInit, TypeOK
  <2> QED
    BY <1>1, <2>1, <2>2 DEF WInit, TypeOK, freqVars, workerVars, saverVars, upVars, procVars
<1>2. CASE WRecv(w)
  <2>1. msgChan' \in Seq(Messages) /\ Head(msgChan) \in Messages /\ Head(msgChan).kind = "add"
    BY <1>2, TailQueue DEF WRecv, TypeOK
  <2>2. Head(msgChan).to \in Filters /\ Head(msgChan).items \in SUBSET Items
    BY <2>1, AddMessageType
  <2>3. /\ wTo' \in [Workers -> Filters] /\ wTodo' \in [Workers -> SUBSET Items]
        /\ wNum' \in [Workers -> Nat]
        /\ \A v \in Workers : wPc'[v] = "send" => wTo'[v] \in Buckets
        /\ wPc' \in [Workers -> {"recv", "add", "write", "count", "send", "done"}]
    BY <1>2, <2>2 DEF WRecv, TypeOK
  <2> QED
    BY <1>2, <2>1, <2>3 DEF WRecv, TypeOK, readyVars, freqVars, saverVars, upVars, procVars
<1>3. ASSUME NEW item \in Items, WAddRead(w, item) PROVE TypeOK'
  <2>1. /\ wTodo' \in [Workers -> SUBSET Items] /\ wItem' \in [Workers -> SUBSET Items]
        /\ wRead' \in [Workers -> SUBSET Items]
        /\ \A v \in Workers : wPc'[v] = "send" => wTo'[v] \in Buckets
        /\ wPc' \in [Workers -> {"recv", "add", "write", "count", "send", "done"}]
    BY <1>3 DEF WAddRead, TypeOK
  <2> QED
    BY <1>3, <2>1 DEF WAddRead, TypeOK, chanVars, readyVars, freqVars, saverVars, upVars, procVars
<1>4. CASE WAddWrite(w)
  <2>1. filter' \in [Filters -> SUBSET Items]
    BY <1>4 DEF WAddWrite, TypeOK
  <2>2. /\ wItem' \in [Workers -> SUBSET Items] /\ wRead' \in [Workers -> SUBSET Items]
        /\ wNum' \in [Workers -> Nat]
        /\ \A v \in Workers : wPc'[v] = "send" => wTo'[v] \in Buckets
        /\ wPc' \in [Workers -> {"recv", "add", "write", "count", "send", "done"}]
    BY <1>4 DEF WAddWrite, TypeOK
  <2> QED
    BY <1>4, <2>1, <2>2 DEF WAddWrite, TypeOK, chanVars, readyVars, freqVars, saverVars, upVars,
                            procVars
<1>5. CASE WXSetCheck(w)
  BY <1>5 DEF WXSetCheck, TypeOK, chanVars, freqVars, saverVars, upVars
<1>6. CASE WFreqCheck(w)
  <2>1. current' \in [Buckets -> Nat]
    BY <1>6 DEF WFreqCheck, TypeOK
  <2>2. /\ wPc' \in [Workers -> {"recv", "add", "write", "count", "send", "done"}]
        /\ \A v \in Workers : wPc'[v] = "send" => wTo'[v] \in Buckets
    BY <1>6 DEF WFreqCheck, TypeOK
  <2> QED
    BY <1>6, <2>1, <2>2 DEF WFreqCheck, TypeOK, chanVars, readyVars, saverVars, upVars, procVars
<1>7. CASE WFreqSend(w)
  <2>1. finished' \in Seq(Buckets)
    BY <1>7, AppendQueue DEF WFreqSend, TypeOK
  <2> QED
    BY <1>7, <2>1 DEF WFreqSend, TypeOK, chanVars, readyVars, saverVars, upVars, procVars
<1>8. CASE WEnd(w)
  BY <1>8 DEF WEnd, TypeOK, chanVars, readyVars, freqVars, saverVars, upVars, procVars
<1>9. CASE WXSetCount(w)
  <2>1. /\ xAdded' \in Nat
        /\ wPc' \in [Workers -> {"recv", "add", "write", "count", "send", "done"}]
        /\ \A v \in Workers : wPc'[v] = "send" => wTo'[v] \in Buckets
    BY <1>9 DEF WXSetCount, TypeOK
  <2> QED
    BY <1>9, <2>1 DEF WXSetCount, TypeOK, chanVars, readyVars, freqVars, saverVars, upVars,
                      procVars
<1> QED
  BY <1>1, <1>2, <1>3, <1>4, <1>5, <1>6, <1>7, <1>8, <1>9 DEF Worker

\* A failure is counted.
LEMMA AbortType == ASSUME TypeOK, Abort PROVE errs' \in Nat /\ errs' # 0
BY DEF TypeOK, Abort

\* What the saver does with the filter it takes.
LEMMA SaveIs ==
    ASSUME TypeOK, SaverSave
    PROVE  /\ Head(finished) \in Buckets /\ Tail(finished) \in Seq(Buckets)
           /\ finished' = Tail(finished) /\ finished # <<>> /\ savPc = "recv"
           /\ numSaved' = numSaved + 1
           /\ savPc' = IF numSaved + 1 < NumBuckets THEN "recv" ELSE "done"
           /\ \/ /\ DOMAIN disk' = DOMAIN disk \cup {Head(finished)}
                 /\ disk'[Head(finished)] = filter[Head(finished)]
                 /\ \A b \in DOMAIN disk : b # Head(finished) => disk'[b] = disk[b]
                 /\ errs' = errs
              \/ disk' = disk /\ errs' \in Nat /\ errs' # 0
<1>1. finished # <<>> /\ finished \in Seq(Buckets)
  BY DEF SaverSave, TypeOK
<1>2. Head(finished) \in Buckets /\ Tail(finished) \in Seq(Buckets)
  BY <1>1
<1>3. CASE disk' = [b \in DOMAIN disk \cup {Head(finished)} |->
                       IF b = Head(finished) THEN filter[b] ELSE disk[b]] /\ errs' = errs
  <2>1. /\ DOMAIN disk' = DOMAIN disk \cup {Head(finished)}
        /\ disk'[Head(finished)] = filter[Head(finished)]
        /\ \A b \in DOMAIN disk : b # Head(finished) => disk'[b] = disk[b]
    BY <1>3
  <2> QED
    BY <1>1, <1>2, <1>3, <2>1 DEF SaverSave
<1>4. CASE Abort /\ disk' = disk
  <2>1. errs' \in Nat /\ errs' # 0
    BY <1>4, AbortType
  <2> QED
    BY <1>1, <1>2, <1>4, <2>1 DEF SaverSave
<1> QED
  BY <1>3, <1>4 DEF SaverSave

LEMMA NextTypeOK == TypeOK /\ [Next]_vars => TypeOK'
<1> SUFFICES ASSUME TypeOK, [Next]_vars PROVE TypeOK'
  OBVIOUS
<1>1. CASE SaverSave
  <2>1. finished' \in Seq(Buckets) /\ errs' \in Nat /\ numSaved' \in Nat /\ savPc' \in {"recv", "done"}
    <3>1. /\ finished' = Tail(finished) /\ Tail(finished) \in Seq(Buckets)
          /\ errs' = errs \/ errs' \in Nat
          /\ numSaved' = numSaved + 1
          /\ savPc' = "recv" \/ savPc' = "done"
      BY <1>1, SaveIs
    <3> QED
      BY <3>1 DEF TypeOK
  <2>2. DOMAIN disk' \subseteq Buckets /\ \A b \in DOMAIN disk' : disk'[b] \in SUBSET Items
    BY <1>1, SaveIs DEF TypeOK, Filters
  <2> QED
    BY <1>1, <2>1, <2>2 DEF SaverSave, TypeOK, chanVars, readyVars, workerVars, upVars
<1>2. CASE SaverQuit
  BY <1>2 DEF SaverQuit, TypeOK, chanVars, readyVars, freqVars, workerVars, upVars, procVars
<1>3. CASE UploaderUpload
  <2>1. errs' \in Nat
    BY <1>3, AbortType DEF UploaderUpload, TypeOK
  <2> QED
    BY <1>3, <2>1 DEF UploaderUpload, TypeOK, chanVars, readyVars, freqVars, workerVars, saverVars
<1>4. CASE UploaderQuit
  BY <1>4 DEF UploaderQuit, TypeOK, chanVars, readyVars, freqVars, workerVars, saverVars, procVars
<1>5. CASE QueryQuit \/ Stop \/ StopReturn \/ HandleErrors
  BY <1>5 DEF QueryQuit, Stop, StopReturn, HandleErrors, TypeOK, chanVars, readyVars, freqVars,
              workerVars, saverVars, upVars
<1>6. CASE UNCHANGED vars
  BY <1>6 DEF vars, TypeOK
<1> QED
  BY <1>1, <1>2, <1>3, <1>4, <1>5, <1>6, ProducerTypeOK, WorkerTypeOK, CrashTypeOK
     DEF Next, Saver, Uploader
----------------------------------------------------------------------------
(***************************************************************************)
(* The message channel                                                     *)
(***************************************************************************)

\* The message a worker receives is of a call that was made, and no other
\* message of that call is left.
LEMMA Received ==
    ASSUME TypeOK, ChanInv, msgChan # <<>>, msgChan' = Tail(msgChan)
    PROVE  \E p \in Producers : \E n \in 1 .. NumCalls(p) :
               /\ Head(msgChan) = Call(p, n) /\ n \in 1 .. pos[p] /\ Queued(p, n)
               /\ IsInjective(msgChan')
               /\ ~Queued(p, n)'
               /\ \A q \in Producers, m \in Nat : Queued(q, m)' => Queued(q, m)
<1>1. /\ Head(msgChan) \in Messages
      /\ Range(msgChan) = {Head(msgChan)} \cup Range(Tail(msgChan))
      /\ IsInjective(Tail(msgChan)) /\ Head(msgChan) \notin Range(Tail(msgChan))
  BY TailQueue DEF TypeOK, ChanInv
<1>2. PICK p \in Producers : \E n \in 1 .. NumCalls(p) : Head(msgChan) = Call(p, n)
  BY <1>1, MessageIs
<1>3. PICK n \in 1 .. NumCalls(p) : Head(msgChan) = Call(p, n)
  BY <1>2
<1>4. Queued(p, n) /\ ~Queued(p, n)'
  BY <1>1, <1>3 DEF Queued, Call
<1>5. n \in 1 .. pos[p]
  BY <1>4 DEF ChanInv
<1>6. \A q \in Producers, m \in Nat : Queued(q, m)' => Queued(q, m)
  BY <1>1 DEF Queued, Call
<1> QED
  BY <1>1, <1>3, <1>4, <1>5, <1>6

\* The message of a call is queued after those that were.
LEMMA Made ==
    ASSUME TypeOK, NEW p \in Producers, CallSend(p)
    PROVE  /\ \A q, m : Queued(q, m)' <=> Queued(q, m) \/ (q = p /\ m = pos[p] + 1)
           /\ IsInjective(msgChan) /\ ~Queued(p, pos[p] + 1) => IsInjective(msgChan')
<1>1. pos[p] + 1 \in 1 .. NumCalls(p)
  <2>1. pos[p] \in Nat /\ pos[p] < NumCalls(p)
    BY DEF CallSend, TypeOK
  <2>2. NumCalls(p) \in Nat
    BY XAddsAssumption, FreqAddsAssumption DEF NumCalls
  <2> QED
    BY <2>1, <2>2
<1> DEFINE c == Call(p, pos[p] + 1)
<1>2. c \in Messages
  BY <1>1, CallIs
<1>3. msgChan' = Append(msgChan, c)
  BY DEF CallSend
<1> HIDE DEF c
<1>4. /\ Range(msgChan') = Range(msgChan) \cup {c}
      /\ IsInjective(msgChan) /\ c \notin Range(msgChan) => IsInjective(msgChan')
  BY <1>2, <1>3, AppendQueue DEF TypeOK
<1>5. ASSUME NEW q, NEW m
      PROVE  Queued(q, m)' <=> Queued(q, m) \/ (q = p /\ m = pos[p] + 1)
  <2>1. Queued(q, m)' <=> Call(q, m) \in Range(msgChan')
    BY DEF Queued, Call
  <2>2. Call(q, m) = c <=> q = p /\ m = pos[p] + 1
    BY CallOwn DEF c
  <2> QED
    BY <1>4, <2>1, <2>2 DEF Queued
<1>6. Queued(p, pos[p] + 1) <=> c \in Range(msgChan)
  BY DEF Queued, c
<1> QED
  BY <1>4, <1>5, <1>6

LEMMA ProducerChan ==
    ASSUME TypeOK, ChanInv, NEW p \in Producers, Producer(p)
    PROVE  ChanInv'
<1> USE DEF ChanInv
<1>1. CASE CallCheck(p)
  <2>1. msgChan' = msgChan /\ xReady' = xReady /\ freqReady' = freqReady
    BY <1>1 DEF CallCheck, readyVars
  <2>2. \A q, m : Queued(q, m)' = Queued(q, m)
    BY <2>1 DEF Queued, Call
  <2>3. \A q \in Producers : IsReady(q)' = IsReady(q)
    BY <2>1 DEF IsReady
  <2>4. pos[p] > 0 => IsReady(p)
    BY <1>1 DEF CallCheck, Ready, IsReady
  <2>5. \/ checked' = checked /\ pos' = [pos EXCEPT ![p] = @ + 1] /\ ~checked[p]
        \/ pos' = pos /\ checked' = [checked EXCEPT ![p] = TRUE]
    BY <1>1 DEF CallCheck
  <2>6. \A q \in Producers : q # p => pos'[q] = pos[q] /\ checked'[q] = checked[q]
    BY <2>5 DEF TypeOK
  <2>7. pos[p] \in Nat /\ (pos'[p] = pos[p] \/ (pos'[p] = pos[p] + 1 /\ ~checked'[p]))
    BY <2>5 DEF TypeOK
  <2>8. \A q \in Producers, n \in Nat : Queued(q, n)' => n \in 1 .. pos'[q]
    BY <2>2, <2>6, <2>7
  <2>9. \A q \in Producers : pos'[q] > 1 \/ (checked'[q] /\ pos'[q] > 0) => IsReady(q)'
    BY <2>3, <2>4, <2>6, <2>7
  <2>10. \A q \in Producers : IsReady(q)' => pos'[q] > 0
    BY <2>3, <2>6, <2>7
  <2> QED
    BY <2>1, <2>2, <2>3, <2>8, <2>9, <2>10
<1>2. CASE CallSend(p)
  <2>1. xReady' = xReady /\ freqReady' = freqReady
    BY <1>2 DEF CallSend, readyVars
  <2>2. \A q \in Producers : IsReady(q)' = IsReady(q)
    BY <2>1 DEF IsReady
  <2>3. /\ checked[p] /\ ~checked'[p] /\ pos[p] \in Nat /\ pos'[p] = pos[p] + 1
        /\ \A q \in Producers : q # p => pos'[q] = pos[q] /\ checked'[q] = checked[q]
    BY <1>2 DEF CallSend, TypeOK
  <2>4. ~Queued(p, pos[p] + 1)
    BY <2>3
  <2>5. /\ \A q, m : Queued(q, m)' <=> Queued(q, m) \/ (q = p /\ m = pos[p] + 1)
        /\ IsInjective(msgChan')
    BY <1>2, <2>4, Made
  <2>6. \A q \in Producers, n \in Nat : Queued(q, n)' => n \in 1 .. pos'[q]
    BY <2>3, <2>5
  <2>7. \A q \in Producers : Queued(q, 1)' => ~IsReady(q)'
    <3> SUFFICES ASSUME NEW q \in Producers, Queued(q, 1)', IsReady(q) PROVE FALSE
      BY <2>2
    <3>1. q = p /\ 1 = pos[p] + 1
      BY <2>5
    <3> QED
      BY <2>3, <3>1
  <2>8. \A q \in Producers : pos'[q] > 1 \/ (checked'[q] /\ pos'[q] > 0) => IsReady(q)'
    BY <2>2, <2>3
  <2>9. \A q \in Producers : IsReady(q)' => pos'[q] > 0
    BY <2>2, <2>3
  <2> QED
    BY <2>5, <2>6, <2>7, <2>8, <2>9
<1> QED
  BY <1>1, <1>2 DEF Producer

LEMMA WorkerChan ==
    ASSUME TypeOK, ChanInv, NEW w \in Workers, Worker(w)
    PROVE  ChanInv'
<1> USE DEF ChanInv
<1>1. ASSUME msgChan # <<>>, msgChan' = Tail(msgChan), UNCHANGED <<pos, checked>>,
             IF Head(msgChan).kind = "init"
             THEN IF Head(msgChan).to = XSet THEN xReady' = TRUE /\ UNCHANGED freqReady
                  ELSE freqReady' = TRUE /\ UNCHANGED xReady
             ELSE UNCHANGED <<xReady, freqReady>>
      PROVE  ChanInv'
  <2>1. PICK p \in Producers : \E n \in 1 .. NumCalls(p) :
               /\ Head(msgChan) = Call(p, n) /\ n \in 1 .. pos[p] /\ Queued(p, n)
               /\ IsInjective(msgChan')
               /\ ~Queued(p, n)'
               /\ \A q \in Producers, m \in Nat : Queued(q, m)' => Queued(q, m)
    BY <1>1, Received
  <2>2. PICK n \in 1 .. NumCalls(p) :
               /\ Head(msgChan) = Call(p, n) /\ n \in 1 .. pos[p] /\ Queued(p, n)
               /\ IsInjective(msgChan')
               /\ ~Queued(p, n)'
               /\ \A q \in Producers, m \in Nat : Queued(q, m)' => Queued(q, m)
    BY <2>1
  <2>3. IF n = 1 THEN IsReady(p)' /\ \A q \in Producers : q # p => IsReady(q)' = IsReady(q)
                 ELSE \A q \in Producers : IsReady(q)' = IsReady(q)
    BY <1>1, <2>2, CallIs DEF IsReady, Producers, XSet
  <2>4. \A q \in Producers : IsReady(q) => IsReady(q)'
    BY <2>3
  <2>5. \A q \in Producers : Queued(q, 1)' => ~IsReady(q)'
    BY <2>2, <2>3
  <2>6. \A q \in Producers : IsReady(q)' => pos[q] > 0
    <3>1. pos[p] \in Nat
      BY DEF TypeOK
    <3> QED
      BY <2>2, <2>3, <3>1
  <2> QED
    BY <1>1, <2>2, <2>4, <2>5, <2>6
<1>2. ASSUME UNCHANGED <<msgChan, pos, checked, xReady, freqReady>> PROVE ChanInv'
  <2>1. \A p : IsReady(p)' = IsReady(p)
    BY <1>2 DEF IsReady
  <2>2. \A p, n : Queued(p, n)' = Queued(p, n)
    BY <1>2 DEF Queued, Call
  <2> QED
    BY <1>2, <2>1, <2>2
<1>3. CASE WInit(w)
  BY <1>1, <1>3 DEF WInit
<1>4. CASE WRecv(w)
  BY <1>1, <1>4 DEF WRecv, readyVars
<1>5. CASE (\E item \in Items : WAddRead(w, item)) \/ WAddWrite(w) \/ WXSetCount(w)
           \/ WXSetCheck(w)
  BY <1>2, <1>5 DEF WAddRead, WAddWrite, WXSetCount, WXSetCheck, chanVars, readyVars
<1>6. CASE WFreqCheck(w) \/ WFreqSend(w) \/ WEnd(w)
  BY <1>2, <1>6 DEF WFreqCheck, WFreqSend, WEnd, chanVars, readyVars
<1> QED
  BY <1>3, <1>4, <1>5, <1>6 DEF Worker
----------------------------------------------------------------------------
(***************************************************************************)
(* The worker and the X-set filter                                         *)
(***************************************************************************)

\* Items are added only to a filter that exists.
LEMMA AddsToReady ==
    ASSUME TypeOK, ChanInv, msgChan # <<>>, Head(msgChan).kind = "add"
    PROVE  IF Head(msgChan).to = XSet THEN xReady ELSE freqReady
<1>1. Head(msgChan) \in Messages /\ Head(msgChan) \in Range(msgChan)
  BY TailQueue DEF TypeOK
<1>2. PICK p \in Producers : \E n \in 1 .. NumCalls(p) : Head(msgChan) = Call(p, n)
  BY <1>1, MessageIs
<1>3. PICK n \in 1 .. NumCalls(p) : Head(msgChan) = Call(p, n)
  BY <1>2
<1>4. n # 1 /\ n \in 1 .. pos[p]
  BY <1>1, <1>3, CallIs DEF ChanInv, Queued
<1>5. IsReady(p)
  BY <1>4 DEF ChanInv, TypeOK
<1>6. CASE p = XSet
  BY <1>3, <1>4, <1>5, <1>6, CallIs DEF IsReady
<1>7. CASE p # XSet
  <2>1. Head(msgChan).to = FreqAdds[n - 1].bucket /\ n - 1 \in DOMAIN FreqAdds
    BY <1>3, <1>4, <1>7, CallIs
  <2>2. Head(msgChan).to # XSet
    BY <2>1, AddsType, FilterAssumption
  <2> QED
    BY <1>5, <1>7, <2>2 DEF IsReady
<1> QED
  BY <1>6, <1>7

LEMMA NextWorkerInv ==
    ASSUME TypeOK, ChanInv, NEW w \in Workers, WorkerInv(w), Worker(w)
    PROVE  WorkerInv(w)'
<1> USE DEF WorkerInv, TypeOK
<1>1. CASE WInit(w)
  BY <1>1 DEF WInit, workerVars
<1>2. CASE WRecv(w)
  <2>1. /\ wPc'[w] = "add" /\ wItem' = wItem /\ wPc[w] = "recv"
        /\ wTo'[w] = Head(msgChan).to /\ xReady' = xReady /\ freqReady' = freqReady
    BY <1>2 DEF WRecv, readyVars
  <2>2. IF wTo'[w] = XSet THEN xReady ELSE freqReady
    BY <1>2, <2>1, AddsToReady DEF WRecv
  <2> QED
    BY <2>1, <2>2
<1>3. ASSUME NEW item \in Items, WAddRead(w, item) PROVE WorkerInv(w)'
  <2>1. /\ wPc'[w] = "write" /\ wItem'[w] = {item} /\ wTodo'[w] = wTodo[w] \ {item}
        /\ wRead'[w] = filter'[wTo'[w]] /\ wPc[w] = "add"
        /\ UNCHANGED <<wTo, xReady, freqReady>>
    BY <1>3 DEF WAddRead, readyVars
  <2> QED
    BY <2>1
<1>4. CASE WAddWrite(w) \/ WXSetCount(w)
  <2>1. /\ wPc'[w] = (IF WAddWrite(w) /\ wTo[w] = XSet THEN "count" ELSE "add")
        /\ wItem'[w] = {} /\ wPc[w] \in {"write", "count"}
        /\ UNCHANGED <<wTo, xReady, freqReady>>
    BY <1>4 DEF WAddWrite, WXSetCount, readyVars
  <2> QED
    BY <2>1
<1>5. CASE WXSetCheck(w)
  <2>1. wPc'[w] = "recv" /\ wTodo'[w] = {} /\ wItem' = wItem /\ wPc[w] = "add"
    BY <1>5 DEF WXSetCheck
  <2> QED
    BY <2>1
<1>6. CASE WFreqCheck(w)
  <2>1. /\ wPc'[w] \in {"send", "recv"} /\ wTodo'[w] = {} /\ wItem' = wItem /\ wPc[w] = "add"
        /\ UNCHANGED <<wTo, xReady, freqReady>>
    BY <1>6 DEF WFreqCheck, readyVars
  <2> QED
    BY <2>1
<1>7. CASE WFreqSend(w)
  <2>1. wPc'[w] = "recv" /\ wTodo' = wTodo /\ wItem' = wItem /\ wPc[w] = "send"
    BY <1>7 DEF WFreqSend
  <2> QED
    BY <2>1
<1>8. CASE WEnd(w)
  <2>1. wPc'[w] = "done" /\ wTodo' = wTodo /\ wItem' = wItem /\ wPc[w] = "recv"
    BY <1>8 DEF WEnd
  <2> QED
    BY <2>1
<1> QED
  BY <1>1, <1>2, <1>3, <1>4, <1>5, <1>6, <1>7, <1>8 DEF Worker

\* A set of items has a number of elements, and one more with one more item.
LEMMA ItemsCount ==
    ASSUME NEW S \in SUBSET Items
    PROVE  Cardinality(S) \in Nat
BY FilterAssumption, FS_Subset, FS_CardinalityType

LEMMA AddItem ==
    ASSUME NEW S \in SUBSET Items, NEW item \in Items, item \notin S
    PROVE  Cardinality(S \cup {item}) = Cardinality(S) + 1
BY FilterAssumption, FS_Subset, FS_AddElement

\* A set of items that is part of another and not smaller is all of it.
LEMMA AllItems ==
    ASSUME NEW S \in SUBSET Items, NEW T \in SUBSET S, Cardinality(S) <= Cardinality(T)
    PROVE  T = S
<1>1. IsFiniteSet(S) /\ IsFiniteSet(T)
  BY FilterAssumption, FS_Subset
<1>2. /\ Cardinality(T) <= Cardinality(S)
      /\ Cardinality(S) = Cardinality(T) => S = T
  BY <1>1, FS_Subset
<1>3. Cardinality(S) \in Nat /\ Cardinality(T) \in Nat
  BY <1>1, FS_CardinalityType
<1> QED
  BY <1>2, <1>3

\* Add, when nobody else writes the filter: the item moves into it.
LEMMA AddIs ==
    ASSUME TypeOK, NEW w \in Workers, WorkerInv(w), WAddWrite(w)
    PROVE  \E item \in Items :
              /\ wItem[w] = {item} /\ item \notin wTodo[w] /\ wItem'[w] = {}
              /\ wTodo'[w] = wTodo[w] /\ wTo'[w] = wTo[w]
              /\ filter'[wTo[w]] = filter[wTo[w]] \cup {item}
              /\ \A f \in Filters : f # wTo[w] => filter'[f] = filter[f]
              /\ wPc[w] = "write" /\ wNum'[w] = wNum[w] + 1
              /\ wPc'[w] = IF wTo[w] = XSet THEN "count" ELSE "add"
<1>1. wPc[w] = "write"
  BY DEF WAddWrite
<1>2. PICK item \in Items \ wTodo[w] : wItem[w] = {item}
  BY <1>1 DEF WorkerInv
<1>3. wRead[w] = filter[wTo[w]]
  BY <1>1 DEF WorkerInv
<1>4. filter' = [filter EXCEPT ![wTo[w]] = filter[wTo[w]] \cup wItem[w]]
  BY <1>3 DEF WAddWrite
<1>5. wTo[w] \in Filters /\ filter \in [Filters -> SUBSET Items]
  BY DEF TypeOK
<1>6. /\ filter'[wTo[w]] = filter[wTo[w]] \cup {item}
      /\ \A f \in Filters : f # wTo[w] => filter'[f] = filter[f]
  BY <1>2, <1>4, <1>5
<1>7. /\ wItem'[w] = {} /\ wTodo'[w] = wTodo[w] /\ wTo'[w] = wTo[w]
      /\ wPc'[w] = (IF wTo[w] = XSet THEN "count" ELSE "add") /\ wNum'[w] = wNum[w] + 1
  BY DEF WAddWrite, TypeOK
<1> QED
  BY <1>1, <1>2, <1>6, <1>7

\* A step that leaves the X-set filter and what goes into it alone.
LEMMA XUnchanged ==
    ASSUME NEW w, XInv(w), UNCHANGED <<pos, msgChan, filter, xAdded, wTo, wTodo, wItem,
                                       xFinished, xReady>>,
           Pending(w)' = Pending(w)
    PROVE  XInv(w)'
<1>1. PICK done \in SUBSET DOMAIN XAdds : XDone(w, done)
  BY DEF XInv
<1>2. \A q, n : Queued(q, n)' = Queued(q, n)
  BY DEF Queued, Call
<1>3. XDone(w, done)'
  BY <1>1, <1>2 DEF XDone, Left
<1> QED
  BY <1>3 DEF XInv

LEMMA ProducerX ==
    ASSUME TypeOK, NEW w \in Workers, XInv(w), NEW p \in Producers, Producer(p)
    PROVE  XInv(w)'
<1>1. PICK done \in SUBSET DOMAIN XAdds : XDone(w, done)
  BY DEF XInv
<1>2. UNCHANGED <<filter, xAdded, wTo, wTodo, wItem, xFinished, xReady>> /\ Pending(w)' = Pending(w)
  BY DEF Producer, CallCheck, CallSend, readyVars, workerVars, Pending
<1>3. /\ \A q \in Producers : pos[q] \in Nat /\ pos'[q] \in Nat /\ pos[q] <= pos'[q]
      /\ \A n \in DOMAIN XAdds : n \in Nat
  <2>1. pos' = pos \/ pos' = [pos EXCEPT ![p] = @ + 1]
    BY DEF Producer, CallCheck, CallSend
  <2>2. \A q \in Producers : pos[q] \in Nat /\ (pos'[q] = pos[q] \/ pos'[q] = pos[q] + 1)
    BY <2>1 DEF TypeOK
  <2>3. \A n \in DOMAIN XAdds : n \in Nat
    BY XAddsAssumption
  <2> QED
    BY <2>2, <2>3
<1>4. ASSUME NEW n \in done PROVE n + 1 <= pos'[XSet] /\ ~Queued(XSet, n + 1)'
  <2>1. n + 1 <= pos[XSet] /\ ~Queued(XSet, n + 1)
    BY <1>1 DEF XDone
  <2>2. XSet \in Producers /\ n \in Nat
    BY <1>3 DEF Producers
  <2>3. CASE CallCheck(p)
    <3>1. Queued(XSet, n + 1)' = Queued(XSet, n + 1)
      BY <2>3 DEF CallCheck, Queued, Call
    <3> QED
      BY <1>3, <2>1, <2>2, <3>1
  <2>4. CASE CallSend(p)
    <3>1. Queued(XSet, n + 1)' <=> Queued(XSet, n + 1) \/ (XSet = p /\ n + 1 = pos[p] + 1)
      BY <2>4, Made
    <3> QED
      BY <1>3, <2>1, <2>2, <3>1
  <2> QED
    BY <2>3, <2>4 DEF Producer
<1>5. XDone(w, done)'
  BY <1>1, <1>2, <1>4 DEF XDone, Left
<1> QED
  BY <1>2, <1>5 DEF XInv

\* The X-set filter is created before anything is added to it.
LEMMA InitX ==
    ASSUME TypeOK, ChanInv, NEW w \in Workers, WorkerInv(w), XInv(w), WInit(w)
    PROVE  XInv(w)'
<1>1. PICK done \in SUBSET DOMAIN XAdds : XDone(w, done)
  BY DEF XInv
<1>2. /\ msgChan # <<>> /\ msgChan' = Tail(msgChan) /\ wPc[w] = "recv"
      /\ UNCHANGED <<pos, xAdded, wTo, wTodo, wItem, xFinished>>
      /\ Pending(w) = 0 /\ Pending(w)' = 0
  BY DEF WInit, workerVars, Pending
<1>3. PICK p \in Producers : \E n \in 1 .. NumCalls(p) :
             /\ Head(msgChan) = Call(p, n) /\ n \in 1 .. pos[p] /\ Queued(p, n)
             /\ \A q \in Producers, m \in Nat : Queued(q, m)' => Queued(q, m)
  BY <1>2, Received
<1>4. PICK n \in 1 .. NumCalls(p) :
             /\ Head(msgChan) = Call(p, n) /\ n \in 1 .. pos[p] /\ Queued(p, n)
             /\ \A q \in Producers, m \in Nat : Queued(q, m)' => Queued(q, m)
  BY <1>3
<1>5. n = 1 /\ Head(msgChan).to = p
  BY <1>4, CallIs DEF WInit
<1>6. Left(w, XSet) = {} /\ Left(w, XSet)' = {}
  BY <1>2 DEF WorkerInv, Left
<1>7. CASE p = XSet
  <2>1. ~xReady /\ pos[XSet] \in Nat /\ ~(pos[XSet] > 1)
    BY <1>4, <1>5, <1>7 DEF ChanInv, IsReady, TypeOK
  <2>2. \A m \in DOMAIN XAdds : m \in Nat /\ m # 0
    BY XAddsAssumption
  <2>3. done = {}
    BY <1>1, <2>1, <2>2 DEF XDone
  <2>4. filter[XSet] = {} /\ xAdded + Pending(w) = Cardinality(filter[XSet])
    BY <1>1, <1>6, <2>3 DEF XDone, XAddsDone
  <2>5. filter'[XSet] = {}
    BY <1>5, <1>7 DEF WInit, TypeOK, Filters
  <2>6. ~xFinished
    BY <2>1 DEF XInv
  <2>7. XDone(w, {})'
    BY <1>2, <1>6, <2>4, <2>5 DEF XDone, XAddsDone
  <2> QED
    BY <1>2, <2>6, <2>7 DEF XInv
<1>8. CASE p # XSet
  <2>1. filter'[XSet] = filter[XSet] /\ xReady' = xReady
    BY <1>5, <1>8 DEF WInit, Filters
  <2>2. \A m \in done : m + 1 \in Nat /\ XSet \in Producers
    BY XAddsAssumption DEF Producers
  <2>3. XDone(w, done)'
    BY <1>1, <1>2, <1>4, <1>6, <2>1, <2>2 DEF XDone
  <2> QED
    BY <1>2, <2>1, <2>3 DEF XInv
<1> QED
  BY <1>7, <1>8

\* A message's xTags are not among those of the calls before.
LEMMA RecvX ==
    ASSUME TypeOK, ChanInv, NEW w \in Workers, WorkerInv(w), XInv(w), WRecv(w)
    PROVE  XInv(w)'
<1>1. PICK done \in SUBSET DOMAIN XAdds : XDone(w, done)
  BY DEF XInv
<1>2. /\ msgChan # <<>> /\ msgChan' = Tail(msgChan) /\ wPc[w] = "recv"
      /\ UNCHANGED <<pos, filter, xAdded, wItem, xFinished, xReady>>
      /\ wTo'[w] = Head(msgChan).to /\ wTodo'[w] = Head(msgChan).items
      /\ Pending(w)' = Pending(w)
  BY DEF WRecv, readyVars, TypeOK, Pending
<1>3. PICK p \in Producers : \E n \in 1 .. NumCalls(p) :
             /\ Head(msgChan) = Call(p, n) /\ n \in 1 .. pos[p] /\ Queued(p, n)
             /\ ~Queued(p, n)'
             /\ \A q \in Producers, m \in Nat : Queued(q, m)' => Queued(q, m)
  BY <1>2, Received
<1>4. PICK n \in 1 .. NumCalls(p) :
             /\ Head(msgChan) = Call(p, n) /\ n \in 1 .. pos[p] /\ Queued(p, n)
             /\ ~Queued(p, n)'
             /\ \A q \in Producers, m \in Nat : Queued(q, m)' => Queued(q, m)
  BY <1>3
<1>5. n # 1
  BY <1>4, CallIs DEF WRecv
<1>6. Left(w, XSet) = {} /\ wItem'[w] = {}
  BY <1>2 DEF WorkerInv, Left
<1>7. \A m \in done : m + 1 \in Nat /\ XSet \in Producers
  BY XAddsAssumption DEF Producers
<1>8. \A m \in done : m + 1 <= pos'[XSet] /\ ~Queued(XSet, m + 1)'
  BY <1>1, <1>2, <1>4, <1>7 DEF XDone
<1>9. CASE p = XSet
  <2> DEFINE k == n - 1
  <2>1. /\ k \in DOMAIN XAdds /\ k + 1 = n
        /\ wTo'[w] = XSet /\ wTodo'[w] = XAdds[k]
    BY <1>2, <1>4, <1>5, <1>9, CallIs
  <2>2. k \notin done
    BY <1>1, <1>4, <1>9, <2>1 DEF XDone
  <2> HIDE DEF k
  <2>3. Left(w, XSet)' = XAdds[k]
    BY <1>6, <2>1 DEF Left
  <2>4. filter[XSet] = XAddsDone(done)
    BY <1>1, <1>6 DEF XDone
  <2>5. XAddsDone(done \cup {k}) = XAddsDone(done) \cup XAdds[k]
    BY DEF XAddsDone
  <2>6. XAddsDone(done) \cap XAdds[k] = {}
    BY <2>1, <2>2, XTagsAssumption DEF XAddsDone
  <2>7. \A m \in done \cup {k} : m + 1 <= pos'[XSet] /\ ~Queued(XSet, m + 1)'
    BY <1>2, <1>4, <1>8, <1>9, <2>1
  <2>8. XDone(w, done \cup {k})'
    BY <1>1, <1>2, <2>3, <2>4, <2>5, <2>6, <2>7 DEF XDone, XAddsDone
  <2> QED
    BY <1>2, <2>1, <2>8 DEF XInv
<1>10. CASE p # XSet
  <2>1. wTo'[w] \in Buckets
    <3>1. wTo'[w] = FreqAdds[n - 1].bucket /\ n - 1 \in DOMAIN FreqAdds
      BY <1>2, <1>4, <1>5, <1>10, CallIs
    <3> QED
      BY <3>1, AddsType
  <2>2. Left(w, XSet)' = {}
    BY <2>1, FilterAssumption DEF Left
  <2>3. XDone(w, done)'
    BY <1>1, <1>2, <1>6, <1>8, <2>2 DEF XDone
  <2> QED
    BY <1>2, <2>3 DEF XInv
<1> QED
  BY <1>9, <1>10

LEMMA AddX ==
    ASSUME TypeOK, NEW w \in Workers, WorkerInv(w), XInv(w),
           (\E item \in Items : WAddRead(w, item)) \/ WAddWrite(w) \/ WXSetCount(w)
    PROVE  XInv(w)'
<1>1. PICK done \in SUBSET DOMAIN XAdds : XDone(w, done)
  BY DEF XInv
<1>2. UNCHANGED <<pos, msgChan, xFinished, xReady>>
  BY DEF WAddRead, WAddWrite, WXSetCount, chanVars, readyVars
<1>3. \A q, n : Queued(q, n)' = Queued(q, n)
  BY <1>2 DEF Queued, Call
<1>4. ASSUME NEW item \in Items, WAddRead(w, item) PROVE XInv(w)'
  <2>1. /\ UNCHANGED <<filter, xAdded, wTo>> /\ item \in wTodo[w] /\ wItem[w] = {}
        /\ wTodo'[w] = wTodo[w] \ {item} /\ wItem'[w] = {item}
        /\ Pending(w)' = Pending(w)
    BY <1>4 DEF WAddRead, WorkerInv, TypeOK, Pending
  <2>2. Left(w, XSet)' = Left(w, XSet)
    BY <2>1 DEF Left
  <2>3. XDone(w, done)'
    BY <1>1, <1>2, <1>3, <2>1, <2>2 DEF XDone
  <2> QED
    BY <1>2, <2>1, <2>3 DEF XInv
<1>5. CASE WAddWrite(w)
  <2>1. PICK item \in Items :
              /\ wItem[w] = {item} /\ item \notin wTodo[w] /\ wItem'[w] = {}
              /\ wTodo'[w] = wTodo[w] /\ wTo'[w] = wTo[w]
              /\ filter'[wTo[w]] = filter[wTo[w]] \cup {item}
              /\ \A f \in Filters : f # wTo[w] => filter'[f] = filter[f]
              /\ Pending(w) = 0 /\ Pending(w)' = IF wTo[w] = XSet THEN 1 ELSE 0
    BY <1>5, AddIs DEF Pending
  <2>2. CASE wTo[w] = XSet
    <3>1. /\ item \in Left(w, XSet) /\ Left(w, XSet)' = Left(w, XSet) \ {item}
          /\ filter'[XSet] = filter[XSet] \cup {item}
      BY <2>1, <2>2 DEF Left
    <3>2. item \notin filter[XSet] /\ filter[XSet] \in SUBSET Items
      BY <1>1, <3>1 DEF XDone, TypeOK, Filters
    <3>3. xAdded' + Pending(w)' = Cardinality(filter'[XSet])
      <4>1. xAdded' = xAdded /\ Pending(w)' = 1
        BY <1>5, <2>1, <2>2 DEF WAddWrite
      <4>2. xAdded + 0 = Cardinality(filter[XSet])
        BY <1>1, <2>1 DEF XDone
      <4>3. xAdded \in Nat
        BY DEF TypeOK
      <4>4. Cardinality(filter'[XSet]) = Cardinality(filter[XSet]) + 1
        BY <3>1, <3>2, AddItem
      <4> QED
        BY <4>1, <4>2, <4>3, <4>4
    <3>4. XDone(w, done)'
      BY <1>1, <1>2, <1>3, <3>1, <3>2, <3>3 DEF XDone
    <3>5. ~xFinished
      <4>1. item \in XAddsDone(done)
        BY <1>1, <3>1 DEF XDone
      <4>2. item \in AllXTags
        BY <4>1 DEF XAddsDone, AllXTags
      <4> QED
        BY <3>2, <4>2 DEF XInv
    <3> QED
      BY <1>2, <3>4, <3>5 DEF XInv
  <2>3. CASE wTo[w] # XSet
    <3>1. Left(w, XSet)' = Left(w, XSet) /\ filter'[XSet] = filter[XSet] /\ xAdded' = xAdded
          /\ Pending(w)' = Pending(w)
      BY <1>5, <2>1, <2>3 DEF Left, Filters, WAddWrite
    <3>2. XDone(w, done)'
      BY <1>1, <1>2, <1>3, <3>1 DEF XDone
    <3> QED
      BY <1>2, <3>1, <3>2 DEF XInv
  <2> QED
    BY <2>2, <2>3
<1>6. CASE WXSetCount(w)
  <2>1. /\ UNCHANGED <<filter, wTo, wTodo, wItem>> /\ xAdded' = xAdded + 1
        /\ Pending(w) = 1 /\ Pending(w)' = 0
    BY <1>6 DEF WXSetCount, Pending, TypeOK
  <2>2. xAdded + 1 = Cardinality(filter[XSet]) /\ Cardinality(filter[XSet]) \in Nat
    BY <1>1, <2>1, ItemsCount DEF XDone, TypeOK, Filters
  <2>3. XDone(w, done)'
    BY <1>1, <1>2, <1>3, <2>1, <2>2 DEF XDone, Left
  <2> QED
    BY <1>2, <2>1, <2>3 DEF XInv
<1> QED
  BY <1>4, <1>5, <1>6

\* The uploader is signalled when the count says so, and then the filter has
\* all the xTags.
LEMMA CheckX ==
    ASSUME TypeOK, ChanInv, NEW w \in Workers, WorkerInv(w), XInv(w), WXSetCheck(w)
    PROVE  XInv(w)'
<1>1. PICK done \in SUBSET DOMAIN XAdds : XDone(w, done)
  BY DEF XInv
<1>2. /\ UNCHANGED <<pos, msgChan, filter, xAdded, wTo, wTodo, wItem, xReady>>
      /\ wPc[w] = "add" /\ wTodo[w] = {} /\ xFinished' = (xFinished \/ xAdded = XSize)
      /\ xReady /\ Pending(w) = 0 /\ Pending(w)' = 0
  BY DEF WXSetCheck, chanVars, WorkerInv, Pending, TypeOK
<1>3. XDone(w, done)'
  BY <1>1, <1>2 DEF XDone, Left, Queued, Call
<1>4. ASSUME xAdded = XSize PROVE filter[XSet] = AllXTags
  <2>1. Left(w, XSet) = {}
    BY <1>2 DEF Left, WorkerInv
  <2>2. filter[XSet] \subseteq AllXTags
    BY <1>1, <2>1 DEF XDone, XAddsDone, AllXTags
  <2>3. AllXTags \in SUBSET Items
    BY AddsType DEF AllXTags
  <2>4. Cardinality(AllXTags) <= Cardinality(filter[XSet])
    BY <1>1, <1>2, <1>4, XTagsAssumption, XSizeAssumption DEF XDone
  <2> QED
    BY <2>2, <2>3, <2>4, AllItems
<1> QED
  BY <1>2, <1>3, <1>4 DEF XInv

LEMMA WorkerX ==
    ASSUME TypeOK, ChanInv, NEW w \in Workers, WorkerInv(w), XInv(w), Worker(w)
    PROVE  XInv(w)'
<1>1. CASE WFreqCheck(w) \/ WFreqSend(w) \/ WEnd(w)
  <2>1. Pending(w)' = Pending(w)
    BY <1>1 DEF WFreqCheck, WFreqSend, WEnd, Pending, TypeOK
  <2> QED
    BY <1>1, <2>1, XUnchanged DEF WFreqCheck, WFreqSend, WEnd, chanVars, readyVars
<1> QED
  BY <1>1, InitX, RecvX, AddX, CheckX DEF Worker
----------------------------------------------------------------------------
(***************************************************************************)
(* The frequency filters                                                   *)
(***************************************************************************)

\* What is known of a call that was received stays so.
LEMMA ReceivedCalls ==
    ASSUME TypeOK, ChanInv, NEW w \in Workers,
           (\E p \in Producers : Producer(p)) \/ Worker(w)
    PROVE  \A n \in DOMAIN FreqAdds : n + 1 <= pos["freq"] /\ ~Queued("freq", n + 1) =>
               n + 1 <= pos'["freq"] /\ ~Queued("freq", n + 1)'
<1> SUFFICES ASSUME NEW n \in DOMAIN FreqAdds,
                    n + 1 <= pos["freq"], ~Queued("freq", n + 1)
             PROVE  n + 1 <= pos'["freq"] /\ ~Queued("freq", n + 1)'
  OBVIOUS
<1>1. n + 1 \in Nat /\ "freq" \in Producers /\ pos["freq"] \in Nat
  BY FreqAddsAssumption DEF Producers, TypeOK
<1>2. ASSUME NEW p \in Producers, CallCheck(p)
      PROVE  n + 1 <= pos'["freq"] /\ ~Queued("freq", n + 1)'
  <2>1. pos'["freq"] \in {pos["freq"], pos["freq"] + 1} /\ msgChan' = msgChan
    BY <1>1, <1>2 DEF CallCheck, TypeOK
  <2> QED
    BY <1>1, <2>1 DEF Queued, Call
<1>3. ASSUME NEW p \in Producers, CallSend(p)
      PROVE  n + 1 <= pos'["freq"] /\ ~Queued("freq", n + 1)'
  <2>1. /\ pos'["freq"] \in {pos["freq"], pos["freq"] + 1}
        /\ "freq" = p => n + 1 # pos[p] + 1
    BY <1>1, <1>3 DEF CallSend, TypeOK
  <2>2. ~Queued("freq", n + 1)'
    BY <1>3, <2>1, Made
  <2> QED
    BY <1>1, <2>1, <2>2
<1>4. CASE Worker(w)
  <2>1. pos' = pos /\ (msgChan' = msgChan \/ (msgChan # <<>> /\ msgChan' = Tail(msgChan)))
    BY <1>4 DEF Worker, WInit, WRecv, WAddRead, WAddWrite, WXSetCount, WXSetCheck, WFreqCheck,
                WFreqSend,
                WEnd, chanVars
  <2>2. Queued("freq", n + 1)' => Queued("freq", n + 1)
    <3>1. CASE msgChan' = msgChan
      BY <3>1 DEF Queued, Call
    <3>2. CASE msgChan # <<>> /\ msgChan' = Tail(msgChan)
      BY <1>1, <3>2, Received
    <3> QED
      BY <2>1, <3>1, <3>2
  <2> QED
    BY <2>1, <2>2
<1> QED
  BY <1>2, <1>3, <1>4 DEF Producer

\* A step after which each bucket has what it had, and none is sent.
LEMMA FreqUnchanged ==
    ASSUME NEW w, FreqInv(w), freqReady => freqReady',
           \A n \in DOMAIN FreqAdds : n + 1 <= pos["freq"] /\ ~Queued("freq", n + 1) =>
               n + 1 <= pos'["freq"] /\ ~Queued("freq", n + 1)',
           Adding(w)' => Adding(w) /\ wTo'[w] = wTo[w],
           \A b \in Buckets :
               /\ filter'[b] = filter[b] /\ current'[b] = current[b]
               /\ Left(w, b)' = Left(w, b) /\ Uncounted(w, b)' = Uncounted(w, b)
               /\ Sent(w, b)' => /\ Sent(w, b)
                                 /\ wTo'[w] = b => wPc'[w] \notin {"add", "write"}
    PROVE  FreqInv(w)'
<1>1. PICK done \in SUBSET DOMAIN FreqAdds : FreqDone(w, done) /\ FullInv(w, done)
  BY DEF FreqInv
<1>2. FreqDone(w, done)'
  BY <1>1 DEF FreqDone, WordsDone
<1>3. FullInv(w, done)'
  BY <1>1 DEF FullInv, AllWords
<1> QED
  BY <1>2, <1>3 DEF FreqInv

LEMMA ProducerF ==
    ASSUME TypeOK, ChanInv, NEW w \in Workers, FreqInv(w), NEW p \in Producers, Producer(p)
    PROVE  FreqInv(w)'
<1>1. UNCHANGED <<filter, current, freqReady, wTo, wTodo, wItem, wNum, wPc, disk, finished>>
  BY DEF Producer, CallCheck, CallSend, readyVars, workerVars, freqVars, saverVars
<1>2. \A b \in Buckets :
          /\ Left(w, b)' = Left(w, b) /\ Uncounted(w, b)' = Uncounted(w, b)
          /\ Sent(w, b)' <=> Sent(w, b)
  BY <1>1 DEF Left, Uncounted, Sent, InFinished
<1>3. \A b \in Buckets : Sent(w, b) => (wTo[w] = b => wPc[w] \notin {"add", "write"})
  BY DEF FreqInv, FullInv
<1>4. Adding(w)' => Adding(w)
  BY <1>1 DEF Adding
<1> QED
  BY <1>1, <1>2, <1>3, <1>4, ReceivedCalls, FreqUnchanged
\* The frequency filters are created before anything is added to them.
LEMMA InitF ==
    ASSUME TypeOK, ChanInv, NEW w \in Workers, WorkerInv(w), FreqInv(w), WInit(w)
    PROVE  FreqInv(w)'
<1>1. PICK done \in SUBSET DOMAIN FreqAdds : FreqDone(w, done) /\ FullInv(w, done)
  BY DEF FreqInv
<1>2. /\ msgChan # <<>> /\ msgChan' = Tail(msgChan) /\ wPc[w] = "recv"
      /\ UNCHANGED <<current, wTo, wTodo, wItem, wNum, wPc, disk, finished>>
  BY DEF WInit, workerVars, freqVars, saverVars
<1>3. PICK p \in Producers : \E n \in 1 .. NumCalls(p) :
             Head(msgChan) = Call(p, n) /\ n \in 1 .. pos[p] /\ Queued(p, n)
  BY <1>2, Received
<1>4. PICK n \in 1 .. NumCalls(p) :
             Head(msgChan) = Call(p, n) /\ n \in 1 .. pos[p] /\ Queued(p, n)
  BY <1>3
<1>5. n = 1 /\ Head(msgChan).to = p
  BY <1>4, CallIs DEF WInit
<1>6. \A b \in Buckets : Left(w, b) = {} /\ Left(w, b)' = {}
  BY <1>2 DEF WorkerInv, Left
<1>7. \A b \in Buckets :
          /\ Uncounted(w, b)' = Uncounted(w, b)
          /\ Sent(w, b)' <=> Sent(w, b)
          /\ wPc'[w] \notin {"add", "write"}
  BY <1>2 DEF Uncounted, Sent, InFinished
<1>8. ASSUME NEW b \in Buckets PROVE filter'[b] = filter[b]
  <2>1. CASE p = XSet
    BY <1>5, <2>1, FilterAssumption DEF WInit, TypeOK, Filters
  <2>2. CASE p # XSet
    <3>1. p = "freq" /\ ~freqReady /\ pos[p] \in Nat /\ ~(pos[p] > 1)
      BY <1>4, <1>5, <2>2 DEF ChanInv, IsReady, Producers, TypeOK
    <3>2. \A m \in DOMAIN FreqAdds : m \in Nat /\ m # 0
      BY FreqAddsAssumption
    <3>3. done = {}
      BY <1>1, <3>1, <3>2 DEF FreqDone
    <3>4. filter[b] = {}
      BY <1>1, <1>6, <3>3 DEF FreqDone, WordsDone
    <3>5. filter'[b] = {}
      BY <1>5, <2>2, FilterAssumption DEF WInit, Filters
    <3> QED
      BY <3>4, <3>5
  <2> QED
    BY <2>1, <2>2
<1>9. Worker(w) /\ (freqReady => freqReady') /\ ~Adding(w)'
  BY <1>2 DEF WInit, Worker, Adding
<1> QED
  BY <1>2, <1>6, <1>7, <1>8, <1>9, ReceivedCalls, FreqUnchanged

\* A message's words are not among those of the calls before, and its bucket
\* has not been sent.
LEMMA RecvF ==
    ASSUME TypeOK, ChanInv, NEW w \in Workers, WorkerInv(w), FreqInv(w), WRecv(w)
    PROVE  FreqInv(w)'
<1>1. PICK done \in SUBSET DOMAIN FreqAdds : FreqDone(w, done) /\ FullInv(w, done)
  BY DEF FreqInv
<1>2. /\ msgChan # <<>> /\ msgChan' = Tail(msgChan) /\ wPc[w] = "recv"
      /\ UNCHANGED <<pos, filter, current, wItem, freqReady, disk, finished>>
      /\ wTo'[w] = Head(msgChan).to /\ wTodo'[w] = Head(msgChan).items
      /\ wNum'[w] = 0 /\ wPc'[w] = "add"
  BY DEF WRecv, readyVars, freqVars, saverVars, TypeOK
<1>3. PICK p \in Producers : \E n \in 1 .. NumCalls(p) :
             /\ Head(msgChan) = Call(p, n) /\ n \in 1 .. pos[p] /\ Queued(p, n)
             /\ ~Queued(p, n)'
  BY <1>2, Received
<1>4. PICK n \in 1 .. NumCalls(p) :
             /\ Head(msgChan) = Call(p, n) /\ n \in 1 .. pos[p] /\ Queued(p, n)
             /\ ~Queued(p, n)'
  BY <1>3
<1>5. n # 1
  BY <1>4, CallIs DEF WRecv
<1>6. /\ \A b \in Buckets : Left(w, b) = {} /\ Uncounted(w, b) = 0
      /\ wItem'[w] = {}
  BY <1>2 DEF WorkerInv, Left, Uncounted
<1>7. \A b \in Buckets : Uncounted(w, b)' = 0 /\ (Sent(w, b)' => Sent(w, b))
  BY <1>2 DEF Uncounted, Sent, InFinished
<1>8. Worker(w)
  BY DEF Worker
<1>9. CASE p = XSet
  <2>1. wTo'[w] = XSet
    BY <1>2, <1>4, <1>5, <1>9, CallIs
  <2>2. ~Adding(w)' /\ \A b \in Buckets : Left(w, b)' = {} /\ wTo'[w] # b
    BY <2>1, FilterAssumption DEF Left, Adding
  <2> QED
    BY <1>2, <1>6, <1>7, <1>8, <2>2, ReceivedCalls, FreqUnchanged
<1>10. CASE p # XSet
  <2> DEFINE k == n - 1
  <2>1. /\ k \in DOMAIN FreqAdds /\ k + 1 = n /\ p = "freq"
        /\ wTo'[w] = FreqAdds[k].bucket /\ wTodo'[w] = FreqAdds[k].items
    BY <1>2, <1>4, <1>5, <1>10, CallIs DEF Producers
  <2>2. k \notin done
    BY <1>1, <1>4, <2>1 DEF FreqDone
  <2> HIDE DEF k
  <2>3. \A b \in Buckets : Left(w, b)' = IF b = FreqAdds[k].bucket THEN FreqAdds[k].items ELSE {}
    BY <1>6, <2>1 DEF Left
  <2>4. \A b \in Buckets : WordsDone(b, done \cup {k}) = WordsDone(b, done) \cup Left(w, b)'
    BY <2>3 DEF WordsDone
  <2>5. \A b \in Buckets : filter[b] = WordsDone(b, done)
    BY <1>1, <1>6 DEF FreqDone
  <2>6. \A b \in Buckets : WordsDone(b, done) \cap Left(w, b)' = {}
    BY <2>1, <2>2, <2>3, WordsAssumption DEF WordsDone
  <2>7. \A m \in done \cup {k} : m + 1 <= pos'["freq"] /\ ~Queued("freq", m + 1)'
    <3>1. ASSUME NEW m \in done PROVE m + 1 <= pos'["freq"] /\ ~Queued("freq", m + 1)'
      BY <1>1, <1>8, ReceivedCalls DEF FreqDone
    <3>2. k + 1 <= pos'["freq"] /\ ~Queued("freq", k + 1)'
      <4>1. n <= pos["freq"] /\ pos' = pos /\ ~Queued("freq", n)'
        BY <1>2, <1>4, <2>1
      <4> QED
        BY <2>1, <4>1
    <3> QED
      BY <3>1, <3>2
  <2>8. FreqDone(w, done \cup {k})'
    <3>1. \A b \in Buckets : /\ filter'[b] = filter[b] /\ current'[b] = current[b]
                             /\ current[b] + Uncounted(w, b) = Cardinality(filter[b])
      BY <1>1, <1>2 DEF FreqDone
    <3>2. \A b \in Buckets : /\ filter'[b] \cup Left(w, b)' = WordsDone(b, done \cup {k})
                             /\ filter'[b] \cap Left(w, b)' = {}
                             /\ current'[b] + Uncounted(w, b)' = Cardinality(filter'[b])
      BY <1>6, <1>7, <2>4, <2>5, <2>6, <3>1
    <3>3. \A b \in Buckets : WordsDone(b, done \cup {k})' = WordsDone(b, done \cup {k})
      BY DEF WordsDone
    <3>4. \E m \in done \cup {k} : FreqAdds[m].bucket = wTo'[w]
      BY <2>1
    <3> QED
      BY <2>7, <3>2, <3>3, <3>4 DEF FreqDone
  <2>9. FullInv(w, done \cup {k})'
    <3> SUFFICES ASSUME NEW b \in Buckets, Sent(w, b)'
                 PROVE  /\ freqReady' /\ filter'[b] = AllWords(b)
                        /\ \A m \in DOMAIN FreqAdds : FreqAdds[m].bucket = b => m \in done \cup {k}
                        /\ wTo'[w] = b => wPc'[w] \notin {"add", "write"}
      BY DEF FullInv, AllWords
    <3>1. /\ freqReady /\ filter[b] = AllWords(b)
          /\ \A m \in DOMAIN FreqAdds : FreqAdds[m].bucket = b => m \in done
      BY <1>1, <1>7 DEF FullInv
    <3>2. wTo'[w] # b
      BY <2>1, <2>2, <3>1
    <3> QED
      BY <1>2, <3>1, <3>2
  <2>10. done \cup {k} \in SUBSET DOMAIN FreqAdds
    BY <2>1
  <2> QED
    BY <2>8, <2>9, <2>10 DEF FreqInv
<1> QED
  BY <1>9, <1>10
\* The item moves from what the worker holds to the filter, and is counted.
LEMMA AddF ==
    ASSUME TypeOK, ChanInv, NEW w \in Workers, WorkerInv(w), FreqInv(w),
           (\E item \in Items : WAddRead(w, item)) \/ WAddWrite(w) \/ WXSetCount(w)
    PROVE  FreqInv(w)'
<1>1. PICK done \in SUBSET DOMAIN FreqAdds : FreqDone(w, done) /\ FullInv(w, done)
  BY DEF FreqInv
<1>2. UNCHANGED <<pos, msgChan, current, freqReady, wTo, disk, finished>> /\ Worker(w)
  BY DEF WAddRead, WAddWrite, WXSetCount, chanVars, readyVars, freqVars, saverVars, Worker
<1>3. wPc[w] \in {"add", "write"} \/ (wPc[w] = "count" /\ wTo[w] = XSet)
  BY DEF WAddRead, WAddWrite, WXSetCount, WorkerInv
<1>4. \A b \in Buckets : Sent(w, b) => wTo[w] # b
  BY <1>1, <1>3, FilterAssumption DEF FullInv
<1>5. /\ wPc'[w] \in {"add", "write"} \/ (wPc'[w] = "count" /\ wTo[w] = XSet)
      /\ Adding(w)' => Adding(w)
  BY <1>2, <1>3 DEF WAddRead, WAddWrite, WXSetCount, TypeOK, Adding
<1>6. \A b \in Buckets : Sent(w, b)' => Sent(w, b)
  BY <1>2, <1>5 DEF Sent, InFinished
<1>7. ASSUME NEW item \in Items, WAddRead(w, item) PROVE FreqInv(w)'
  <2>1. /\ UNCHANGED <<filter, wNum>> /\ item \in wTodo[w] /\ wItem[w] = {}
        /\ wTodo'[w] = wTodo[w] \ {item} /\ wItem'[w] = {item}
        /\ wPc[w] = "add" /\ wPc'[w] = "write"
    BY <1>7 DEF WAddRead, WorkerInv, TypeOK
  <2>2. \A b \in Buckets : Left(w, b)' = Left(w, b) /\ Uncounted(w, b)' = Uncounted(w, b)
    BY <1>2, <2>1 DEF Left, Uncounted
  <2> QED
    BY <1>2, <1>4, <1>5, <1>6, <2>1, <2>2, ReceivedCalls, FreqUnchanged
<1>8. CASE (WAddWrite(w) /\ wTo[w] = XSet) \/ WXSetCount(w)
  <2>1. wTo[w] = XSet /\ \A b \in Buckets : filter'[b] = filter[b] /\ wTo[w] # b
    BY <1>3, <1>8, FilterAssumption DEF WAddWrite, WXSetCount, WorkerInv, TypeOK, Filters
  <2>2. \A b \in Buckets : wTo'[w] # b /\ wTo[w] # b
    BY <1>2, <2>1
  <2>3. ASSUME NEW b \in Buckets
        PROVE  Left(w, b)' = Left(w, b) /\ Uncounted(w, b)' = Uncounted(w, b)
    <3>1. wTo'[w] # b /\ wTo[w] # b
      BY <2>2
    <3> QED
      BY <3>1, Zenon DEF Left, Uncounted
  <2> QED
    BY <1>2, <1>4, <1>5, <1>6, <2>1, <2>3, ReceivedCalls, FreqUnchanged
<1>9. CASE WAddWrite(w) /\ wTo[w] # XSet
  <2>1. PICK item \in Items :
              /\ wItem[w] = {item} /\ item \notin wTodo[w] /\ wItem'[w] = {}
              /\ wTodo'[w] = wTodo[w] /\ wTo'[w] = wTo[w]
              /\ filter'[wTo[w]] = filter[wTo[w]] \cup {item}
              /\ \A f \in Filters : f # wTo[w] => filter'[f] = filter[f]
              /\ wPc[w] = "write" /\ wPc'[w] = "add" /\ wNum'[w] = wNum[w] + 1
    BY <1>9, AddIs
  <2>2. \A b \in Buckets : wTo[w] # b =>
            /\ filter'[b] = filter[b] /\ Left(w, b)' = Left(w, b)
            /\ Uncounted(w, b)' = Uncounted(w, b)
    BY <2>1 DEF Left, Uncounted, Filters
  <2>3. \A b \in Buckets : wTo[w] = b =>
            /\ item \notin filter[b] /\ filter[b] \in SUBSET Items
            /\ filter'[b] = filter[b] \cup {item}
            /\ Left(w, b)' = Left(w, b) \ {item} /\ item \in Left(w, b)
            /\ Uncounted(w, b) = wNum[w] /\ Uncounted(w, b)' = wNum[w] + 1
    BY <1>1, <2>1 DEF Left, Uncounted, FreqDone, TypeOK, Filters
  <2>4. \A b \in Buckets : current'[b] + Uncounted(w, b)' = Cardinality(filter'[b])
    <3> SUFFICES ASSUME NEW b \in Buckets
                 PROVE  current'[b] + Uncounted(w, b)' = Cardinality(filter'[b])
      OBVIOUS
    <3>1. current[b] + Uncounted(w, b) = Cardinality(filter[b]) /\ current'[b] = current[b]
      BY <1>1, <1>2 DEF FreqDone
    <3>2. current[b] \in Nat /\ wNum[w] \in Nat
      BY DEF TypeOK
    <3>3. CASE wTo[w] = b
      <4>1. Cardinality(filter'[b]) = Cardinality(filter[b]) + 1
        BY <2>3, <3>3, AddItem
      <4> QED
        BY <2>3, <3>1, <3>2, <3>3, <4>1
    <3> QED
      BY <2>2, <3>1, <3>3
  <2>5. \A b \in Buckets : /\ filter'[b] \cup Left(w, b)' = filter[b] \cup Left(w, b)
                           /\ filter'[b] \cap Left(w, b)' = {}
    BY <1>1, <2>2, <2>3 DEF FreqDone
  <2>6. FreqDone(w, done)'
    <3>1. \A n \in done : n + 1 <= pos'["freq"] /\ ~Queued("freq", n + 1)'
      BY <1>1, <1>2, ReceivedCalls DEF FreqDone
    <3>2. \A b \in Buckets : filter'[b] \cup Left(w, b)' = WordsDone(b, done)
      BY <1>1, <2>5 DEF FreqDone
    <3>3. \A b \in Buckets : WordsDone(b, done)' = WordsDone(b, done)
      BY DEF WordsDone
    <3>4. Adding(w)' => \E n \in done : FreqAdds[n].bucket = wTo'[w]
      BY <1>1, <1>2, <1>5 DEF FreqDone
    <3> QED
      BY <2>4, <2>5, <3>1, <3>2, <3>3, <3>4 DEF FreqDone
  <2>7. FullInv(w, done)'
    BY <1>1, <1>2, <1>4, <1>6, <2>2 DEF FullInv, AllWords
  <2> QED
    BY <2>6, <2>7 DEF FreqInv
<1> QED
  BY <1>7, <1>8, <1>9

\* A bucket is sent when its count says so, and then it has all its words, and
\* none of its calls is still to come.
LEMMA CheckF ==
    ASSUME TypeOK, ChanInv, NEW w \in Workers, WorkerInv(w), FreqInv(w), WFreqCheck(w)
    PROVE  FreqInv(w)'
<1>1. PICK done \in SUBSET DOMAIN FreqAdds : FreqDone(w, done) /\ FullInv(w, done)
  BY DEF FreqInv
<1>2. PICK c0 \in Buckets : c0 = wTo[w]
  BY DEF WFreqCheck
<1>3. /\ UNCHANGED <<pos, msgChan, filter, freqReady, wTo, wTodo, wItem, wNum, disk, finished>>
      /\ wPc[w] = "add" /\ wTodo[w] = {} /\ wItem[w] = {} /\ freqReady /\ Worker(w)
  BY <1>2, FilterAssumption DEF WFreqCheck, chanVars, readyVars, saverVars, WorkerInv, Worker
<1>4. /\ current'[c0] = current[c0] + wNum[w]
      /\ \A b \in Buckets : b # c0 => current'[b] = current[b]
      /\ wPc'[w] = IF FreqSize[c0] = current[c0] + wNum[w] THEN "send" ELSE "recv"
  BY <1>2 DEF WFreqCheck, TypeOK
<1>5. \A b \in Buckets : Uncounted(w, b)' = 0 /\ Uncounted(w, b) = IF b = c0 THEN wNum[w] ELSE 0
  BY <1>2, <1>3, <1>4 DEF Uncounted
<1>6. \A b \in Buckets : Left(w, b) = {} /\ Left(w, b)' = {}
  BY <1>3 DEF Left
<1>7. FreqDone(w, done)'
  <2>1. \A n \in done : n + 1 <= pos'["freq"] /\ ~Queued("freq", n + 1)'
    BY <1>1, <1>3, ReceivedCalls DEF FreqDone
  <2>2. \A b \in Buckets : /\ filter'[b] \cup Left(w, b)' = WordsDone(b, done)
                           /\ filter'[b] \cap Left(w, b)' = {}
    BY <1>1, <1>3, <1>6 DEF FreqDone
  <2>3. \A b \in Buckets : current'[b] + Uncounted(w, b)' = Cardinality(filter'[b])
    <3>1. \A b \in Buckets : current[b] \in Nat /\ wNum[w] \in Nat
      BY DEF TypeOK
    <3>2. \A b \in Buckets : /\ current[b] + Uncounted(w, b) = Cardinality(filter[b])
                             /\ filter'[b] = filter[b]
      BY <1>1, <1>3 DEF FreqDone
    <3> QED
      BY <1>4, <1>5, <3>1, <3>2
  <2>4. \A b \in Buckets : WordsDone(b, done)' = WordsDone(b, done)
    BY DEF WordsDone
  <2>5. ~Adding(w)'
    BY <1>4 DEF Adding
  <2> QED
    BY <2>1, <2>2, <2>3, <2>4, <2>5 DEF FreqDone
<1>8. \A b \in Buckets : Sent(w, b)' => Sent(w, b) \/ (b = c0 /\ wPc'[w] = "send")
  BY <1>2, <1>3 DEF Sent, InFinished
<1>9. ASSUME wPc'[w] = "send"
      PROVE  /\ filter[c0] = AllWords(c0)
             /\ \A n \in DOMAIN FreqAdds : FreqAdds[n].bucket = c0 => n \in done
  <2>1. FreqSize[c0] = current[c0] + wNum[w]
    BY <1>4, <1>9
  <2>2. current[c0] + wNum[w] = Cardinality(filter[c0])
    BY <1>1, <1>5 DEF FreqDone
  <2>3. filter[c0] = WordsDone(c0, done)
    BY <1>1, <1>6 DEF FreqDone
  <2>4. filter[c0] \subseteq AllWords(c0)
    BY <2>3 DEF WordsDone, AllWords
  <2>5. AllWords(c0) \in SUBSET Items
    BY AddsType DEF AllWords
  <2>6. Cardinality(AllWords(c0)) <= Cardinality(filter[c0])
    BY <2>1, <2>2, WordsAssumption
  <2>7. filter[c0] = AllWords(c0)
    BY <2>4, <2>5, <2>6, AllItems
  <2>8. ASSUME NEW n \in DOMAIN FreqAdds, FreqAdds[n].bucket = c0, n \notin done PROVE FALSE
    <3>1. FreqAdds[n].items \subseteq WordsDone(c0, done)
      BY <2>3, <2>7, <2>8 DEF AllWords
    <3>2. \A m \in done : FreqAdds[m].items \cap FreqAdds[n].items = {}
      BY <2>8, WordsAssumption
    <3>3. FreqAdds[n].items = {}
      BY <3>1, <3>2 DEF WordsDone
    <3>4. \A m \in done : FreqAdds[m].bucket # c0
      BY <2>8, <3>3, WordsAssumption
    <3>5. \E m \in done : FreqAdds[m].bucket = c0
      BY <1>1, <1>2, <1>3, FilterAssumption DEF FreqDone, Adding
    <3> QED
      BY <3>4, <3>5
  <2> QED
    BY <2>7, <2>8
<1>10. FullInv(w, done)'
  <2>1. wPc'[w] \notin {"add", "write"}
    BY <1>4
  <2>2. \A b \in Buckets : Sent(w, b)' =>
            /\ filter[b] = AllWords(b)
            /\ \A n \in DOMAIN FreqAdds : FreqAdds[n].bucket = b => n \in done
    BY <1>1, <1>8, <1>9 DEF FullInv
  <2> QED
    BY <1>3, <2>1, <2>2 DEF FullInv, AllWords
<1> QED
  BY <1>7, <1>10 DEF FreqInv
LEMMA WorkerF ==
    ASSUME TypeOK, ChanInv, NEW w \in Workers, WorkerInv(w), FreqInv(w), Worker(w)
    PROVE  FreqInv(w)'
<1>1. CASE WXSetCheck(w)
  <2>1. /\ UNCHANGED <<filter, current, freqReady, wTo, wTodo, wItem, disk, finished>>
        /\ wTo[w] = XSet /\ wPc[w] = "add" /\ wPc'[w] = "recv"
    BY <1>1 DEF WXSetCheck, freqVars, saverVars, TypeOK
  <2>2. ~Adding(w)'
    BY <2>1 DEF Adding
  <2>3. \A b \in Buckets :
            /\ Left(w, b)' = Left(w, b) /\ Uncounted(w, b)' = Uncounted(w, b)
            /\ Sent(w, b)' => Sent(w, b)
    BY <2>1, FilterAssumption DEF Left, Uncounted, Sent, InFinished
  <2> QED
    BY <2>1, <2>2, <2>3, ReceivedCalls, FreqUnchanged
<1>2. CASE WFreqSend(w)
  <2>1. /\ UNCHANGED <<filter, current, freqReady, wTo, wTodo, wItem, disk>>
        /\ wPc[w] = "send" /\ wPc'[w] = "recv" /\ finished' = Append(finished, wTo[w])
    BY <1>2 DEF WFreqSend, readyVars, saverVars, TypeOK
  <2>2. Range(finished') = Range(finished) \cup {wTo[w]}
    BY <2>1, AppendQueue DEF TypeOK
  <2>3. \A b \in Buckets :
            /\ Left(w, b)' = Left(w, b) /\ Uncounted(w, b)' = Uncounted(w, b)
            /\ Sent(w, b)' => Sent(w, b)
    BY <2>1, <2>2 DEF Left, Uncounted, Sent, InFinished
  <2>4. ~Adding(w)'
    BY <2>1 DEF Adding
  <2> QED
    BY <2>1, <2>3, <2>4, ReceivedCalls, FreqUnchanged
<1>3. CASE WEnd(w)
  <2>1. /\ UNCHANGED <<filter, current, freqReady, wTo, wTodo, wItem, disk, finished>>
        /\ wPc[w] = "recv" /\ wPc'[w] = "done"
    BY <1>3 DEF WEnd, readyVars, freqVars, saverVars, TypeOK
  <2>2. ~Adding(w)'
    BY <2>1 DEF Adding
  <2>3. \A b \in Buckets :
            /\ Left(w, b)' = Left(w, b) /\ Uncounted(w, b)' = Uncounted(w, b)
            /\ Sent(w, b)' => Sent(w, b)
    BY <2>1 DEF Left, Uncounted, Sent, InFinished
  <2> QED
    BY <2>1, <2>2, <2>3, ReceivedCalls, FreqUnchanged
<1> QED
  BY <1>1, <1>2, <1>3, InitF, RecvF, AddF, CheckF DEF Worker
----------------------------------------------------------------------------
(***************************************************************************)
(* The saver and the uploader                                              *)
(***************************************************************************)

\* The saver takes the first finished bucket, whose filter is complete, and
\* saves it, or an operation fails and the bucket is lost.
LEMMA Saved ==
    ASSUME TypeOK, NEW w \in Workers, FreqInv(w), SaverInv(w), SaverSave
    PROVE  \E b \in Buckets :
              /\ InFinished(b) /\ filter[b] = AllWords(b) /\ b \notin DOMAIN disk
              /\ IsInjective(finished')
              /\ \A c \in Buckets : InFinished(c)' <=> InFinished(c) /\ c # b
              /\ \/ /\ DOMAIN disk' = DOMAIN disk \cup {b} /\ disk'[b] = AllWords(b)
                    /\ \A c \in DOMAIN disk : disk'[c] = disk[c]
                    /\ errs' = errs
                 \/ disk' = disk /\ errs' # 0
<1>1. finished # <<>> /\ finished' = Tail(finished)
  BY SaveIs
<1>2. PICK b \in Buckets : b = Head(finished)
  BY SaveIs
<1>3. /\ Range(finished) = {b} \cup Range(finished')
      /\ IsInjective(finished') /\ b \notin Range(finished')
  BY <1>1, <1>2, TailQueue DEF TypeOK, SaverInv
<1>4. InFinished(b) /\ \A c \in Buckets : InFinished(c)' <=> InFinished(c) /\ c # b
  BY <1>3 DEF InFinished
<1>5. filter[b] = AllWords(b)
  BY <1>4 DEF FreqInv, FullInv, Sent
<1>6. b \notin DOMAIN disk
  BY <1>4 DEF SaverInv
<1>7. \/ /\ DOMAIN disk' = DOMAIN disk \cup {b} /\ disk'[b] = AllWords(b)
         /\ \A c \in DOMAIN disk : disk'[c] = disk[c]
         /\ errs' = errs
      \/ disk' = disk /\ errs' # 0
  BY <1>2, <1>5, <1>6, SaveIs
<1> QED
  BY <1>3, <1>4, <1>5, <1>6, <1>7
LEMMA SaverF ==
    ASSUME TypeOK, NEW w \in Workers, FreqInv(w), SaverInv(w), Saver
    PROVE  FreqInv(w)'
<1>1. UNCHANGED <<filter, current, freqReady, wTo, wTodo, wItem, wNum, wPc, pos, msgChan>>
  BY DEF Saver, SaverSave, SaverQuit, chanVars, readyVars, freqVars, workerVars
<1>2. \A b \in Buckets : Sent(w, b)' => Sent(w, b)
  <2>1. CASE SaverSave
    <3>1. PICK b \in Buckets :
                 /\ InFinished(b)
                 /\ \A c \in Buckets : InFinished(c)' <=> InFinished(c) /\ c # b
                 /\ DOMAIN disk' = DOMAIN disk \cup {b} \/ disk' = disk
      BY <2>1, Saved
    <3> QED
      BY <1>1, <3>1 DEF Sent
  <2>2. CASE SaverQuit
    BY <1>1, <2>2 DEF SaverQuit, saverVars, freqVars, Sent, InFinished
  <2> QED
    BY <2>1, <2>2 DEF Saver
<1>3. \A b \in Buckets : Sent(w, b) => (wTo[w] = b => wPc[w] \notin {"add", "write"})
  BY DEF FreqInv, FullInv
<1>4. \A b \in Buckets : Left(w, b)' = Left(w, b) /\ Uncounted(w, b)' = Uncounted(w, b)
  BY <1>1 DEF Left, Uncounted
<1>5. Adding(w)' => Adding(w)
  BY <1>1 DEF Adding
<1>6. \A n : Queued("freq", n)' = Queued("freq", n)
  BY <1>1 DEF Queued, Call
<1> QED
  BY <1>1, <1>2, <1>3, <1>4, <1>5, <1>6, FreqUnchanged

\* The saver counts the buckets it saves; at the end of its loop it has counted
\* as many as there are.
LEMMA SaverSaved ==
    ASSUME TypeOK, NEW w \in Workers, FreqInv(w), SaverInv(w), SaverSave
    PROVE  SaverInv(w)'
<1>1. PICK b \in Buckets :
             /\ InFinished(b) /\ b \notin DOMAIN disk /\ IsInjective(finished')
             /\ \A c \in Buckets : InFinished(c)' <=> InFinished(c) /\ c # b
             /\ \/ DOMAIN disk' = DOMAIN disk \cup {b} /\ errs' = errs
                \/ disk' = disk /\ errs' # 0
  BY Saved
<1>2. /\ numSaved' = numSaved + 1 /\ numSaved \in Nat
      /\ savPc' = IF numSaved + 1 < NumBuckets THEN "recv" ELSE "done"
      /\ UNCHANGED <<wPc, wTo>>
  BY SaveIs DEF SaverSave, workerVars, TypeOK
<1>3. \A c \in Buckets : InFinished(c)' => c \notin DOMAIN disk'
  BY <1>1 DEF SaverInv
<1>4. (wPc[w] = "send" => ~InFinished(wTo[w]) /\ wTo[w] \notin DOMAIN disk)'
  <2> SUFFICES ASSUME wPc[w] = "send"
               PROVE  (~InFinished(wTo[w]) /\ wTo[w] \notin DOMAIN disk)'
    BY <1>2
  <2>1. PICK d \in Buckets : d = wTo[w]
    BY DEF TypeOK
  <2>2. ~InFinished(d) /\ d \notin DOMAIN disk
    BY <2>1 DEF SaverInv
  <2>3. ~InFinished(d)' /\ d \notin DOMAIN disk'
    BY <1>1, <2>2
  <2> QED
    BY <1>2, <2>1, <2>3 DEF InFinished
<1>5. errs' = 0 => numSaved' = Cardinality(DOMAIN disk')
  <2> SUFFICES ASSUME errs' = 0 PROVE numSaved' = Cardinality(DOMAIN disk')
    OBVIOUS
  <2>1. DOMAIN disk' = DOMAIN disk \cup {b} /\ numSaved = Cardinality(DOMAIN disk)
    BY <1>1 DEF SaverInv
  <2>2. IsFiniteSet(DOMAIN disk)
    BY FilterAssumption, FS_Subset DEF TypeOK
  <2> QED
    BY <1>1, <1>2, <2>1, <2>2, FS_AddElement
<1>6. NumBuckets \in Nat
  BY FilterAssumption, FS_CardinalityType DEF NumBuckets
<1>7. savPc' = "done" => numSaved' >= NumBuckets
  BY <1>2, <1>6
<1>8. (savPc = "done" /\ ~quit => numSaved >= NumBuckets)'
  BY <1>7 DEF NumBuckets
<1> QED
  BY <1>1, <1>3, <1>4, <1>5, <1>8 DEF SaverInv

\* A worker sends a bucket it has just completed, which was not sent before.
LEMMA WorkerS ==
    ASSUME TypeOK, NEW w \in Workers, FreqInv(w), SaverInv(w), Worker(w)
    PROVE  SaverInv(w)'
<1>1. UNCHANGED <<savPc, numSaved, disk, errs, stopPc>>
  BY DEF Worker, WInit, WRecv, WAddRead, WAddWrite, WXSetCount, WXSetCheck, WFreqCheck,
         WFreqSend, WEnd,
         saverVars, procVars
<1>2. (savPc = "done" /\ ~quit => numSaved >= NumBuckets)'
  BY <1>1 DEF SaverInv, quit, NumBuckets
<1>3. ASSUME finished' = finished,
             wPc'[w] = "send" => ~InFinished(wTo'[w]) /\ wTo'[w] \notin DOMAIN disk
      PROVE  SaverInv(w)'
  BY <1>1, <1>2, <1>3 DEF SaverInv, InFinished
<1>4. CASE WInit(w)
  BY <1>3, <1>4 DEF WInit, freqVars, workerVars
<1>5. CASE \/ WRecv(w) \/ (\E item \in Items : WAddRead(w, item)) \/ WAddWrite(w)
           \/ WXSetCount(w) \/ WXSetCheck(w) \/ WEnd(w)
  <2>1. finished' = finished /\ wPc'[w] # "send"
    BY <1>5 DEF WRecv, WAddRead, WAddWrite, WXSetCount, WXSetCheck, WEnd, freqVars, TypeOK
  <2> QED
    BY <1>3, <2>1
<1>6. CASE WFreqCheck(w)
  <2>1. finished' = finished /\ wTo' = wTo /\ wPc[w] = "add" /\ wTo[w] \in Buckets
    BY <1>6 DEF WFreqCheck
  <2>2. ~Sent(w, wTo[w])
    BY <2>1 DEF FreqInv, FullInv
  <2> QED
    BY <1>3, <2>1, <2>2 DEF Sent
<1>7. CASE WFreqSend(w)
  <2>1. /\ finished' = Append(finished, wTo[w]) /\ wPc[w] = "send" /\ wPc'[w] = "recv"
        /\ wTo[w] \in Buckets
    BY <1>7 DEF WFreqSend, TypeOK
  <2>2. ~InFinished(wTo[w]) /\ wTo[w] \notin DOMAIN disk
    BY <2>1 DEF SaverInv
  <2>3. Range(finished') = Range(finished) \cup {wTo[w]} /\ IsInjective(finished')
    BY <2>1, <2>2, AppendQueue DEF TypeOK, SaverInv, InFinished
  <2>4. \A b \in Buckets : InFinished(b)' => b \notin DOMAIN disk'
    BY <1>1, <2>2, <2>3 DEF SaverInv, InFinished
  <2> QED
    BY <1>1, <1>2, <2>1, <2>3, <2>4 DEF SaverInv
<1> QED
  BY <1>4, <1>5, <1>6, <1>7 DEF Worker
----------------------------------------------------------------------------
(***************************************************************************)
(* The invariant is inductive                                              *)
(***************************************************************************)

\* Steps of the uploader, the query handler, Stop and the error handler.
LEMMA OthersIndexInv ==
    ASSUME TypeOK, NEW w \in Workers, IndexInv(w),
           UNCHANGED <<chanVars, readyVars, filter, xAdded, freqVars, workerVars, saverVars>>,
           errs' = errs \/ errs' # 0, quit => quit'
    PROVE  IndexInv(w)'
<1> USE DEF IndexInv
<1>1. UNCHANGED <<msgChan, pos, checked, xReady, freqReady, xFinished, current, finished,
                  wPc, wTo, wTodo, wItem, wRead, wNum, savPc, numSaved, disk, filter, xAdded>>
  BY DEF chanVars, readyVars, freqVars, workerVars, saverVars
<1>2. ChanInv'
  BY <1>1 DEF ChanInv, Queued, Call, IsReady
<1>3. WorkerInv(w)'
  BY <1>1 DEF WorkerInv
<1>4. XInv(w)'
  BY <1>1, XUnchanged DEF Pending
<1>5. FreqInv(w)'
  <2>1. \A n : Queued("freq", n)' = Queued("freq", n)
    BY <1>1 DEF Queued, Call
  <2>2. \A b \in Buckets : /\ Left(w, b)' = Left(w, b) /\ Uncounted(w, b)' = Uncounted(w, b)
                           /\ Sent(w, b)' = Sent(w, b)
    BY <1>1 DEF Left, Uncounted, Sent, InFinished
  <2>3. Adding(w)' = Adding(w)
    BY <1>1 DEF Adding
  <2>4. \A b \in Buckets : Sent(w, b) => (wTo[w] = b => wPc[w] \notin {"add", "write"})
    BY DEF FreqInv, FullInv
  <2> QED
    BY <1>1, <2>1, <2>2, <2>3, <2>4, FreqUnchanged
<1>6. SaverInv(w)'
  BY <1>1 DEF SaverInv, InFinished, NumBuckets
<1> QED
  BY <1>2, <1>3, <1>4, <1>5, <1>6

\* A producer's step.
LEMMA ProducerIndexInv ==
    ASSUME TypeOK, NEW w \in Workers, IndexInv(w), NEW p \in Producers, Producer(p)
    PROVE  IndexInv(w)'
<1> USE DEF IndexInv
<1>1. UNCHANGED <<filter, xReady, freqReady, wPc, wTo, wTodo, wItem, wRead, finished, savPc,
                  numSaved, disk, errs, stopPc>>
  BY DEF Producer, CallCheck, CallSend, readyVars, freqVars, workerVars, saverVars, procVars
<1>2. WorkerInv(w)'
  BY <1>1 DEF WorkerInv
<1>3. SaverInv(w)'
  BY <1>1 DEF SaverInv, InFinished, NumBuckets, quit
<1> QED
  BY <1>2, <1>3, ProducerChan, ProducerX, ProducerF

\* The saver's step.
LEMMA SaverIndexInv ==
    ASSUME TypeOK, NEW w \in Workers, IndexInv(w), Saver
    PROVE  IndexInv(w)'
<1> USE DEF IndexInv
<1>1. UNCHANGED <<msgChan, pos, checked, xReady, freqReady, xFinished, filter, xAdded, wPc, wTo,
                  wTodo, wItem, wRead>>
  BY DEF Saver, SaverSave, SaverQuit, chanVars, readyVars, workerVars
<1>2. ChanInv'
  BY <1>1 DEF ChanInv, Queued, Call, IsReady
<1>3. WorkerInv(w)'
  BY <1>1 DEF WorkerInv
<1>4. XInv(w)'
  BY <1>1, XUnchanged DEF Pending
<1>5. SaverInv(w)'
  <2>1. CASE SaverSave
    BY <2>1, SaverSaved
  <2>2. CASE SaverQuit
    BY <2>2 DEF SaverQuit, SaverInv, InFinished, freqVars, workerVars, procVars, quit
  <2> QED
    BY <2>1, <2>2 DEF Saver
<1> QED
  BY <1>2, <1>3, <1>4, <1>5, SaverF

\* A process has started with nothing saved.
Started ==
    /\ filter = [f \in Filters |-> {}] /\ wPc = [v \in Workers |-> "recv"]
    /\ savPc = "recv" /\ DOMAIN disk = {} /\ msgChan = <<>>
    /\ pos = [q \in Producers |-> 0] /\ checked = [q \in Producers |-> FALSE]
    /\ xReady = FALSE /\ freqReady = FALSE /\ xFinished = FALSE
    /\ xAdded = 0 /\ current = [b \in Buckets |-> 0] /\ finished = <<>>
    /\ wTo = [v \in Workers |-> XSet] /\ wTodo = [v \in Workers |-> {}]
    /\ wItem = [v \in Workers |-> {}] /\ numSaved = 0

LEMMA StartedIndexInv == ASSUME NEW w \in Workers PROVE Started => IndexInv(w)
<1> SUFFICES ASSUME Started PROVE IndexInv(w)
  OBVIOUS
<1> USE DEF Started
<1>1. DOMAIN msgChan = {} /\ DOMAIN finished = {}
  OBVIOUS
<1>2. ChanInv
  <2>1. \A p, n : ~Queued(p, n)
    BY <1>1 DEF Queued, Range
  <2> QED
    BY <1>1, <2>1 DEF ChanInv, IsReady, IsInjective
<1>3. WorkerInv(w)
  BY DEF WorkerInv
<1>4. XInv(w)
  <2>1. XAddsDone({}) = {} /\ filter[XSet] = {} /\ Left(w, XSet) = {} /\ Pending(w) = 0
    BY DEF XAddsDone, Filters, Left, Pending
  <2>2. XDone(w, {})
    <3>1. Cardinality(filter[XSet]) = 0
      BY <2>1, FS_EmptySet
    <3>2. xAdded + Pending(w) = 0
      BY <2>1
    <3>3. filter[XSet] \cup Left(w, XSet) = {} /\ filter[XSet] \cap Left(w, XSet) = {}
      BY <2>1
    <3> HIDE DEF Started
    <3> QED
      BY <2>1, <3>1, <3>2, <3>3 DEF XDone
  <2> QED
    BY <2>2 DEF XInv
<1>5. FreqInv(w)
  <2>1. \A b \in Buckets : /\ WordsDone(b, {}) = {} /\ filter[b] = {} /\ Left(w, b) = {}
                           /\ Uncounted(w, b) = 0 /\ current[b] = 0 /\ ~Sent(w, b)
    BY <1>1 DEF WordsDone, Filters, Left, Uncounted, Sent, InFinished, Range
  <2>2. ~Adding(w)
    BY DEF Adding
  <2>3. FreqDone(w, {})
    <3>1. \A b \in Buckets : /\ filter[b] \cup Left(w, b) = WordsDone(b, {})
                             /\ filter[b] \cap Left(w, b) = {}
                             /\ current[b] + Uncounted(w, b) = Cardinality(filter[b])
      <4> SUFFICES ASSUME NEW b \in Buckets
                   PROVE  /\ filter[b] \cup Left(w, b) = WordsDone(b, {})
                          /\ filter[b] \cap Left(w, b) = {}
                          /\ current[b] + Uncounted(w, b) = Cardinality(filter[b])
        OBVIOUS
      <4>1. /\ WordsDone(b, {}) = {} /\ filter[b] = {} /\ Left(w, b) = {}
            /\ Uncounted(w, b) = 0 /\ current[b] = 0
        BY <2>1
      <4>2. Cardinality(filter[b]) = 0
        BY <4>1, FS_EmptySet, Zenon
      <4> QED
        BY ONLY <4>1, <4>2
    <3> QED
      BY <2>2, <3>1 DEF FreqDone
  <2>4. FullInv(w, {})
    BY <2>1 DEF FullInv
  <2> QED
    BY <2>3, <2>4 DEF FreqInv
<1>6. SaverInv(w)
  BY <1>1, FS_EmptySet DEF SaverInv, InFinished, Range, IsInjective
<1> QED
  BY <1>2, <1>3, <1>4, <1>5, <1>6 DEF IndexInv

LEMMA RestartedIndexInv == ASSUME NEW w \in Workers PROVE (Started => IndexInv(w))'
<1>1. Started => IndexInv(w)
  BY StartedIndexInv
<1> QED
  BY <1>1, PTL

LEMMA InitInv == Init => \A w \in Workers : IInv(w)
<1> SUFFICES ASSUME Init, NEW w \in Workers PROVE IInv(w)
  OBVIOUS
<1>1. DOMAIN NothingSaved = {} /\ disk = NothingSaved
  BY DEF NothingSaved, Init
<1>2. LET p == Booted(NothingSaved)
      IN mode = p.mode /\ filter = p.filter /\ wPc = p.wPc /\ savPc = p.savPc /\ upPc = p.upPc
  BY DEF Init
<1>3. \A b \in DOMAIN NothingSaved : NothingSaved[b] \in SUBSET Items
  BY <1>1
<1>4. KeptInv
  BY <1>1 DEF KeptInv, Init
<1>5. ModeInv
  BY <1>1, <1>2, <1>3, BootedIs DEF ModeInv
<1>6. ASSUME mode = "indexing" PROVE IndexInv(w)
  <2>1. /\ filter = [f \in Filters |-> {}] /\ wPc = [v \in Workers |-> "recv"]
        /\ savPc = "recv"
    BY <1>1, <1>2, <1>3, <1>6, BootedIs
  <2> QED
    BY <1>1, <2>1, StartedIndexInv DEF Init, Started
<1> QED
  BY <1>4, <1>5, <1>6, InitTypeOK DEF IInv

LEMMA CrashInv ==
    ASSUME NEW w \in Workers, IInv(w), Crash
    PROVE  IInv(w)'
<1>1. TypeOK /\ KeptInv
  BY DEF IInv
<1>2. disk' = disk /\ uploaded' = uploaded
  BY DEF Crash
<1>3. LET p == Booted(disk)
      IN mode' = p.mode /\ filter' = p.filter /\ wPc' = p.wPc /\ savPc' = p.savPc /\ upPc' = p.upPc
  BY DEF Crash
<1>4. DOMAIN disk \subseteq Buckets /\ \A b \in DOMAIN disk : disk[b] \in SUBSET Items
  BY <1>1 DEF TypeOK
<1>5. KeptInv'
  BY <1>1, <1>2 DEF KeptInv, AllXTags, AllWords
<1>6. ModeInv'
  BY <1>2, <1>3, <1>4, BootedIs DEF ModeInv
<1>7. ASSUME mode' = "indexing" PROVE IndexInv(w)'
  <2>1. /\ filter' = [f \in Filters |-> {}] /\ wPc' = [v \in Workers |-> "recv"]
        /\ savPc' = "recv" /\ DOMAIN disk' = {}
    BY <1>2, <1>3, <1>4, <1>7, BootedIs
  <2> QED
    BY <2>1, RestartedIndexInv DEF Crash, Started
<1> QED
  BY <1>1, <1>5, <1>6, <1>7, CrashTypeOK DEF IInv

\* Only a crash, and then a start, changes the mode.
LEMMA ModeStays ==
    ASSUME Next, ~Crash
    PROVE  mode' = mode
BY DEF Next, Producer, CallCheck, CallSend, Worker, WInit, WRecv, WAddRead, WAddWrite,
       WXSetCount, WXSetCheck,
       WFreqCheck, WFreqSend, WEnd, Saver, SaverSave, SaverQuit, Uploader, UploaderUpload,
       UploaderQuit, QueryQuit, Stop, StopReturn, HandleErrors, procVars

\* With one worker, a step of a worker is a step of that one.
LEMMA NextIndexInv ==
    ASSUME TypeOK, NEW w \in Workers, Workers = {w}, IndexInv(w), Next, ~Crash
    PROVE  IndexInv(w)'
<1>1. CASE \E p \in Producers : Producer(p)
  BY <1>1, ProducerIndexInv
<1>2. CASE \E v \in Workers : Worker(v)
  <2>1. Worker(w)
    BY <1>2
  <2> QED
    BY <2>1, WorkerChan, NextWorkerInv, WorkerX, WorkerF, WorkerS DEF IndexInv
<1>3. CASE Saver
  BY <1>3, SaverIndexInv
<1>4. CASE Uploader
  <2>1. UNCHANGED <<chanVars, readyVars, filter, xAdded, freqVars, workerVars, saverVars, stopPc>>
    BY <1>4 DEF Uploader, UploaderUpload, UploaderQuit, procVars
  <2>2. errs' = errs \/ errs' # 0
    BY <1>4, AbortType DEF Uploader, UploaderUpload, UploaderQuit, procVars
  <2> QED
    BY <2>1, <2>2, OthersIndexInv DEF quit
<1>5. CASE QueryQuit \/ Stop \/ StopReturn \/ HandleErrors
  BY <1>5, OthersIndexInv DEF QueryQuit, Stop, StopReturn, HandleErrors, quit
<1> QED
  BY <1>1, <1>2, <1>3, <1>4, <1>5 DEF Next

\* Only complete filters are uploaded and saved.
LEMMA NextKept ==
    ASSUME TypeOK, NEW w \in Workers, KeptInv, ModeInv, mode = "indexing" => IndexInv(w),
           Next, ~Crash
    PROVE  KeptInv'
<1> USE DEF KeptInv
<1>1. CASE UploaderUpload
  <2>1. upPc = "wait" /\ xFinished /\ disk' = disk
    BY <1>1 DEF UploaderUpload, saverVars
  <2>2. filter[XSet] = AllXTags
    BY <2>1 DEF ModeInv, IndexInv, XInv
  <2>3. \A u \in uploaded' : u = AllXTags
    BY <1>1, <2>2 DEF UploaderUpload
  <2> QED
    BY <2>1, <2>3 DEF AllXTags, AllWords
<1>2. CASE SaverSave
  <2>1. savPc = "recv" /\ uploaded' = uploaded
    BY <1>2 DEF SaverSave, upVars
  <2>2. FreqInv(w) /\ SaverInv(w)
    BY <2>1 DEF ModeInv, IndexInv
  <2>3. \A b \in DOMAIN disk' : disk'[b] = AllWords(b)
    BY <1>2, <2>2, Saved
  <2> QED
    BY <2>1, <2>3 DEF AllXTags, AllWords
<1>3. CASE UNCHANGED <<disk, uploaded>>
  BY <1>3 DEF AllXTags, AllWords
<1>4. UploaderUpload \/ SaverSave \/ UNCHANGED <<disk, uploaded>>
  BY DEF Next, Producer, CallCheck, CallSend, Worker, WInit, WRecv, WAddRead, WAddWrite,
         WXSetCount, WXSetCheck,
         WFreqCheck, WFreqSend, WEnd, Saver, SaverQuit, Uploader, UploaderQuit, QueryQuit, Stop,
         StopReturn, HandleErrors, saverVars, upVars
<1> QED
  BY <1>1, <1>2, <1>3, <1>4

\* A client that serves does not change what it loaded.
LEMMA NextMode ==
    ASSUME TypeOK, ModeInv, Next, ~Crash
    PROVE  ModeInv'
<1>1. mode' = mode
  BY ModeStays
<1>2. ASSUME mode # "indexing" PROVE UNCHANGED <<wPc, savPc, upPc, disk, filter>>
  <2>1. /\ \A v \in Workers : wPc[v] = "done"
        /\ savPc = "done" /\ upPc = "done"
    BY <1>2 DEF ModeInv
  <2>2. /\ \A v \in Workers : ~Worker(v)
        /\ ~Saver /\ ~Uploader
    BY <2>1 DEF Worker, WInit, WRecv, WAddRead, WAddWrite, WXSetCount, WXSetCheck, WFreqCheck,
                WFreqSend, WEnd,
                Saver, SaverSave, SaverQuit, Uploader, UploaderUpload, UploaderQuit
  <2> QED
    BY <2>2 DEF Next, Producer, CallCheck, CallSend, QueryQuit, Stop, StopReturn, HandleErrors,
                workerVars, saverVars, upVars
<1> QED
  BY <1>1, <1>2 DEF ModeInv

LEMMA NextInv ==
    ASSUME NEW w \in Workers, Workers = {w}, IInv(w), [Next]_vars
    PROVE  IInv(w)'
<1>1. TypeOK /\ KeptInv /\ ModeInv /\ (mode = "indexing" => IndexInv(w)) /\ TypeOK'
  BY NextTypeOK DEF IInv
<1>2. CASE Crash
  BY <1>2, CrashInv
<1>3. CASE Next /\ ~Crash
  BY <1>1, <1>3, ModeStays, NextIndexInv, NextKept, NextMode DEF IInv
<1>4. CASE UNCHANGED vars
  <2>1. KeptInv' /\ ModeInv' /\ mode' = mode
    BY <1>1, <1>4 DEF vars, KeptInv, ModeInv, AllXTags, AllWords
  <2>2. ASSUME mode' = "indexing" PROVE IndexInv(w)'
    <3>1. IndexInv(w)
      BY <1>1, <2>1, <2>2
    <3>2. /\ UNCHANGED <<chanVars, readyVars, filter, xAdded, freqVars, workerVars, saverVars>>
          /\ errs' = errs /\ stopPc' = stopPc
      BY <1>4 DEF vars, chanVars, readyVars, freqVars, workerVars, saverVars
    <3> QED
      BY <1>1, <3>1, <3>2, OthersIndexInv DEF quit
  <2> QED
    BY <1>1, <2>1, <2>2 DEF IInv
<1> QED
  BY <1>2, <1>3, <1>4
----------------------------------------------------------------------------
(***************************************************************************)
(* The theorems                                                            *)
(***************************************************************************)

\* With one worker the filters hold what the worker received and added, and
\* what was signalled, sent, saved or uploaded is complete: the invariant holds
\* in every reachable state, through crashes, restarts and failing operations.
THEOREM FiltersCorrect == ASSUME NEW w, Workers = {w} PROVE Spec => []IInv(w)
<1>1. Init => IInv(w)
  BY InitInv
<1>2. IInv(w) /\ [Next]_vars => IInv(w)'
  BY NextInv
<1> QED
  BY <1>1, <1>2, PTL DEF Spec

\* The X-set filter is uploaded only when it holds every xTag, although the
\* uploader reads it while bloomWorker may still be running.
THEOREM UploadsComplete == OneWorker => (Spec => []UploadComplete)
<1> SUFFICES ASSUME NEW w, Workers = {w} PROVE Spec => []UploadComplete
  BY DEF OneWorker
<1>1. Spec => []IInv(w)
  BY FiltersCorrect
<1>2. IInv(w) => UploadComplete
  BY DEF IInv, KeptInv, UploadComplete
<1> QED
  BY <1>1, <1>2, PTL

\* A frequency filter in the client's database holds every word of its bucket,
\* whatever crashes and failed transactions came before.
THEOREM SavesComplete == OneWorker => (Spec => []SavedComplete)
<1> SUFFICES ASSUME NEW w, Workers = {w} PROVE Spec => []SavedComplete
  BY DEF OneWorker
<1>1. Spec => []IInv(w)
  BY FiltersCorrect
<1>2. IInv(w) => SavedComplete
  BY DEF IInv, KeptInv, SavedComplete
<1> QED
  BY <1>1, <1>2, PTL

\* A client that is started again and loads the filters answers each word with
\* the bucket it was indexed in.
THEOREM RestartsAnswer == OneWorker => (Spec => []RestartAnswers)
<1> SUFFICES ASSUME NEW w, Workers = {w} PROVE Spec => []RestartAnswers
  BY DEF OneWorker
<1>1. Spec => []IInv(w)
  BY FiltersCorrect
<1>2. \A b, c \in Buckets : b # c => AllWords(b) \cap AllWords(c) = {}
  BY WordsAssumption DEF AllWords
<1>3. IInv(w) => RestartAnswers
  <2> SUFFICES ASSUME IInv(w), mode = "serving", NEW b \in Buckets, NEW word \in AllWords(b)
               PROVE  QueryAnswers(word) = {b}
    BY DEF RestartAnswers
  <2>1. \A c \in Buckets : filter[c] = AllWords(c)
    BY DEF IInv, KeptInv, ModeInv
  <2>2. {c \in Buckets : word \in filter[c]} = {b}
    BY <1>2, <2>1
  <2> QED
    BY <2>2 DEF QueryAnswers
<1> QED
  BY <1>1, <1>3, PTL

\* The saver's loop, which counts buckets, ends with every bucket saved.
THEOREM SaverEndsWithAll == OneWorker => (Spec => []SaverDoneAllSaved)
<1> SUFFICES ASSUME NEW w, Workers = {w} PROVE Spec => []SaverDoneAllSaved
  BY DEF OneWorker
<1>1. Spec => []IInv(w)
  BY FiltersCorrect
<1>2. IInv(w) => SaverDoneAllSaved
  <2> SUFFICES ASSUME IInv(w), savPc = "done", ~quit, errs = 0, mode = "indexing"
               PROVE  DOMAIN disk = Buckets
    BY DEF SaverDoneAllSaved
  <2>1. DOMAIN disk \subseteq Buckets /\ Cardinality(DOMAIN disk) >= Cardinality(Buckets)
    BY DEF IInv, IndexInv, SaverInv, NumBuckets, TypeOK
  <2>2. /\ IsFiniteSet(DOMAIN disk) /\ Cardinality(DOMAIN disk) <= Cardinality(Buckets)
        /\ Cardinality(DOMAIN disk) = Cardinality(Buckets) => Buckets = DOMAIN disk
    BY <2>1, FilterAssumption, FS_Subset
  <2>3. Cardinality(DOMAIN disk) \in Nat /\ Cardinality(Buckets) \in Nat
    BY <2>2, FilterAssumption, FS_CardinalityType
  <2> QED
    BY <2>1, <2>2, <2>3
<1> QED
  BY <1>1, <1>2, PTL
=============================================================================
