------------------------- MODULE EncryptedSearcher -------------------------
(***************************************************************************)
(* server/encrypted_searcher.go with the RPC handlers of server/server.go  *)
(* that call it, and the client as the server meets it: main and the       *)
(* search path of client_proxy/client.go. Several clients index and then   *)
(* search; server and clients die, the server is started again on the      *)
(* bolt database it left.                                                  *)
(*                                                                         *)
(* A fragment stands for its address and its contents: no two have the     *)
(* same address (UniqueIndices of EncryptedIndexGenerator). The in-memory  *)
(* X-set filter stays nil, as gob cannot decode into the nil field; it is  *)
(* never read.                                                             *)
(***************************************************************************)
EXTENDS Integers, Sequences, FiniteSets, SequencesExt

CONSTANTS
    Clients,    \* client processes, each of which indexes once
    Frags,      \* the T-set fragments each of them sends, in one stream
    Writers,    \* tSetWriters: numTsetWriters of them
    WriteCap,   \* capacity of tWriteReqs
    ReadCap,    \* capacity of tReadReqs
    MaxFaults   \* bound on failing transactions, kills and calls of Stop

ASSUME FragsAssumption == \A c \in Clients : Frags[c] \in Seq(Range(Frags[c]))
ASSUME SearcherBounds ==
    /\ WriteCap \in Nat \ {0} /\ ReadCap \in Nat \ {0}
    /\ MaxFaults \in Nat

VARIABLES
    tset,        \* fragments in the tset bucket
    index,       \* the index bucket exists: an X-set filter was stored
    lost,        \* fragments whose transaction failed
    xLost,       \* the transaction of an X-set filter failed
    server,      \* "up" or what the server died of
    workers,     \* Start has started tSetWriters and tSetReaders
    metaClosed,  \* metaDataRecived is closed
    metaLoaded,  \* isMetaLoaded
    overlap,     \* history: two UploadMetaData calls have overlapped
    writeReqs,   \* tWriteReqs
    hand,        \* the fragment each tSetWriter writes, {} if none
    readReqs,    \* tReadReqs: the clients that search
    quit,        \* Stop has closed quit
    cPc,         \* client: "new", "close" or "set" in UploadMetaData, "index",
                 \* "serve", "search" or "dead"
    uPc,         \* its UploadTSet handler: "recv", "put" or "acked"
    got,         \* number of fragments that handler has queued
    xPc,         \* its UploadXSetFilter: "none", "stored" or "acked"
    faults       \* faults so far

diskVars   == <<tset, index, lost, xLost>>
metaVars   == <<metaClosed, metaLoaded, overlap>>
writeVars  == <<writeReqs, hand>>
serverVars == <<server, workers, readReqs, quit>>
upVars     == <<uPc, got>>
vars == <<diskVars, metaVars, writeVars, serverVars, cPc, upVars, xPc, faults>>

Fragments == UNION {Range(Frags[c]) : c \in Clients}

NoHand == [w \in Writers |-> {}]

\* Start: if there is an index, loadXSetFilterFromDb asks for a bucket to be
\* created in a read-only transaction, which always fails, and Start returns
\* before it starts anything. main ignores the error.
StartsWorkers(indexIsPopulated) == ~indexIsPopulated

Init ==
    /\ tset = {} /\ index = FALSE /\ lost = {} /\ xLost = FALSE
    /\ server = "up" /\ workers = StartsWorkers(index)
    /\ metaClosed = FALSE /\ metaLoaded = FALSE /\ overlap = FALSE
    /\ writeReqs = <<>> /\ hand = NoHand /\ readReqs = <<>> /\ quit = FALSE
    /\ cPc = [c \in Clients |-> "new"]
    /\ uPc = [c \in Clients |-> "recv"] /\ got = [c \in Clients |-> 0]
    /\ xPc = [c \in Clients |-> "none"] /\ faults = 0

Fault == faults < MaxFaults /\ faults' = faults + 1

\* A client that has no call open does not notice that the server dies.
Idle(c) == \/ cPc[c] \in {"new", "serve"}
           \/ cPc[c] = "index" /\ uPc[c] = "acked" /\ xPc[c] # "stored"

\* The server dies, and with it queues and handlers. A client in a call gets
\* an error that it does not survive: abort while indexing, a nil reply of
\* UploadMetaData, or a nil document that decryptDocInfo is called with.
Die(cause) ==
    /\ server' = cause
    /\ workers' = FALSE /\ quit' = FALSE
    /\ metaClosed' = FALSE /\ metaLoaded' = FALSE
    /\ writeReqs' = <<>> /\ hand' = NoHand /\ readReqs' = <<>>
    /\ cPc' = [c \in Clients |-> IF Idle(c) THEN cPc[c] ELSE "dead"]
    /\ uPc' = [c \in Clients |-> IF Idle(c) THEN uPc[c] ELSE "recv"]
    /\ got' = [c \in Clients |-> 0]
    /\ UNCHANGED <<diskVars, overlap, xPc>>

Crash == server = "up" /\ Fault /\ Die("killed")

\* main: the database is opened again, and Start called.
Restart ==
    /\ server # "up"
    /\ server' = "up"
    /\ workers' = StartsWorkers(index)
    /\ UNCHANGED <<diskVars, metaVars, writeVars, readReqs, quit, cPc, upVars,
                   xPc, faults>>
----------------------------------------------------------------------------
(***************************************************************************)
(* UploadMetaData: LoadTSetMetaData tests isMetaLoaded, closes the channel *)
(* and sets isMetaLoaded without a lock.                                   *)
(***************************************************************************)

\* MUTANT of MetaKnown: the test is left out.
MetaNeverKnown == FALSE

MetaKnown == metaLoaded

MetaUnchanged == UNCHANGED <<diskVars, writeVars, serverVars, upVars, xPc, faults>>

MetaCheck(c) ==
    /\ server = "up" /\ cPc[c] = "new"
    /\ cPc' = [cPc EXCEPT ![c] = IF MetaKnown THEN "index" ELSE "close"]
    /\ overlap' = (overlap \/ \E d \in Clients : cPc[d] \in {"close", "set"})
    /\ UNCHANGED <<metaClosed, metaLoaded>> /\ MetaUnchanged

MetaClose(c) ==
    /\ cPc[c] = "close" /\ ~metaClosed
    /\ metaClosed' = TRUE
    /\ cPc' = [cPc EXCEPT ![c] = "set"]
    /\ UNCHANGED <<metaLoaded, overlap>> /\ MetaUnchanged

\* A channel is closed once.
MetaPanics(c) == cPc[c] = "close" /\ metaClosed /\ Die("metadata") /\ UNCHANGED faults

MetaSet(c) ==
    /\ cPc[c] = "set"
    /\ metaLoaded' = TRUE
    /\ cPc' = [cPc EXCEPT ![c] = "index"]
    /\ UNCHANGED <<metaClosed, overlap>> /\ MetaUnchanged
----------------------------------------------------------------------------
(***************************************************************************)
(* UploadTSet and tSetWriter                                               *)
(***************************************************************************)
RecvFragment(c) ==
    /\ cPc[c] = "index" /\ uPc[c] = "recv" /\ got[c] < Len(Frags[c])
    /\ uPc' = [uPc EXCEPT ![c] = "put"]
    /\ UNCHANGED <<diskVars, metaVars, writeVars, serverVars, cPc, got, xPc, faults>>

\* MUTANT of HasRoom: the queue has no bound.
HasRoomAlways == TRUE

HasRoom == Len(writeReqs) < WriteCap

\* MUTANT of PutTsetFragment: a fragment that finds the queue full is dropped.
PutTsetFragmentOrDrop(c) ==
    /\ uPc[c] = "put"
    /\ writeReqs' = IF HasRoom
                    THEN Append(writeReqs, Frags[c][got[c] + 1]) ELSE writeReqs
    /\ got' = [got EXCEPT ![c] = @ + 1]
    /\ uPc' = [uPc EXCEPT ![c] = "recv"]
    /\ UNCHANGED <<diskVars, metaVars, hand, serverVars, cPc, xPc, faults>>

\* PutTsetFragment waits for room in the queue, not for the write.
PutTsetFragment(c) ==
    /\ uPc[c] = "put" /\ HasRoom
    /\ writeReqs' = Append(writeReqs, Frags[c][got[c] + 1])
    /\ got' = [got EXCEPT ![c] = @ + 1]
    /\ uPc' = [uPc EXCEPT ![c] = "recv"]
    /\ UNCHANGED <<diskVars, metaVars, hand, serverVars, cPc, xPc, faults>>

\* io.EOF: SendAndClose.
AckTSet(c) ==
    /\ cPc[c] = "index" /\ uPc[c] = "recv" /\ got[c] = Len(Frags[c])
    /\ uPc' = [uPc EXCEPT ![c] = "acked"]
    /\ UNCHANGED <<diskVars, metaVars, writeVars, serverVars, cPc, got, xPc, faults>>

WriterTake(w) ==
    /\ workers /\ hand[w] = {} /\ writeReqs # <<>>
    /\ hand' = [hand EXCEPT ![w] = {Head(writeReqs)}]
    /\ writeReqs' = Tail(writeReqs)
    /\ UNCHANGED <<diskVars, metaVars, serverVars, cPc, upVars, xPc, faults>>

\* MUTANT of WriterDone: the writer keeps what it has written.
WriterStuck(w) == hand

\* The writer selects again, whatever became of its transaction.
WriterDone(w) == [hand EXCEPT ![w] = {}]

\* One transaction per fragment; its error is printed and the fragment lost.
WriterWrite(w) ==
    /\ hand[w] # {}
    /\ \/ tset' = tset \cup hand[w] /\ UNCHANGED <<lost, faults>>
       \/ Fault /\ lost' = lost \cup hand[w] /\ tset' = tset
    /\ hand' = WriterDone(w)
    /\ UNCHANGED <<index, xLost, metaVars, writeReqs, serverVars, cPc, upVars, xPc>>
----------------------------------------------------------------------------
(***************************************************************************)
(* UploadXSetFilter                                                        *)
(***************************************************************************)

\* MUTANT of PutXSetFilter: the filter is kept in memory only.
PutXSetFilterInMemory(c) ==
    /\ server = "up" /\ cPc[c] = "index" /\ xPc[c] = "none"
    /\ xPc' = [xPc EXCEPT ![c] = "stored"]
    /\ UNCHANGED <<diskVars, metaVars, writeVars, serverVars, cPc, upVars, faults>>

\* One transaction creates the index bucket and puts the filter; its error is
\* dropped.
PutXSetFilter(c) ==
    /\ server = "up" /\ cPc[c] = "index" /\ xPc[c] = "none"
    /\ \/ index' = TRUE /\ UNCHANGED <<xLost, faults>>
       \/ Fault /\ xLost' = TRUE /\ index' = index
    /\ xPc' = [xPc EXCEPT ![c] = "stored"]
    /\ UNCHANGED <<tset, lost, metaVars, writeVars, serverVars, cPc, upVars>>

AckXSet(c) ==
    /\ cPc[c] = "index" /\ xPc[c] = "stored"
    /\ xPc' = [xPc EXCEPT ![c] = "acked"]
    /\ UNCHANGED <<diskVars, metaVars, writeVars, serverVars, cPc, upVars, faults>>

\* Index returns: T-set and X-set are acknowledged (ReturnsComplete of
\* Indexer).
Indexed(c) ==
    /\ cPc[c] = "index" /\ uPc[c] = "acked" /\ xPc[c] = "acked"
    /\ cPc' = [cPc EXCEPT ![c] = "serve"]
    /\ UNCHANGED <<diskVars, metaVars, writeVars, serverVars, upVars, xPc, faults>>
----------------------------------------------------------------------------
(***************************************************************************)
(* Searches                                                                *)
(***************************************************************************)

\* KeywordSearch: TSetSearch queues a request; its channels are the client.
TSetSearch(c) == Len(readReqs) < ReadCap /\ readReqs' = Append(readReqs, c)

\* clientDaemon.Search: requestSearch and sendFetchRequests open a stream
\* each.
Search(c) ==
    /\ server = "up" /\ cPc[c] = "serve"
    /\ TSetSearch(c)
    /\ cPc' = [cPc EXCEPT ![c] = "search"]
    /\ UNCHANGED <<diskVars, metaVars, writeVars, server, workers, quit, upVars, xPc,
                   faults>>

\* Without a server the streams of a search are nil, and used all the same;
\* an upload of the X-set filter reports the error, which ends in a panic.
CallFails(c) ==
    /\ server # "up"
    /\ \/ cPc[c] = "serve"
       \/ cPc[c] = "index" /\ xPc[c] = "none"
    /\ cPc' = [cPc EXCEPT ![c] = "dead"]
    /\ UNCHANGED <<diskVars, metaVars, writeVars, serverVars, upVars, xPc, faults>>

\* A tSetReader that has metadata takes the request. Its fetchers find no tset
\* bucket, or return a tuple each, all of which it puts at one index of
\* batchResults: sort.Sort meets the nil entries of the others.
ReaderPanics ==
    /\ workers /\ metaClosed /\ readReqs # <<>>
    /\ Die("search")
    /\ UNCHANGED faults

\* A client dies. Its UploadTSet handler receives the same error for ever; a
\* FetchDocuments handler uses the request it did not get, and the server dies.
ClientDies(c) ==
    /\ cPc[c] = "index" /\ Fault
    /\ cPc' = [cPc EXCEPT ![c] = "dead"]
    /\ UNCHANGED <<diskVars, metaVars, writeVars, serverVars, upVars, xPc>>

SearcherDies(c) ==
    /\ cPc[c] = "search"
    /\ Fault
    /\ Die("fetch")
----------------------------------------------------------------------------
Stop ==
    /\ server = "up" /\ ~quit /\ Fault
    /\ quit' = TRUE
    /\ UNCHANGED <<diskVars, metaVars, writeVars, server, workers, readReqs, cPc,
                   upVars, xPc>>

\* A writer or reader that sees quit calls wg.Done, for which there was no Add.
QuitPanics ==
    /\ quit /\ workers
    /\ metaClosed \/ \E w \in Writers : hand[w] = {}
    /\ Die("stop")
    /\ UNCHANGED faults
----------------------------------------------------------------------------
UploadMetaData(c) == MetaCheck(c) \/ MetaClose(c) \/ MetaPanics(c) \/ MetaSet(c)

UploadTSet(c) == RecvFragment(c) \/ PutTsetFragment(c) \/ AckTSet(c)

UploadXSetFilter(c) == PutXSetFilter(c) \/ AckXSet(c)

tSetWriter(w) == WriterTake(w) \/ WriterWrite(w)

Next ==
    \/ \E c \in Clients : \/ UploadMetaData(c) \/ UploadTSet(c) \/ UploadXSetFilter(c)
                          \/ Indexed(c) \/ Search(c) \/ CallFails(c)
                          \/ ClientDies(c) \/ SearcherDies(c)
    \/ \E w \in Writers : tSetWriter(w)
    \/ ReaderPanics \/ Stop \/ QuitPanics \/ Crash \/ Restart

Server ==
    \/ \E c \in Clients : UploadTSet(c) \/ UploadXSetFilter(c)
    \/ \E w \in Writers : tSetWriter(w)
    \/ ReaderPanics \/ QuitPanics

\* Handlers and goroutines of the server run when they can. Clients come and
\* go, and the server is restarted, as they like. One condition is enough, as
\* no behaviour is infinite.
Fairness == WF_vars(Server)

Spec == Init /\ [][Next]_vars /\ Fairness
----------------------------------------------------------------------------
(***************************************************************************)
(* Properties                                                              *)
(***************************************************************************)

\* Every variable keeps its type; a server that is down holds nothing.
TypeOK ==
    /\ tset \subseteq Fragments /\ lost \subseteq Fragments
    /\ index \in BOOLEAN /\ xLost \in BOOLEAN
    /\ server \in {"up", "killed", "metadata", "search", "fetch", "stop"}
    /\ workers \in BOOLEAN /\ quit \in BOOLEAN
    /\ metaClosed \in BOOLEAN /\ metaLoaded \in BOOLEAN /\ overlap \in BOOLEAN
    /\ writeReqs \in Seq(Fragments) /\ Len(writeReqs) <= WriteCap
    /\ hand \in [Writers -> SUBSET Fragments]
    /\ readReqs \in Seq(Clients) /\ Len(readReqs) <= ReadCap
    /\ cPc \in [Clients -> {"new", "close", "set", "index", "serve", "search", "dead"}]
    /\ uPc \in [Clients -> {"recv", "put", "acked"}]
    /\ got \in [Clients -> Nat]
    /\ xPc \in [Clients -> {"none", "stored", "acked"}]
    /\ faults \in 0 .. MaxFaults
    /\ server # "up" => ~workers /\ writeReqs = <<>> /\ hand = NoHand /\ readReqs = <<>>

\* A fragment that the server has acknowledged is on disk, queued or in the
\* hands of a writer, unless its transaction failed; only the death of the
\* server takes it away. The acknowledgement of the stream does not wait for
\* the writers.
AckedKept ==
    \A c \in Clients : \A i \in 1 .. got[c] :
        Frags[c][i] \in tset \cup lost \cup Range(writeReqs) \cup UNION Range(hand)

\* An acknowledged X-set filter is on disk, whoever dies afterwards: it is
\* stored before UploadXSetFilter returns. (A failed transaction is
\* acknowledged as well.)
XSetKept == (\E c \in Clients : xPc[c] = "acked") /\ ~xLost => index

\* Metadata that every client uploads closes metaDataRecived once: the server
\* dies of it only if two uploads overlap.
MetaLoadedOnce == server = "metadata" => overlap

\* The inductive invariant behind the properties above has four parts. A server
\* that is down has no open calls.
DownInv ==
    server # "up" =>
        \A c \in Clients :
            /\ uPc[c] # "put"
            /\ cPc[c] \notin {"close", "set", "search"}
            /\ cPc[c] = "index" => uPc[c] = "acked"

\* A handler that holds a fragment is in the stream of a client that indexes, or
\* has died since.
CallInv ==
    \A c \in Clients :
        /\ got[c] <= Len(Frags[c])
        /\ uPc[c] = "put" => got[c] < Len(Frags[c]) /\ cPc[c] \in {"index", "dead"}

\* While uploads of metadata have not overlapped, one client at most is between
\* the test and the assignment of isMetaLoaded, and finds the channel open.
MetaInv ==
    /\ MetaLoadedOnce
    /\ ~overlap =>
          /\ \A c, d \in {e \in Clients : cPc[e] \in {"close", "set"}} : c = d
          /\ \A c \in Clients : cPc[c] = "close" => ~metaClosed
          /\ metaClosed => metaLoaded \/ \E c \in Clients : cPc[c] = "set"

\* A filter is in the bucket from the moment PutXSetFilter returns.
XSetInv == \A c \in Clients : xPc[c] # "none" => index \/ xLost

\* The four parts together are inductive, given TypeOK.
SearcherInv == DownInv /\ CallInv /\ MetaInv /\ XSetInv

\* Every fragment in the queue of a server that has writers is written, or
\* lost in a transaction that failed, unless the server dies or is stopped:
\* also those acknowledged long ago and those of a client that has died.
QueuedStored ==
    \A f \in Fragments :
        f \in Range(writeReqs) /\ workers ~> f \in tset \cup lost \/ ~workers \/ quit

\* A server that has writers takes a stream to its end, although the queue is
\* far shorter, unless one of the two dies or the server is stopped.
UploadAcked ==
    \A c \in Clients :
        cPc[c] = "index" /\ workers ~> uPc[c] = "acked" \/ cPc[c] = "dead" \/ quit
=============================================================================
