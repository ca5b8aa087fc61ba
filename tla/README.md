# A TLA+ verification of DuckDuckXor

DuckDuckXor is a searchable-encryption system: a *client proxy* indexes a corpus
of documents, encrypts the index and the documents, and streams both to a
*search server*, which answers conjunctive queries without seeing the words. The
proxy is a pipeline of goroutines that share channels, counters and an embedded
database; nearly all that can go wrong there depends on the order in which they
run, on which of them notices `quit` first, and on what is on disk when the
process dies. That is what the modules here describe.

## 1. Inventory

| Component (source) | State it keeps | Operations | Talks to |
|---|---|---|---|
| Corpus reader (`client_proxy/corpus_reader.go`) | directory walk, output channel | Start, Stop | preprocessor |
| Document preprocessor (`doc_preprocesser.go`) | `NextDocId`, four output streams | Start, Stop; one worker loop | term frequencies, index generator, doc streamer, keyword summer |
| Term frequency calculator (`tf_calc.go`) | map-reduce channels, tokens in `shufflerChan`, bucket sizes | mapper, shuffler, reducer, initializer, `populateBloomFilters` | bloom master |
| Encrypted index generator (`encrypted_index.go`) | word counters, PRFs, `pendingXSends`, one gRPC stream per worker | splitter, x-set workers, t-set workers, janitor, bloom streamer, Stop | server (UploadTSet), bloom master |
| Bloom master (`bloom_master.go`) | X-set filter, frequency filters, their counters, bolt bucket | Init/Queue operations, workers, saver, uploader, query handler, Stop | bolt, server |
| Encrypted document streamer (`doc_encrypter.go`) | `encryptedDocs` channel, one gRPC stream | encrypters, uploader, Stop | server (UploadCipherDocs) |
| Key manager (`key_manager.go`) | derived keys in memory and in bolt | first and regular setup, Fetch operations, Stop | every component that needs a key |
| Error handler (`error_handler.go`) | `Message` channel with room for one error, stop functions | `abort`, `handleErrors` | every component |
| Indexer (`index.go`) | `mainWg`, the sum of keywords | `Index`, `totalKeyWordSummer` | all of the above |
| Client daemon (`client.go`) | channels shared by all searches | `main`, Search, fetch, decrypt | server, key manager, bloom master |
| Document database (`server/doc_db.go`) | bolt bucket of ciphertexts, read and write queues | PutDoc, RetrieveDoc, Stop | RPC handlers |
| Encrypted index searcher (`server/encrypted_searcher.go`) | T-set buckets, X-set filter, metadata | T-set writers and readers, search | RPC handlers |
| Search server (`server/server.go`) | - | `main`, RPC handlers | searcher, document database |

What makes it hard: unbuffered channels (a send is a rendezvous) beside buffered
ones; goroutines that are counted in different wait groups; channels closed by
whoever gets there first; counters read outside the lock that protects them;
`select` over a channel and `quit`; errors reported through a channel of size
one; acknowledged but unwritten data; and a start that decides from what the
previous process left on disk.

What makes each component correct:

* *index generator*: the fragments of a word are numbered 1, 2, ... without clash
  or gap and closed by one end marker, whatever the interleaving of the workers;
  every posting and every xTag gets out; it ends; it can be stopped;
* *bloom master*: only complete filters leave memory, over crashes; a restarted
  client answers from them; indexing completes; Stop returns;
* *term frequencies*: the bucket sizes are those of the corpus; reducers are not
  dismissed while a shuffler needs them; it ends;
* *document streamer*: each document is sent exactly once;
* *key manager*: the same complete set of distinct keys at every start;
* *document database*: last write wins, replies reach the caller that asked;
* *corpus reader, preprocessor, indexer*: the four consumers get the same
  documents; the size announced for the X-set is the number of xTags that will
  come; no component waits for another that waits for it; `Index` returns, and not
  before the components it counts are done; `mainWg` is neither overdrawn nor short;
* *searcher and server*: what is acknowledged is kept while the server lives, what
  is stored survives it; uploads are taken to their end although the queue is
  short; several clients do not harm each other; restarts go on from the disk.

`PROJECT.json` holds the map from definitions to source lines and the list of
hazards, each at its line with the properties that watch it.

## 2. Modules

| Module | Models | State and actions |
|---|---|---|
| `EncryptedIndexGenerator` | `encrypted_index.go` | one `pc` per goroutine. A send on an unbuffered channel is one joint step (`SplitterSendX`, `SplitterSendT`, `SenderSend`). `counter` is `wordIndexCounter`, `pending` is `pendingXSends`, `closer` the goroutine of `closeXtagChan`, `tset` what the server was sent |
| `PostingLists` | the T-set as a search needs it | per word a list of numbered postings: `Post` adds one to an open list, `Close` adds the end marker beyond all of them. `EncryptedIndexGenerator` implements it (`ImplementsPostingLists`) with the postings and markers among the fragments sent |
| `BloomMaster` | `bloom_master.go` | `Booted(disk)` is the process a start produces; `CallCheck`/`CallSend` are the two halves of a Queue operation, around the unsynchronised test of `shutdown`; `WAddRead`/`WAddWrite` the two halves of an unsynchronised filter `Add`, after which `WXSetCount` adds one to the shared counter of xTags; `disk` the bolt bucket; `Crash` a death and restart |
| `TermFrequencyCalculator` | `tf_calc.go` | mappers, shufflers, reducers, initializer, `tokens` = `len(shufflerChan)` |
| `EncryptedDocStreamer` | `doc_encrypter.go` | encrypters, the bounded channel, the uploader |
| `KeyManager` | `key_manager.go` | keys as derivation paths, `db` the bolt bucket, starts with any passphrase, the request handler, fetchers |
| `DocumentDatabase` | `server/doc_db.go`, `UploadCipherDocs` and `FetchDocuments` of `server/server.go` | writer, readers, the RPC handlers as callers, both queues and the two reply channels of a request |
| `Indexer` | `index.go`, `corpus_reader.go`, `doc_preprocesser.go`, `error_handler.go` | one run of `Index`: the constructors and Starts in order (`mainPc`), walker, reader, `partitionStreams` with its four streams (`out`, `taken`), `totalKeyWordSummer`, the registration of stop functions, errors and interrupts, and `mainWg`. The components it starts are present by the channels and counters they share: their taking of documents, the bloom master's queue with its four kinds of messages, and the ends of the groups of goroutines that `mainWg` counts. A corpus is the number of words of each file; that some of them belong in a frequency bucket is a datum of its own (`bucketed`), as the counts of single words are in `TermFrequencyCalculator` |
| `EncryptedSearcher` | `server/encrypted_searcher.go`, `server/server.go`, `main` and searches of `client.go` | several clients that upload metadata (test, close, set: three steps without a lock), a T-set stream and the X-set filter, and then search; `writeReqs` and `hand` are the queue and the writers; `tset` and `index` the bolt buckets; `Die` what every death of the server takes with it, `Restart` its next start |

`Indexer` composes the client, `EncryptedSearcher` the server with its clients. Both
see the other modules' components by interface, so that each stays small enough
to be checked: what `Indexer` takes for granted of a component (the index generator
ends when its input ends and the X-set exists, the saver when all buckets are in)
is what that component's own run checks (`Finishes`, `Completes`).

`MCEncryptedIndexGenerator`, `MCBloomMaster`, `MCTermFrequencyCalculator`,
`MCIndexer` and `MCEncryptedSearcher` hold the small corpora and indexes of the
runs; the other modules are run directly.

Eight of them have their theorems (section 6) in a module named after them:
`EncryptedIndexGeneratorProofs`, `EncryptedSearcherProofs`,
`EncryptedDocStreamerProofs`, `DocumentDatabaseProofs`, `KeyManagerProofs`,
`TermFrequencyCalculatorProofs`, `BloomMasterProofs` and `IndexerProofs`. Some
definitions have the form a proof can use: sums over words and documents are the
cardinality of a set of occurrences (`Total` in `TermFrequencyCalculator`,
`TotalWords` in `Indexer`), the derivation of the key map is a recursive function
on the rounds of the loop (`Derivation` in `KeyManager`), and a message of the
bloom master names the call that sent it, which no action looks at.

Abstractions common to all modules:

* **Data.** Words, xTags, documents and ciphertexts are model values. A keyed PRF
  is the sequence of what was written into it since its last `Reset`, the only
  thing its `Sum` depends on; words are kept apart where cmac sees bytes, so no
  property relies on two different sequences having different stags. A key is its
  root secret and the path down the hash tree. A bloom filter is the set of what
  was added, without false positives.
* **Channels.** A channel with a buffer is a sequence with its capacity; one
  without is a joint step. A closed channel is a flag; a send to it panics.
* **Failures.** `MaxErrs` (`MaxFaults` in `Indexer` and `EncryptedSearcher`, where it
  counts interrupts, kills and calls of Stop too) bounds the failing stream, file and database operations.
  A failure goes through `Abort`, which needs room in `Message` or a closed
  `quit`. `handleErrors` then calls the nil entries at the front of `stopFuncs`
  and the process dies (`HandleErrors`): this is what the code does.
* **Panics.** `panicked` stops every action of the process.
* **Numbers.** Counters are unbounded; the code's `uint32` would overflow after
  2^32 words or documents.

Definitions commented `MUTANT of X` are plausible bugs of `X`; each property has
one that breaks it (`PROJECT.json`, `mutants`), which shows that the property
depends on the code and the bounds are large enough to notice.

## 3. Passing runs

| Run | Checks | States |
|---|---|---|
| `EIG_OneWorker` | One worker (the default), two documents sharing a word, one failing stream operation and a Stop at any moment. `TypeOK`; `TSetInv`, the inductive invariant of section 6; `PostingsContiguous` (no gap, after Stop too); `XTagsAllQueued`; and, under fairness, `Finishes`: with a server that answers nothing panics and every goroutine ends | 299 000 |
| `EIG_TwoWorkers` | Two workers of each kind, three documents, one of them without words. `PostingsComplete` and the refinement `ImplementsPostingLists`: the T-set side is right however the workers interleave, and until the moment the x-side kills the process (section 4) | 2 297 000 |
| `Bloom_Indexing` | One bloom worker, two frequency buckets, three xTags in two documents, one failure, one crash, a Stop. `UploadComplete` and `SavedComplete` (no incomplete filter leaves memory), `RestartAnswers`, `SaverDoneAllSaved`, and `Completes` under fairness | 243 000 |
| `Bloom_Stop` | Two workers that compete for the lock held while sending to `finishedFreqBlooms`: `StopReturns` | 246 000 |
| `TF_Counting` | One or two mappers, three shufflers and reducers, of which one gets no word; a word reaches its bucket only when the counts of two documents are added. `ReducersOutliveShufflers`, `SizesExact`, `Finishes` (the process dies only of a second mapper); deadlock is checked | 13 000 |
| `Docs_Upload` | One or two encrypters, three documents, a channel of one or two, one failure, a Stop. `EachDocOnce`, `AllUploaded`, `Finishes` (without a panic if there is one encrypter and no failure) | 11 000 |
| `Keys_Restarts` | Three starts, a right and a wrong passphrase, one failing Put, two fetchers, a Stop. `SameKeysAlways`, `KeysCompleteAndDistinct`, `FetchAnswered`, `StopReturns` | 8 000 |
| `DocDB_Serving` | Two readers, two callers, queues of two, three puts of two documents under one id, one failing write, one crash, a Stop, any number of fetches. `LastPutWins`, `RepliesMatch`, `RetrieveReturns`, `PutsStored`, `StopReturns` | 57 000 |
| `Indexer_Run` | Eight corpora of up to three files, with and without words, and with words of which none is in a frequency bucket, on a new client and on one with saved filters; one failure, interrupt or Stop at any moment. `StreamsAgree`, `UploadsFullXSet`, `ReturnsComplete`, `NoPanic`; under fairness `IndexReturns` and `PipelineDrains` (which includes the return of the preprocessor's Stop). `ReturnsComplete`: at most one counted goroutine is left behind, and only the saver if a bucket has words | 366 000 |
| `Searcher_Uploads` | Two clients, one of which sends more than the two writers take, a queue of one, two faults (failing transactions, kills of either side, Stop) at any moment, searches, restarts. `AckedKept`, `XSetKept`, `MetaLoadedOnce`, `TypeOK`; under fairness `QueuedStored` and `UploadAcked` | 236 000 |

Why the bounds are enough. The properties of the T-set are about one word in two
documents, or two workers on one word: two workers, two words and a shared word
show each of them (and section 6 removes the bounds). The bloom master's counters
matter when a batch completes them or not: two batches each, and one bucket that
is empty. The map-reduce needs more shufflers than documents in flight and a word
that two documents have. The streamer needs more documents than the channel has
room for. Two callers and two readers are what it takes to mix up replies. The
indexer needs a document beyond those the streams and their readers can hold while
the X-set is not there, hence three, and the corpora on which its counters meet 0
or 1 or its buckets are empty. The searcher needs two clients for the races of metadata and of the queue,
a stream longer than queue and one writer hold, and two faults for a death and
then a failure after the restart. Elsewhere one
crash, one failure and one Stop at *every* state are explored; a second failure adds
little, as `handleErrors` kills the process once it takes the first from `Message`.

`CHECK_DEADLOCK FALSE` stands where the program may really stop: after Stop, a
panic or a finished indexing. There the liveness properties say what must have
happened before.

The frequency words in `Bloom_*` are driven the way `bloom_master_test.go` drives
the bloom master; the real `populateBloomFilters` sends none (section 5).

## 4. Runs that refute what the code says of itself

| Run | Statement | What happens |
|---|---|---|
| `EIG_EarlyClose` | "Signal the streamer that there aren't any more xTags" (`encrypted_index.go:268`) | With two x-set workers the closing goroutine sees `pendingXSends = 0` while the second worker has a document it has not announced. `finishedXtags` is closed; that document's xTags are lost or the send panics |
| `Bloom_FirstTime` (`NotFirstTimeAllSaved`) | "Do we already have all the filters saved?" (`bloom_master.go:138`) | The first save creates the bolt bucket; a client that dies between two saves comes back convinced that all filters are there, cannot load them and never indexes again |

## 5. Other deviations seen while modelling

These are in the models, as the code behaves, but have no run of their own. The
formula is the one that fails.

Index generator:

* `encrypted_index.go:361`: `sTagPRF` is reset per document and not per word,
  against "stag = F(K_t, w)" (line 477): the second word's stag is the PRF of both,
  and a search for it finds nothing (`\A f \in tset : f.stag = <<f.word>>`).
* `encrypted_index.go:163`, "Stop gracefully stops the index generator": the
  splitter can stay in a send to a worker that has left, or the streamer in its
  wait for the X-set filter (`stopPc = "waiting" ~> stopPc = "returned"`).
* `encrypted_index.go:232`: `xIndPRF` and `xTagPRF` are not reset between words
  and `indBuf` starts with four zero bytes (`XTagsOf`); xTags depend on word order
  and on the worker's history.

Bloom master, term frequencies, documents and keys:

* `bloom_master.go:437`: a document without words handled after the last xTag
  closes `xFilterFinished` again and panics (`~panicked`, with an empty set at the
  end of `XAdds`).
* `bloom_master.go:477`: a bucket that is already full is sent again by empty
  leftovers; the saver counts messages and leaves early (`SaverDoneAllSaved`).
* `bloom_master.go:429`: two workers lose an addition (`UploadComplete` with two
  workers).
* `bloom_master.go:176`: a restarted client starts no workers while
  `client.go:62` indexes again: `pos[XSet] > 0 ~> xReady` fails after a crash.
* `tf_calc.go:152`, `doc_encrypter.go:120`: with more than one worker a channel is
  closed under the others; the conditions in `Finishes` say so.
* `tf_calc.go:253`: a word that occurs exactly as often as a limit (100, 1000 or
  10 000 times), or 100 000 times and more, is in no bucket (`InBucket` is strict on
  both sides). If that is every word, all buckets have size 0, are sent off by the
  empty leftovers, and the saver ends: see `index.go:88` for what follows.
* `tf_calc.go:281`: nothing assigns `ResultMap`; no word reaches a filter.
* `doc_encrypter.go:92`: `Seek(1, 0)` skips the first byte of every document.
* `doc_encrypter.go:109`: after Stop an encrypter can stay blocked on the channel
  the uploader no longer reads: `stopPc = "waiting" ~> stopPc = "returned"` fails.
* `key_manager.go:365`: `FetchDocEncKey` asks for `WTrapKey` (`Requested`).
* `doc_db.go:107`: the lookup calls `CreateBucketIfNotExists` in a read-only
  transaction; the error is dropped and an empty document returned (`Lookup`).

Indexer (all are behaviours of `Indexer`):

* `index.go:69`: the document streamer is not counted in `mainWg`: `Index` returns
  while documents are still being uploaded
  (`mainPc = "returned" => taken["enc"] = Len(corpus)` fails).
* `index.go:88`: `totalKeyWordSummer` calls `Done` without an `Add`. It takes the
  place of the saver, which on real corpora never finishes; with an empty corpus,
  or one whose summer is early, the counter can go below 0 and panic, or `Index`
  return early. The same happens when the saver does finish, because every word has
  a count that is in no bucket: two files with 50 times the same word each are
  enough. Without any failure `Index` then returns while one of the other goroutines
  it counts still runs (`ReturnsComplete` without `~BucketsEmpty` in its last
  conjunct), or the last `Done` panics (`NoPanic` without `firstTime => bucketed`).
  The two properties state these conditions.
* `bloom_master.go:176`: on a client with saved filters no bloom worker runs and
  `Index` hangs: `IndexReturns` has `firstTime` as its condition.
* `corpus_reader.go:99`: a missing root, or a file that vanishes during the walk,
  is a nil `FileInfo` that the walker uses (`WalkerPanics`).
* `corpus_reader.go`: Stop does nothing once Start has run; after the Stop of the
  preprocessor the reader stays in its send for ever.
* `error_handler.go:38`: the ten entries that `make` puts at the front of
  `stopFuncs` are nil; the first error kills the process before a component is
  stopped. An append during the walk of `handleErrors` (line 49) makes no difference.
* `index.go:70`: `docNames` is returned and never filled.

Server and daemon (all are behaviours of `EncryptedSearcher`, or of
`DocumentDatabase` where it is named):

* `encrypted_searcher.go:168`: a server that starts on a stored X-set asks for a
  bucket to be created in a read-only transaction, fails and starts neither
  writers nor readers. Later uploads that fit the queue are acknowledged and never
  written, longer ones hang, and so do searches. `QueuedStored` and `UploadAcked`
  have `workers` as their condition.
* `encrypted_searcher.go:299`: all results of a batch go to `batchResults[i]`; the
  sort meets nil entries and the server dies (`ReaderPanics`); if nothing was
  written yet, it dies of the missing `tset` bucket. The client then dies of the nil
  document of the broken stream. Behind that panic no search gets further, so the
  rest is not in the model: line 334 takes bucket and label in another order than
  `CalcTsetVals` returns them, the first index asked for is 0 and the first
  posting 1, and `decryptedTuple[1:eIdLength]` is one byte short.
* `encrypted_searcher.go:193`: overlapping uploads of metadata kill the server
  (`MetaPanics`).
* `encrypted_searcher.go:255`: writers and readers call `wg.Done` without an `Add`:
  Stop kills the server (`QuitPanics`). Nothing calls it at present.
* `encrypted_searcher.go:137`: the filter is decoded into a nil pointer, so `xSet`
  stays nil; it is never read.
* `encrypted_searcher.go:251`, `:158`: a failing transaction is printed or dropped
  and the upload acknowledged all the same (`lost`, `xLost`).
* `server.go:45`: `UploadTSet` does not look at errors other than `io.EOF`; after
  the death of its client it loops for ever.
* `server.go:108`: `FetchDocuments` uses the request of a broken stream: the death
  of a client that searches kills the server (`SearcherDies`; one of the reasons
  for `Crash` in `DocumentDatabase`).
* `client.go:181`: `break` leaves the `select` and not the loop, so that the goroutine
  at line 190 never starts and no document is ever received; it would go on after
  closing `plainDocs`. `eDocs` is closed by every search.

## 6. What is proved

Every invariant that a passing run checks, and the refinement, is a theorem: it
holds for every value of the constants that the assumptions allow, not only on the
instance of the run. The assumptions are named in the modules that declare the
constants, and TLC evaluates them in each run.

### Encrypted index generator

`EncryptedIndexGeneratorProofs`, for every corpus, every number of workers, every
number of failures, and Stop at any moment:

| Theorem | States |
|---|---|
| `TypeCorrect` | `Spec => []TypeOK` |
| `TSetCorrect` | `Spec => []TSetInv` |
| `IndicesUnique` | `Spec => []UniqueIndices` |
| `MarkersLast` | `Spec => []EndMarkerLast` |
| `PostedOnce` | `Spec => []OnePostingPerDoc` |
| `NoGaps` | `Spec => []PostingsContiguous` |
| `AllPosted` | `Spec => []PostingsComplete` |
| `PostingListsRefined` | `Spec => ImplementsPostingLists` |
| `AllXTagsQueued` | `OneWorker => (Spec => []XTagsAllQueued)` |

Assumptions: `Docs` is a finite set of positive ids, `Words` is finite,
`DocWords` gives each document a set of words, there is a worker, `MaxErrs` is a
natural number and `MayStop` a Boolean. TLC evaluates them in each run.

`UniqueIndices`, `EndMarkerLast` and `OnePostingPerDoc` follow from
`ImplementsPostingLists` as well, which is what the runs check of them.

The argument. None of the properties is inductive: `UniqueIndices` speaks of
fragments the server has, while the clash would be prepared by two workers that
hold fragments still to be sent. The invariant therefore speaks of `Issued`, the
fragments sent or about to be sent, and has three parts:

* `NumberingInv`: postings are numbered up to the counter, end markers come right
  after it and only when every t-set worker is done; no number is used twice. The
  lock of `readThenIncrement` and `janitorWG` are what preserves it.
* `OwnershipInv`: a document is in one place (input, splitter, one worker) and
  what is posted is no longer awaited, so no document is posted twice.
* `CoverageInv`: without failures every number given out is in use and every word
  of a document is posted or awaited; a worker leaves only between documents.

One lemma per group of actions that touch the T-set proves that they preserve it,
`TSetFrame` covers the others; each property then follows from the invariant
without induction.

The refinement needs the invariant too. `TSend` is a `Post`: the fragment in the
worker's hands is `Issued`, so its number differs from those in the list
(`NumberingInv`) and its document is not posted yet (`OwnershipInv`), and no marker
exists while a worker runs. `JMark` is a `Close`: every posting of the word is
numbered up to the counter and the marker right after it. A failed Send and every
other action leave the lists alone (`TSendRefines`, `JMarkRefines`).

`AllXTagsQueued` has the hypothesis that there is one worker, the default of
`num_workers` (`client.go:32`), and is false without it (`EIG_EarlyClose`). Its
invariant is apart from the T-set's. `XLineInv` says that a document is in one place
(input, splitter, worker) until its xTags are computed, once, one for each of its
words. `XCloseInv` says that `pendingXSends` is the number of documents in
`Sending`, that the closing goroutine exists only once the worker has left, and
that it goes on only with nothing in `Sending`: the worker that spawns it is
the only one that could add to the counter, so a counter that reads 0 stays 0.

### Encrypted index searcher

`EncryptedSearcherProofs`, for any number of clients, fragments, writers and faults,
queues of any length, and deaths and restarts at any moment:

| Theorem | States |
|---|---|
| `TypeCorrect` | `Spec => []TypeOK` |
| `SearcherCorrect` | `Spec => []SearcherInv` |
| `MetaDataOnce` | `Spec => []MetaLoadedOnce` |
| `XSetPersists` | `Spec => []XSetKept` |
| `AckedNotLost` | `Spec => []AckedKept` |

Assumptions: each client's fragments are a sequence, the queues have room for one
element, and `MaxFaults` is a natural number. `SearcherInv` has four parts:
`DownInv` (a dead server is in no call, without which `TypeOK` is not inductive: a
handler could put a fragment into the queue of a dead server), `CallInv` (a handler
that holds a fragment has one left), `MetaInv` (until two uploads overlap, at most
one client is between the test and the assignment of `isMetaLoaded`, and the channel
is open for it) and `XSetInv` (the filter is in the bucket when `PutXSetFilter`
returns, before the acknowledgement). `AckedKept` is inductive on top of it: a
writer's step moves a fragment from the queue to its hands or from its hands to
the disk, and only `Die` takes any away.

### Encrypted document streamer

For every set of documents and of encrypters:

| Theorem | States |
|---|---|
| `StreamerCorrect` | `Spec => []IInv` |
| `DocsOnce` | `Spec => []EachDocOnce` |
| `AllDocsUploaded` | `Spec => []AllUploaded` |

Assumptions: both sets are finite. `EachDocOnce` speaks of what the server
has; the invariant of every place a document can be in. `HeldInv` and `QueueInv` say
that it is in one of input, encrypter, channel and server, and once in each;
`KeptInv` that it is in one unless something failed; `CloseInv` that the channel is
closed by an encrypter that leaves, which it does when the input is empty or at
`quit`.

### Document database

For all ids, ciphertexts, readers, callers and puts, crashes at any moment:

| Theorem | States |
|---|---|
| `ReadsCorrect` | `Spec => []IInv` |
| `RepliesReachCaller` | `Spec => []RepliesMatch` |
| `LastPutStored` | `Spec => []LastPutWins` |

Assumption: the queues have room for one element (`BufSize` is positive).
`RequestInv` says that a request is in one place, in the queue or with one
`readHandler`, and `ReplyInv` that its caller waits until then and that a caller who
waits for nothing has nothing left in his reply channels; this is why they
never block a reader (`CapInv`) and why no reply is for somebody else. `LastPutWins`
is proved one id at a time (`Wins`): what is stored is the last put if none is
queued, and otherwise the last queued one is.

### Key manager

For all passphrases, fetchers, starts and failing Puts, and Stop at any moment:

| Theorem | States |
|---|---|
| `KeysCorrect` | `Spec => []IInv` |
| `OneKeyMap` | `Spec => []SameKeysAlways` |
| `KeyMapsComplete` | `Spec => []KeysCompleteAndDistinct` |

There are no assumptions. `StoredInv` says that all clients that came up used the
keys of one root secret (passphrase and salt), and that the bucket holds that root with
its keys, or was created and left without either and can never be read again: the
case of a process that fails in its first setup. `KeyMapOf` is computed by a loop
of three rounds; `DerivationUnfolds` computes the rounds one by one, so
distinctness of the six keys needs no induction.

### Term frequency calculator

For every corpus, hash function, limits and number of mappers and reducers:

| Theorem | States |
|---|---|
| `CountingCorrect` | `Spec => []IInv` |
| `NoShufflerAbandoned` | `Spec => []ReducersOutliveShufflers` |
| `SizesOfTheCorpus` | `Spec => []SizesExact` |

Assumptions: documents, words and reducers are finite sets, `Count` gives each
document and word a natural number, the hash sends each word to a reducer, and the
limits are positive and increase (tf_calc.go:250). `StagesInv` is the order in
which the stages end, by closing a channel or counting tokens. `CountInv` is the
conservation of occurrences: at any moment the count of a reducer is the number of
occurrences of the word in the documents that are neither waiting nor with a
shuffler. A shuffler holds pairs and not the document they are from, and two
documents can have the same pairs, so the invariant says that *there is* an
assignment `src` of documents to shufflers with which it adds up; each step gives the
next one. `SizesInv` adds up the reports of the reducers that have ended.

### Bloom master

With one worker, for every sequence of calls, any crashes and failures, and Stop:

| Theorem | States |
|---|---|
| `FiltersCorrect` | `Spec => []IInv(w)`, where `w` is the worker |
| `UploadsComplete` | `OneWorker => (Spec => []UploadComplete)` |
| `SavesComplete` | `OneWorker => (Spec => []SavedComplete)` |
| `RestartsAnswer` | `OneWorker => (Spec => []RestartAnswers)` |
| `SaverEndsWithAll` | `OneWorker => (Spec => []SaverDoneAllSaved)` |

The hypothesis is the default of `num_workers`; with two workers the read and the write
of `Add` interleave and an addition is lost (section 5). Assumptions beyond types
(`XTagsAssumption`, `WordsAssumption`): an xTag is sent once and no more of them are
sent than announced, which `SizeInv` of `IndexerProofs` and `AllXTagsQueued` are the
reasons for; a word is sent once, to one bucket, and no more of them than announced. The
last part of `WordsAssumption`, that a bucket's call with nothing in it is its only
call, is true of the code because `ResultMap` is empty, so that each bucket gets
one call with nothing. It would fail for a bucket of an exact multiple of 10000
words, where the last batch is followed by an empty call which sends the full bucket
once more (section 5). A crash keeps the disk only, so the invariant has two
halves. `KeptInv` is of what outlives the process; `IndexInv` is of one that
indexes: a call is in the channel once and in order (`ChanInv`); the filter is what
the calls received have sent, less what the worker still has to add, and the
counter its size, but for the xTag added and not yet counted (`XInv`, `FreqDone`); a bucket on its way to the saver is full and
no call is left that would send it again (`FullInv`), so the saver, which
counts messages, counts buckets (`SaverInv`). `ModeInv` is of a process that loaded
its filters: it runs nothing and has what the disk has.

### Indexer

For every set of corpora and any number of failures, interrupts and Stop:

| Theorem | States |
|---|---|
| `StreamsAlwaysAgree` | `Spec => []StreamsAgree` |
| `UploadIsFull` | `Spec => []UploadsFullXSet` |
| `ReturnIsComplete` | `Spec => []ReturnsComplete` |
| `NeverPanics` | `Spec => []NoPanic` |

Assumptions: a corpus is a sequence of natural numbers (the words of each file) with
a Boolean (whether any of them is in a frequency bucket), and `MaxFaults` is a
natural number. The invariant `IInv`, part by part:

* `LineInv`: documents are numbered as they are read, and each stream had the
  first of them, up to the one `partitionStreams` has in its hands and has not sent
  there yet; `StreamsAgree` is the case of a `partitionStreams` that is done.
* `TakenInv`: a stream holds one document, so the second cannot be sent before
  the first was taken, hence not before its reader was started.
* `SizeInv` and `XTagsInv`: the size announced is the number of words of the stream
  the index generator reads, fixed once `partitionStreams` is done; what is queued
  or added are different documents of that stream. The filter is found finished
  when as many are added as announced, which are then all (`FilterFull`).
* `WgInv`: `mainWg` is the number of groups that run, less one once
  `totalKeyWordSummer` has called `Done`. When `Index` returns the counter is 0, so at
  most one group is still running; if a bucket has words it is the saver, which
  never ends then (`ReturnIs`). What a group that is done has achieved is not part of
  this: an uploader whose call failed is done.
* `CleanInv`, `FreqInv` and `ServingInv` serve `NoPanic`. With two documents the
  summer's `Done` comes after the second was sent to the term frequencies, thus after
  the first was taken, thus after `bloomMaster.Start` and `tfCalc.Start`, and then the
  saver, if it has words to wait for, or on a client with saved filters
  `populateBloomFilters` still counts (`StillBusy`). `NoPanic` asks for just this: with
  one document or none, without words, or with words that are in no bucket, the panic
  is real (section 5).

## 7. What is only model-checked

* Liveness: `Finishes` (three modules), `Completes`, `StopReturns` (three modules),
  `FetchAnswered`, `RetrieveReturns`, `PutsStored`, `IndexReturns`, `PipelineDrains`,
  `QueuedStored`, `UploadAcked`; and deadlock freedom of `TF_Counting`. The prover does
  not reach liveness under fairness, nor `ENABLED`.
* What the default of one worker excludes: with two workers the properties of the x-side
  and of the bloom master are false or, as `StopReturns` in `Bloom_Stop`, checked on
  that instance.
* The violations of section 4.

Fairness. The Go scheduler runs every goroutine that can run: weak fairness for
each goroutine. `select` picks among ready cases at random, so a request handler
that keeps getting requests cannot pass `quit` by for ever: strong fairness of
`HandlerQuit` in `KeyManager`. For the same reason a reader of `DocumentDatabase` under load sees
`quit` in the end (`ReaderQuit`). In `Indexer` and `EncryptedSearcher` no behaviour is
infinite, so one condition on all steps of the program, or of the server, says the
same as one for each goroutine; interrupts, failures, deaths, restarts and what
clients decide to do are outside of it. Stop, crashes, failures and new requests are
decisions of callers or of the environment and have no fairness. `BloomXSetInit`
and `BloomFreqInit`, done by the bloom master for its clients, are fair because
`Completes` shows that the bloom master's workers handle what they are sent.

## 8. Not modelled, and the plan

Not modelled, and why: `inverted_index.go` is dead code; `crypto/tset.go` is pure
functions over bytes that the properties do not look into; `crypto/xset.go` and
`server/search.go` hold no code; `ddx/cli.go` keeps no state; `protos/` is
an interface definition and generated code. File contents, the encoding of bloom
filters and the cryptography itself are outside every model.

Of `client.go` the part behind a successful search is not modelled (decryption, the
channel of plain documents): no execution reaches it, and a model of it would be
one of code that has to change first.

Next:

1. Step facts behind the liveness properties that are provable without fairness: that a
   token, a counter or a blocked goroutine implies somebody who can still act on it
   (`TF_Counting`, `Docs_Upload`, `Indexer_Run`), and measures that steps decrease.
2. An abstract register per document, implemented by the document database, once
   its lookup returns what was stored.
3. The search path behind `ReaderPanics` and the daemon's channels, once a search
   can succeed; `PostingLists` is the interface it would be checked against.
